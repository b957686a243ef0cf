----------------------------- MODULE HostStore -----------------------------
(***************************************************************************)
(* model::HostStore: the list of saved hosts, the file hosts.json that is  *)
(* read when the program starts and rewritten after every change, and the  *)
(* keychain that holds the passwords under the ids of the hosts.  All of   *)
(* it happens on the GUI thread; what comes between is the end of the      *)
(* program, at any moment, and failures of the file and the keychain.      *)
(*                                                                         *)
(* An id is a UUID; here a number that was never given before.  Of a       *)
(* profile only the id, what importing compares, and a password matter:    *)
(* the port is one more field like the user, the passphrase one more       *)
(* secret like the password.                                               *)
(***************************************************************************)
EXTENDS Naturals, SequencesExt

CONSTANTS
  Hosts, Users,   \* host names and user names
  Me,             \* the user of the environment
  Nameless,       \* the host name of an entry that has none
  Entered,        \* the endpoints a user may enter in the dialog
  Configs,        \* what ~/.ssh/config may say: sequences of directives
  Files,          \* what hosts.json may be in the beginning
  MaxIds          \* bound on the ids given

NoId == 0

Ids == 1..MaxIds

Endpoints == [host : Hosts, user : Users]

ProfileSet == [id : Ids, at : Endpoints, password : BOOLEAN]

(* An entry of hosts.json: toJson() leaves the password out. *)
EntrySet ==
  [id : Ids \cup {NoId}, at : [host : Hosts \cup {Nameless}, user : Users]]

(* Host with a name, Host with a pattern, HostName, User, anything else. *)
Directives ==
  [key : {"host", "hostname"}, value : Hosts]
  \cup [key : {"user"}, value : Users]
  \cup [key : {"pattern", "other"}, value : {Nameless}]

(* No two entries of a file have the same id: the program gives every host a
   new one, and a file that was edited by hand is taken to keep to that. *)
OwnIds(entries) ==
  \A i, j \in DOMAIN entries : entries[i].id = entries[j].id /\ entries[i].id # NoId => i = j

(* A file that is not there or does not parse has no entries. *)
ASSUME HostStoreAssumption ==
  /\ MaxIds \in Nat
  /\ Me \in Users
  /\ Nameless \notin Hosts
  /\ Entered \subseteq Endpoints
  /\ Configs \subseteq Seq(Directives)
  /\ Files \subseteq [state : {"absent", "garbled", "good"}, entries : Seq(EntrySet)]
  /\ \A f \in Files : OwnIds(f.entries) /\ (f.state # "good" => f.entries = <<>>)

VARIABLES
  phase,      \* the program is off, ready, or has changed the list and not yet saved
  profiles,   \* m_profiles
  file,       \* hosts.json
  keychain,   \* the ids under which a password is kept
  issued,     \* the highest id given so far
  safe,       \* history: hosts that were in the file and not removed by the user
  blind,      \* history: the program has once not been able to read the file
  lost        \* history: a change of the list has got lost, or the keychain refused

vars == <<phase, profiles, file, keychain, issued, safe, blind, lost>>

IdsOf(list) == {list[i].id : i \in DOMAIN list}

EndpointsOf(list) == {list[i].at : i \in DOMAIN list}

HasName(entry) == entry.at.host # Nameless

(* The entries that load() takes from the file: those with a host name. *)
Named(entries) ==
  LET named[i \in 0..Len(entries)] ==
        IF i = 0 THEN <<>>
        ELSE IF HasName(entries[i]) THEN Append(named[i - 1], entries[i])
        ELSE named[i - 1]
  IN  named[Len(entries)]

(* The hosts it makes of them; one without an id gets a new one, each time the
   file is read. *)
Loaded(entries) ==
  LET named == Named(entries)
  IN  [i \in DOMAIN named |->
         [id |-> IF named[i].id = NoId THEN issued + i ELSE named[i].id,
          at |-> named[i].at, password |-> FALSE]]

Init ==
  /\ phase = "off"
  /\ profiles = <<>>
  /\ file \in Files
  /\ keychain = {}
  /\ issued = Max({0} \cup IdsOf(file.entries))
  /\ safe = IdsOf(Named(file.entries)) \ {NoId}
  /\ blind = FALSE
  /\ lost = FALSE

-----------------------------------------------------------------------------
(***************************************************************************)
(* The program starts and ends.                                            *)
(***************************************************************************)
(* The window goes on with an empty list if load() fails. *)
Launch ==
  /\ phase = "off"
  /\ phase' = "ready"
  /\ \/ /\ file.state = "good"
        /\ profiles' = Loaded(file.entries)
        /\ issued' = Max({issued} \cup IdsOf(profiles'))
        /\ issued' <= MaxIds
        /\ UNCHANGED <<blind, lost>>
     \/ /\ profiles' = <<>>
        /\ blind' = (blind \/ file.state = "good")
        /\ lost' = (lost \/ file.state = "good")
        /\ UNCHANGED issued
  /\ UNCHANGED <<file, keychain, safe>>

(* Quitting saves nothing; a crash may fall between a change and its save. *)
Exit ==
  /\ phase # "off"
  /\ phase' = "off"
  /\ profiles' = <<>>
  /\ lost' = (lost \/ phase = "saving")
  /\ UNCHANGED <<file, keychain, issued, safe, blind>>

Entry(profile) == [id |-> profile.id, at |-> profile.at]

Written == [state |-> "good", entries |-> [i \in DOMAIN profiles |-> Entry(profiles[i])]]

(* variant: the file is truncated and written in place. *)
SaveInPlace ==
  /\ phase = "saving"
  /\ \E n \in 0..Len(profiles) :
       file' = [state |-> "good", entries |-> SubSeq(Written.entries, 1, n)]
  /\ phase' = "ready"
  /\ safe' = safe \cup IdsOf(profiles)
  /\ UNCHANGED <<profiles, keychain, issued, blind, lost>>

(* QSaveFile commits the whole list or leaves the file as it was; a failure is
   only logged. *)
Save ==
  /\ phase = "saving"
  /\ phase' = "ready"
  /\ \/ /\ file' = Written
        /\ safe' = safe \cup IdsOf(profiles)
        /\ UNCHANGED lost
     \/ /\ lost' = TRUE
        /\ UNCHANGED <<file, safe>>
  /\ UNCHANGED <<profiles, keychain, issued, blind>>

-----------------------------------------------------------------------------
(***************************************************************************)
(* The user's changes.                                                     *)
(***************************************************************************)
(* saveSecrets(): an empty password is not stored, and does not take away one
   that is there; the keychain may refuse, or there is none. *)
SaveSecrets(id, password) ==
  \/ password /\ keychain' = keychain \cup {id}
  \/ UNCHANGED keychain

Stored(id, endpoint) == [id |-> id, at |-> endpoint, password |-> FALSE]

Add ==
  /\ phase = "ready"
  /\ issued < MaxIds
  /\ \E endpoint \in Entered, password \in BOOLEAN :
       /\ SaveSecrets(issued + 1, password)
       /\ profiles' = Append(profiles, Stored(issued + 1, endpoint))
  /\ issued' = issued + 1
  /\ phase' = "saving"
  /\ UNCHANGED <<file, safe, blind, lost>>

(* variant: the list keeps the password. *)
EditUnstripped ==
  /\ phase = "ready"
  /\ \E i \in DOMAIN profiles, endpoint \in Entered, password \in BOOLEAN :
       /\ SaveSecrets(profiles[i].id, password)
       /\ profiles' = [profiles EXCEPT ![i] = [@ EXCEPT !.at = endpoint, !.password = password]]
  /\ phase' = "saving"
  /\ UNCHANGED <<file, issued, safe, blind, lost>>

(***************************************************************************)
(* The dialog begins with the stored password; an empty field and a box    *)
(* that is not ticked both come to update() as no password.                *)
(***************************************************************************)
Edit ==
  /\ phase = "ready"
  /\ \E i \in DOMAIN profiles, endpoint \in Entered, password \in BOOLEAN :
       /\ SaveSecrets(profiles[i].id, password)
       /\ profiles' = [profiles EXCEPT ![i] = Stored(@.id, endpoint)]
  /\ phase' = "saving"
  /\ UNCHANGED <<file, issued, safe, blind, lost>>

(* variant: the keychain is not told. *)
ForgetNothing(id) == UNCHANGED <<keychain, lost>>

(* SecretStore::removeAll(); nobody looks at its outcome. *)
ForgetSecrets(id) ==
  \/ keychain' = keychain \ {id} /\ UNCHANGED lost
  \/ id \in keychain /\ UNCHANGED keychain /\ lost' = TRUE

RemoveHost ==
  /\ phase = "ready"
  /\ \E i \in DOMAIN profiles :
       /\ profiles' = RemoveAt(profiles, i)
       /\ ForgetSecrets(profiles[i].id)
       /\ safe' = safe \ {profiles[i].id}
  /\ phase' = "saving"
  /\ UNCHANGED <<file, issued, blind>>

-----------------------------------------------------------------------------
(***************************************************************************)
(* Import from ~/.ssh/config: one pass over its lines.                     *)
(***************************************************************************)
Nowhere == [host |-> Nameless, user |-> Me]

(* The list so far, the profile being read, and whether one is. *)
Reading(list, current, inHostBlock) ==
  [list |-> list, current |-> current, inHostBlock |-> inHostBlock]

(* variant: hosts the list has already are added once more. *)
FlushAll(r) ==
  IF ~r.inHostBlock \/ r.current.host = Nameless THEN r
  ELSE Reading(Append(r.list, Stored(issued + Len(r.list) - Len(profiles) + 1, r.current)),
               Nowhere, r.inHostBlock)

(* flush(): the profile is complete; it is added if its endpoint is new. *)
Flush(r) ==
  IF ~r.inHostBlock \/ r.current.host = Nameless THEN r
  ELSE IF r.current \in EndpointsOf(r.list) THEN Reading(r.list, Nowhere, r.inHostBlock)
  ELSE Reading(Append(r.list, Stored(issued + Len(r.list) - Len(profiles) + 1, r.current)),
               Nowhere, r.inHostBlock)

ReadLine(r, line) ==
  CASE line.key = "host"    -> Reading(Flush(r).list, [host |-> line.value, user |-> Me], TRUE)
    [] line.key = "pattern" -> Reading(Flush(r).list, Flush(r).current, FALSE)
    [] line.key \in {"hostname", "user"} /\ r.inHostBlock ->
         [r EXCEPT !.current = IF line.key = "user" THEN [@ EXCEPT !.user = line.value]
                               ELSE [@ EXCEPT !.host = line.value]]
    [] OTHER -> r

(* What has been read after each line. *)
Imported(config) ==
  LET read[n \in 0..Len(config)] ==
        IF n = 0 THEN Reading(profiles, Nowhere, FALSE) ELSE ReadLine(read[n - 1], config[n])
  IN  Flush(read[Len(config)]).list

(* Nothing is saved if nothing was new. *)
Import(config) ==
  LET list == Imported(config)
  IN  /\ phase = "ready"
      /\ list # profiles
      /\ issued + Len(list) - Len(profiles) <= MaxIds
      /\ profiles' = list
      /\ issued' = issued + Len(list) - Len(profiles)
      /\ phase' = "saving"
      /\ UNCHANGED <<file, keychain, safe, blind, lost>>

Next ==
  \/ Launch
  \/ Exit
  \/ Save
  \/ Add
  \/ Edit
  \/ RemoveHost
  \/ \E config \in Configs : Import(config)

Spec == Init /\ [][Next]_vars

-----------------------------------------------------------------------------
(***************************************************************************)
(* Properties.                                                             *)
(***************************************************************************)

(* Types; no two hosts share an id, in memory or in the file, so that indexOf()
   finds the one that is meant (HostStore.cpp:120); and the list has no
   passwords (HostStore.hpp:41 "strips them from the stored copy"). *)
TypeOK ==
  /\ phase \in {"off", "ready", "saving"}
  /\ profiles \in Seq(ProfileSet)
  /\ \A i, j \in DOMAIN profiles : profiles[i].id = profiles[j].id => i = j
  /\ \A i \in DOMAIN profiles : ~profiles[i].password
  /\ file.state \in {"absent", "garbled", "good"}
  /\ file.entries \in Seq(EntrySet)
  /\ OwnIds(file.entries)
  /\ issued \in 0..MaxIds
  /\ \A id \in IdsOf(profiles) \cup IdsOf(file.entries) \cup keychain \cup safe : id <= issued
  /\ blind \in BOOLEAN /\ lost \in BOOLEAN

(***************************************************************************)
(* A host that has once been in the file stays in it until the user        *)
(* removes it, wherever the program ends: "a crash mid-write cannot leave  *)
(* the user without a host list" (HostStore.cpp:283).  The exception is a  *)
(* program that could not read the file and went on with an empty list.    *)
(***************************************************************************)
HostsSurvive == ~blind => safe \subseteq IdsOf(file.entries)

(***************************************************************************)
(* The keychain holds passwords of listed hosts only: they go with their   *)
(* host (HostSidebar.cpp:221 "removed from the keychain as well"), as long *)
(* as no save failed or was cut short and the keychain did as it was told. *)
(***************************************************************************)
SecretsHaveHosts ==
  ~lost => keychain \subseteq IF phase = "off" THEN IdsOf(file.entries) ELSE IdsOf(profiles)

(* The endpoint the block that begins in line i describes: the last HostName and
   the last User up to the next Host count. *)
Described(config, i) ==
  LET ends == {j \in (i + 1)..Len(config) : config[j].key \in {"host", "pattern"}}
      next == IF ends = {} THEN Len(config) + 1 ELSE Min(ends)
      Lines(key) == {j \in (i + 1)..(next - 1) : config[j].key = key}
      Final(key, default) == IF Lines(key) = {} THEN default ELSE config[Max(Lines(key))].value
  IN  [host |-> Final("hostname", config[i].value), user |-> Final("user", Me)]

(***************************************************************************)
(* Importing leaves the list in front as it is and adds each host of the   *)
(* configuration exactly once, unless it is known: "so a second import is  *)
(* a no-op" (HostStore.cpp:321).                                           *)
(***************************************************************************)
ImportAddsEachOnce ==
  [][ \A config \in Configs : Import(config) =>
        LET n      == Len(profiles)
            added  == SubSeq(profiles', n + 1, Len(profiles'))
            blocks == {i \in DOMAIN config : config[i].key = "host"}
        IN  /\ SubSeq(profiles', 1, n) = profiles
            /\ EndpointsOf(added) =
                 {Described(config, i) : i \in blocks} \ EndpointsOf(profiles)
            /\ \A i, j \in DOMAIN added : added[i].at = added[j].at => i = j
    ]_vars

=============================================================================
