----------------------------- MODULE Connection -----------------------------
(***************************************************************************)
(* ssh::SshConnection::open(): socket, handshake, the check of the host    *)
(* key against known_hosts, and the methods of authentication.  Every      *)
(* session opens two connections, on threads of their own, and other tabs  *)
(* open theirs meanwhile: what they share is the file and the answers that *)
(* SessionInteraction remembers.  That only one question is asked at a     *)
(* time is the business of SessionThreads; here a question is one step.    *)
(*                                                                         *)
(* A connection object is opened once.  The network, the server, the agent *)
(* and libssh2 appear as outcomes of the calls.                            *)
(***************************************************************************)
EXTENDS Integers

CONSTANTS
  Connections,   \* the SshConnection objects
  Hosts, Ports,  \* names of hosts, and their ports
  Keys,          \* the keys servers present
  Servers,       \* what check() is told of a server: name, port and key
  Files,         \* what known_hosts may hold in the beginning
  Profiles,      \* what the profile of a connection may say
  Offers         \* what userauth_list may return; the empty set: nothing

Methods == {"agent", "publickey", "password", "keyboard"}

Secrets == {"none", "right", "wrong"}

(* The fields of HostProfile that open() depends on. *)
ProfileSet ==
  [preferred : Methods, useAgent : BOOLEAN, privateKey : BOOLEAN, strict : BOOLEAN,
   password : Secrets, passphrase : Secrets]

HostKeyInfo == [hostname : Hosts, port : Ports, key : Keys]

(* A line is for "[host]:port" or, as libssh2 says it, for port -1: "host". *)
Plain == -1

Lines == [hostname : Hosts, port : Ports \cup {Plain}, key : Keys]

(* HostProfile::port is a quint16; that it is not negative is enough. *)
ASSUME PortAssumption == Ports \subseteq Nat

ASSUME ConnectionAssumption ==
  /\ Profiles \subseteq ProfileSet
  /\ Offers \subseteq SUBSET Methods
  /\ Servers \subseteq HostKeyInfo
  /\ Files \subseteq SUBSET Lines

(* A prompt names the user and the host without the port, or the key file; one of
   each per name. *)
Prompts == {"password", "passphrase"} \X Hosts

VARIABLES
  profile,      \* SshConnection::m_profile
  peer,         \* name and port of the profile, and the key its server presents
  at,           \* how far open() has come
  socket,       \* m_socket >= 0
  session,      \* m_session != nullptr
  verdict,      \* HostKeyInfo::verdict
  image,        \* known_hosts as store() has read it, while it runs
  offered,      \* methods the server advertises
  left,         \* methods still to be tried
  used,         \* m_usedAuth
  error,        \* the kind of the error open() returned
  known,        \* the lines of ~/.ssh/known_hosts
  readable,     \* libssh2 can parse that file
  decisions,    \* SessionInteraction::m_hostKeyDecisions
  credentials,  \* m_credentialAnswers and m_declinedCredentials
  first,        \* history: known_hosts in the beginning
  tried         \* history: methods the server has refused

socketVars == <<socket, session>>
keyVars == <<verdict, image, known, decisions>>
authVars == <<offered, left, used, credentials, tried>>
fixedVars == <<profile, peer, readable, first>>

vars == <<at, socketVars, keyVars, authVars, error, fixedVars>>

Phases == {"idle", "connected", "shaken", "asking", "storing", "writing", "trusted",
           "authenticating", "open", "closed"}

Verdicts == {"none", "match", "unknown", "mismatch", "unusable"}

ErrorKinds == {"none", "network", "handshake", "hostKey", "authentication", "cancelled"}

Init ==
  /\ profile \in [Connections -> Profiles]
  /\ peer \in [Connections -> Servers]
  /\ at = [c \in Connections |-> "idle"]
  /\ socket = [c \in Connections |-> FALSE]
  /\ session = [c \in Connections |-> FALSE]
  /\ verdict = [c \in Connections |-> "none"]
  /\ image = [c \in Connections |-> {}]
  /\ offered = [c \in Connections |-> {}]
  /\ left = [c \in Connections |-> {}]
  /\ used = [c \in Connections |-> "agent"]
  /\ error = [c \in Connections |-> "none"]
  /\ known \in Files
  /\ readable \in BOOLEAN
  /\ decisions = [s \in Servers |-> "none"]
  /\ credentials = [q \in Prompts |-> "none"]
  /\ first = known
  /\ tried = [c \in Connections |-> {}]

Reach(c, phase) == at' = [at EXCEPT ![c] = phase]

(* variant: open() returns and leaves the connection as it is. *)
FailUnclosed(c, kind) ==
  /\ Reach(c, "closed")
  /\ error' = [error EXCEPT ![c] = kind]
  /\ UNCHANGED socketVars

(* open() closes what it has opened and returns the error. *)
Fail(c, kind) ==
  /\ Reach(c, "closed")
  /\ error' = [error EXCEPT ![c] = kind]
  /\ socket' = [socket EXCEPT ![c] = FALSE]
  /\ session' = [session EXCEPT ![c] = FALSE]

-----------------------------------------------------------------------------
(***************************************************************************)
(* Socket and handshake.                                                   *)
(***************************************************************************)
(* One of the addresses of the host takes the connection, or none does. *)
OpenSocket(c) ==
  /\ at[c] = "idle"
  /\ \/ /\ Reach(c, "connected")
        /\ socket' = [socket EXCEPT ![c] = TRUE]
        /\ UNCHANGED <<session, error>>
     \/ /\ Reach(c, "closed")
        /\ error' = [error EXCEPT ![c] = "network"]
        /\ UNCHANGED socketVars
  /\ UNCHANGED <<keyVars, authVars, fixedVars>>

Handshake(c) ==
  /\ at[c] = "connected"
  /\ \/ /\ Reach(c, "shaken")
        /\ session' = [session EXCEPT ![c] = TRUE]
        /\ UNCHANGED <<socket, error>>
     \/ Fail(c, "handshake")
  /\ UNCHANGED <<keyVars, authVars, fixedVars>>

-----------------------------------------------------------------------------
(***************************************************************************)
(* The host key.                                                           *)
(***************************************************************************)
(* libssh2 looks for "[host]:port", of port 22 as well, and then for "host". *)
Found(file, info) ==
  {line \in file : line.hostname = info.hostname /\ line.port \in {info.port, Plain}}

HasKey(lines, info) == \E line \in lines : line.key = info.key

(***************************************************************************)
(* What check() finds: the file is read afresh.  Memory for it may be      *)
(* missing, which counts as an unusable file.                              *)
(***************************************************************************)
Finding(c) ==
  LET found == Found(known, peer[c])
  IN  IF HasKey(found, peer[c]) THEN "match"
      ELSE IF found # {} THEN "mismatch" ELSE "unknown"

CheckHostKey(c) ==
  /\ at[c] = "shaken"
  /\ \/ \E v \in {"unusable"} \cup (IF readable THEN {Finding(c)} ELSE {}) :
          /\ verdict' = [verdict EXCEPT ![c] = v]
          /\ \/ /\ v = "match" \/ (v = "unusable" /\ ~profile[c].strict)
                /\ Reach(c, "trusted")
                /\ UNCHANGED <<socketVars, error>>
             \/ /\ v = "unusable" /\ profile[c].strict
                /\ Fail(c, "hostKey")
             \/ /\ v \in {"unknown", "mismatch"}
                /\ Reach(c, "asking")
                /\ UNCHANGED <<socketVars, error>>
     \/ Fail(c, "hostKey") /\ UNCHANGED verdict
  /\ UNCHANGED <<image, known, decisions, authVars, fixedVars>>

(* variant: an answer about one key of a host holds for its other keys. *)
DecisionKeyOfHost(c) ==
  CHOOSE s \in Servers : s.hostname = peer[c].hostname /\ s.port = peer[c].port

(* The answer is remembered for the endpoint and the fingerprint. *)
DecisionKey(c) == peer[c]

(* The user decides, unless a decision about this key is remembered. *)
Confirm(c) ==
  /\ at[c] = "asking"
  /\ \E answer \in {"accepted", "rejected"} :
       /\ decisions[DecisionKey(c)] \in {"none", answer}
       /\ decisions' = [decisions EXCEPT ![DecisionKey(c)] = answer]
       /\ \/ /\ answer = "accepted"
             /\ Reach(c, "storing")
             /\ UNCHANGED <<socketVars, error>>
          \/ /\ answer = "rejected"
             /\ Fail(c, "hostKey")
  /\ UNCHANGED <<verdict, image, known, authVars, fixedVars>>

(***************************************************************************)
(* store() reads the whole file, does not ask whether that worked, in      *)
(* which case it has any part of the lines, and writes it again with the   *)
(* new line.  A failure is only logged.                                    *)
(***************************************************************************)
ReadKnownHosts(c) ==
  /\ at[c] = "storing"
  /\ \/ /\ \E file \in SUBSET known : image' = [image EXCEPT ![c] = file]
        /\ Reach(c, "writing")
     \/ /\ Reach(c, "trusted")
        /\ UNCHANGED image
  /\ UNCHANGED <<socketVars, error, verdict, known, decisions, authVars, fixedVars>>

(* knownHostsHost() *)
StoredAs(info) == [info EXCEPT !.port = IF @ = 22 THEN Plain ELSE @]

(* variant: every line that has another key is stale. *)
StaleByKey(c) ==
  IF verdict[c] = "mismatch" THEN {line \in image[c] : line.key # peer[c].key} ELSE {}

(* On a rotation stale lines go first, until the key matches or nothing is found:
   the plain one of the name, too, which is that of port 22. *)
Stale(c) ==
  LET found == Found(image[c], peer[c])
  IN  IF verdict[c] = "mismatch" /\ ~HasKey(found, peer[c]) THEN found ELSE {}

Rewritten(c) == (image[c] \ Stale(c)) \cup {StoredAs(peer[c])}

(* libssh2 writes the lines or does not get to it; a file that breaks off, as on
   a full disk, is left out. *)
WriteKnownHosts(c) ==
  /\ at[c] = "writing"
  /\ known' \in {known, Rewritten(c)}
  /\ image' = [image EXCEPT ![c] = {}]
  /\ Reach(c, "trusted")
  /\ UNCHANGED <<socketVars, error, verdict, decisions, authVars, fixedVars>>

-----------------------------------------------------------------------------
(***************************************************************************)
(* Authentication.                                                         *)
(***************************************************************************)
(* The methods this profile has something for. *)
Satisfies(p, method) ==
  CASE method = "agent"     -> p.useAgent
    [] method = "publickey" -> p.privateKey
    [] OTHER                -> p.password # "none"

(***************************************************************************)
(* The methods to try: the preferred one, unless it needs an agent or a    *)
(* key file the profile has not, and the others the profile satisfies.     *)
(***************************************************************************)
AuthMethods(p) ==
  LET preferred == {m \in {p.preferred} : m \in {"agent", "publickey"} => Satisfies(p, m)}
      methods   == preferred \cup {m \in Methods : Satisfies(p, m)}
  IN  IF methods = {} THEN {"password"} ELSE methods

Rank == [agent |-> 1, publickey |-> 2, password |-> 3, keyboard |-> 4]

(* authOrder() has the preferred method in front. *)
Before(p, m, n) == m = p.preferred \/ (n # p.preferred /\ Rank[m] < Rank[n])

(* A server that advertises nothing is tried with everything. *)
IsOffered(offer, method) ==
  offer = {} \/ (IF method = "agent" THEN "publickey" ELSE method) \in offer

(* A server may take the user without any method. *)
ListMethods(c) ==
  /\ at[c] = "trusted"
  /\ \/ /\ Reach(c, "open")
        /\ used' = [used EXCEPT ![c] = "password"]
        /\ UNCHANGED <<offered, left>>
     \/ /\ Reach(c, "authenticating")
        /\ \E offer \in Offers :
             /\ offered' = [offered EXCEPT ![c] = offer]
             /\ left' = [left EXCEPT ![c] = {m \in AuthMethods(profile[c]) : IsOffered(offer, m)}]
        /\ UNCHANGED used
  /\ UNCHANGED <<socketVars, error, keyVars, credentials, tried, fixedVars>>

(* The method whose turn it is. *)
Turn(c, m) ==
  /\ at[c] = "authenticating"
  /\ m \in left[c]
  /\ \A n \in left[c] \ {m} : Before(profile[c], m, n)

Succeeds(c, m) ==
  /\ Reach(c, "open")
  /\ used' = [used EXCEPT ![c] = m]
  /\ UNCHANGED <<left, tried, socketVars, error>>

(* variant: the first refusal is final. *)
RefusedForGood(c, m) ==
  /\ tried' = [tried EXCEPT ![c] = @ \cup {m}]
  /\ left' = [left EXCEPT ![c] = {}]
  /\ UNCHANGED <<at, used, socketVars, error>>

(* The next method has its turn. *)
Refused(c, m) ==
  /\ tried' = [tried EXCEPT ![c] = @ \cup {m}]
  /\ left' = [left EXCEPT ![c] = @ \ {m}]
  /\ UNCHANGED <<at, used, socketVars, error>>

(* A question the user declines ends open(), whatever is left. *)
Cancelled(c) ==
  /\ Fail(c, "cancelled")
  /\ UNCHANGED <<left, used, tried>>

(***************************************************************************)
(* The secret comes from the profile, from memory or from the user, who is *)
(* asked once.  m_cachedPassword and m_cachedPassphrase repeat what these  *)
(* say and have no variable.                                               *)
(***************************************************************************)
WithSecret(c, m, kind) ==
  LET stored == IF kind = "password" THEN profile[c].password ELSE profile[c].passphrase
      prompt == <<kind, peer[c].hostname>>
  IN  \E secret \in {"right", "wrong", "declined"} :
        /\ IF stored # "none"
             THEN secret = stored /\ UNCHANGED credentials
             ELSE /\ credentials[prompt] \in {"none", secret}
                  /\ credentials' = [credentials EXCEPT ![prompt] = secret]
        /\ \/ secret = "declined" /\ Cancelled(c)
           \/ secret = "right" /\ Succeeds(c, m)
           \/ secret # "declined" /\ Refused(c, m)

AuthAgent(c) ==
  /\ Turn(c, "agent")
  /\ Succeeds(c, "agent") \/ Refused(c, "agent")
  /\ UNCHANGED <<keyVars, offered, credentials, fixedVars>>

(* A key file that is there is tried without a passphrase first. *)
AuthPublicKey(c) ==
  /\ Turn(c, "publickey")
  /\ \/ /\ Succeeds(c, "publickey") \/ Refused(c, "publickey")
        /\ UNCHANGED credentials
     \/ WithSecret(c, "publickey", "passphrase")
  /\ UNCHANGED <<keyVars, offered, fixedVars>>

(* The password also answers the first question of keyboard-interactive. *)
AuthPassword(c) ==
  /\ \E m \in {"password", "keyboard"} : Turn(c, m) /\ WithSecret(c, m, "password")
  /\ UNCHANGED <<keyVars, offered, fixedVars>>

GiveUp(c) ==
  /\ at[c] = "authenticating"
  /\ left[c] = {}
  /\ Fail(c, "authentication")
  /\ UNCHANGED <<keyVars, authVars, fixedVars>>

(* close() of a connection that is open. *)
Close(c) ==
  /\ at[c] = "open"
  /\ Reach(c, "closed")
  /\ socket' = [socket EXCEPT ![c] = FALSE]
  /\ session' = [session EXCEPT ![c] = FALSE]
  /\ UNCHANGED <<error, keyVars, authVars, fixedVars>>

Step(c) ==
  \/ OpenSocket(c)
  \/ Handshake(c)
  \/ CheckHostKey(c)
  \/ Confirm(c)
  \/ ReadKnownHosts(c)
  \/ WriteKnownHosts(c)
  \/ ListMethods(c)
  \/ AuthAgent(c)
  \/ AuthPublicKey(c)
  \/ AuthPassword(c)
  \/ GiveUp(c)
  \/ Close(c)

Next == \E c \in Connections : Step(c)

Spec == Init /\ [][Next]_vars

-----------------------------------------------------------------------------
(***************************************************************************)
(* Properties.                                                             *)
(***************************************************************************)

(* Types, and what is held: a connection that has ended, in whatever way, has
   neither a socket nor a libssh2 session left (SshConnection.cpp:83-94). *)
TypeOK ==
  /\ at \in [Connections -> Phases]
  /\ socket = [c \in Connections |-> at[c] \notin {"idle", "closed"}]
  /\ session = [c \in Connections |-> at[c] \notin {"idle", "connected", "closed"}]
  /\ verdict \in [Connections -> Verdicts]
  /\ image \in [Connections -> SUBSET Lines]
  /\ offered \in [Connections -> Offers \cup {{}}]
  /\ left \in [Connections -> SUBSET Methods]
  /\ used \in [Connections -> Methods]
  /\ error \in [Connections -> ErrorKinds]
  /\ known \subseteq Lines
  /\ decisions \in [Servers -> {"none", "accepted", "rejected"}]
  /\ credentials \in [Prompts -> Secrets \cup {"declined"}]
  /\ tried \in [Connections -> SUBSET Methods]

Accepted == {s \in Servers : decisions[s] = "accepted"}

(* The lines of the beginning, and the answers of the user, that speak for a server:
   what is agreed to for port 22 is written as the plain name, which every port of
   the host is looked up under. *)
Vouchers(info) ==
  Found(first, info) \cup
    {s \in Accepted : s.hostname = info.hostname /\ s.port \in {info.port, 22}}

(***************************************************************************)
(* A connection goes on to authenticate, and offers its secrets, only to a *)
(* server whose key known_hosts had from the beginning for this name and   *)
(* port or for the plain name, or which the user accepted, in whichever    *)
(* connection, for this name and port or for port 22 of the name; or       *)
(* without a usable file if the profile waives the check.  When the user   *)
(* is asked, the answer counts for this name, port and key alone: if the   *)
(* key changes "the user must be asked again rather than inheriting the    *)
(* earlier "trust" answer" (SessionInteraction.cpp:15).                    *)
(***************************************************************************)
OnlyTrustedKeys ==
  \A c \in Connections :
    at[c] \in {"storing", "writing", "trusted", "authenticating", "open"} =>
      CASE verdict[c] = "match"                   -> HasKey(Vouchers(peer[c]), peer[c])
        [] verdict[c] \in {"unknown", "mismatch"} -> peer[c] \in Accepted
        [] verdict[c] = "unusable"                -> ~profile[c].strict
        [] OTHER                                  -> FALSE

(***************************************************************************)
(* Storing a key adds the line of its server and no other, and takes only  *)
(* lines with another key that the server is looked up under, its own and  *)
(* the plain one of its name: lines of other names, and of other ports of  *)
(* this one, stay.  "Append (or replace) the entry for this host and       *)
(* rewrite the file" (KnownHosts.hpp:26).  It is so as long as the file is *)
(* read whole and nobody writes it between the reading and the writing;    *)
(* another connection may.                                                 *)
(***************************************************************************)
RewriteIsLocal ==
  [][ \A c \in Connections :
        at[c] = "writing" /\ at'[c] # "writing" /\ image[c] = known =>
          /\ known' \ known \subseteq {StoredAs(peer[c])}
          /\ known \ known' \subseteq {line \in Found(known, peer[c]) : line.key # peer[c].key}
    ]_vars

(***************************************************************************)
(* A failed authentication has tried every method the profile has          *)
(* something for and the server offers (SshTypes.cpp:47 "Fall back through *)
(* the remaining methods that this profile can satisfy").                  *)
(***************************************************************************)
FailedHasTriedAll ==
  \A c \in Connections : error[c] = "authentication" =>
    \A m \in Methods :
      Satisfies(profile[c], m) /\ IsOffered(offered[c], m) => m \in tried[c]

=============================================================================
