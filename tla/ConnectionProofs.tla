-------------------------- MODULE ConnectionProofs --------------------------
(***************************************************************************)
(* Proofs about Connection for any connections, hosts, keys, profiles and  *)
(* offers.                                                                 *)
(***************************************************************************)
EXTENDS Connection, TLAPS

(* What does not change has its type, too. *)
FixedOK ==
  /\ profile \in [Connections -> ProfileSet]
  /\ peer \in [Connections -> Servers]

TypeInv == TypeOK /\ FixedOK

(* open() fails where it stands. *)
LEMMA FailType ==
  ASSUME TypeInv, NEW c \in Connections, NEW kind \in ErrorKinds, Fail(c, kind)
  PROVE  /\ at' \in [Connections -> Phases]
         /\ socket' = [d \in Connections |-> at'[d] \notin {"idle", "closed"}]
         /\ session' = [d \in Connections |-> at'[d] \notin {"idle", "connected", "closed"}]
         /\ error' \in [Connections -> ErrorKinds]
  BY DEF TypeInv, TypeOK, Fail, Reach, Phases

(* The three ways a method ends. *)
LEMMA MethodType ==
  ASSUME TypeInv, NEW c \in Connections, NEW m \in Methods, at[c] = "authenticating",
         Succeeds(c, m) \/ Refused(c, m) \/ Cancelled(c)
  PROVE  /\ at' \in [Connections -> Phases]
         /\ socket' = [d \in Connections |-> at'[d] \notin {"idle", "closed"}]
         /\ session' = [d \in Connections |-> at'[d] \notin {"idle", "connected", "closed"}]
         /\ error' \in [Connections -> ErrorKinds]
         /\ left' \in [Connections -> SUBSET Methods]
         /\ tried' \in [Connections -> SUBSET Methods]
         /\ used' \in [Connections -> Methods]
  <1>1. CASE Succeeds(c, m)
    BY <1>1 DEF TypeInv, TypeOK, Succeeds, Reach, Phases, socketVars
  <1>2. CASE Refused(c, m)
    BY <1>2 DEF TypeInv, TypeOK, Refused, socketVars
  <1>3. CASE Cancelled(c)
    <2>1. "cancelled" \in ErrorKinds
      BY DEF ErrorKinds
    <2>2. Fail(c, "cancelled")
      BY <1>3 DEF Cancelled
    <2>3. UNCHANGED <<left, used, tried>>
      BY <1>3 DEF Cancelled
    <2>4. QED
      BY <2>1, <2>2, <2>3, FailType DEF TypeInv, TypeOK
  <1>4. QED
    BY <1>1, <1>2, <1>3

LEMMA SecretType ==
  ASSUME TypeInv, NEW c \in Connections, NEW m \in Methods, at[c] = "authenticating",
         NEW kind \in {"password", "passphrase"}, WithSecret(c, m, kind)
  PROVE  /\ Succeeds(c, m) \/ Refused(c, m) \/ Cancelled(c)
         /\ credentials' \in [Prompts -> Secrets \cup {"declined"}]
  <1>1. peer[c].hostname \in Hosts
    BY ConnectionAssumption DEF TypeInv, FixedOK, HostKeyInfo
  <1>2. QED
    BY <1>1 DEF WithSecret, TypeInv, TypeOK, FixedOK, Prompts, Secrets

LEMMA InitType == Init => TypeInv
  <1> SUFFICES ASSUME Init
               PROVE  TypeInv
    OBVIOUS
  <1>0. Profiles \subseteq ProfileSet /\ Files \subseteq SUBSET Lines
    BY Zenon, ConnectionAssumption
  <1>1. FixedOK
    BY <1>0 DEF Init, FixedOK
  <1>2. /\ at \in [Connections -> Phases]
        /\ socket = [c \in Connections |-> at[c] \notin {"idle", "closed"}]
        /\ session = [c \in Connections |-> at[c] \notin {"idle", "connected", "closed"}]
    BY DEF Init, Phases
  <1>3. /\ verdict \in [Connections -> Verdicts]
        /\ image \in [Connections -> SUBSET Lines]
        /\ known \subseteq Lines
        /\ decisions \in [Servers -> {"none", "accepted", "rejected"}]
    BY <1>0 DEF Init, Verdicts
  <1>4. /\ offered \in [Connections -> Offers \cup {{}}]
        /\ left \in [Connections -> SUBSET Methods]
        /\ used \in [Connections -> Methods]
        /\ error \in [Connections -> ErrorKinds]
        /\ credentials \in [Prompts -> Secrets \cup {"declined"}]
        /\ tried \in [Connections -> SUBSET Methods]
    BY DEF Init, Methods, ErrorKinds, Secrets
  <1>5. QED
    BY <1>1, <1>2, <1>3, <1>4 DEF TypeInv, TypeOK

LEMMA FixedStep == TypeInv /\ UNCHANGED fixedVars => FixedOK'
  BY DEF TypeInv, FixedOK, fixedVars

(* The line of a server: it has its name and key, and is plain for port 22 only. *)
LEMMA StoredIs ==
  ASSUME NEW s \in Servers
  PROVE  /\ StoredAs(s) \in Lines
         /\ StoredAs(s).hostname = s.hostname /\ StoredAs(s).key = s.key
         /\ StoredAs(s).port = IF s.port = 22 THEN Plain ELSE s.port
         /\ s.port \in Ports /\ Plain \notin Ports
  <1>1. s \in HostKeyInfo
    BY Zenon, ConnectionAssumption
  <1>2. Plain \notin Ports
    BY PortAssumption DEF Plain
  <1> HIDE DEF Plain
  <1>3. s.hostname \in Hosts /\ s.port \in Ports /\ s.key \in Keys
        /\ s = [hostname |-> s.hostname, port |-> s.port, key |-> s.key]
    BY <1>1 DEF HostKeyInfo
  <1>4. StoredAs(s) = [hostname |-> s.hostname, port |-> IF s.port = 22 THEN Plain ELSE s.port,
                       key |-> s.key]
    BY <1>3 DEF StoredAs
  <1>5. QED
    BY <1>2, <1>3, <1>4 DEF Lines

LEMMA NextType == TypeInv /\ [Next]_vars => TypeInv'
  <1> SUFFICES ASSUME TypeInv, [Next]_vars
               PROVE  TypeInv'
    OBVIOUS
  <1> USE DEF TypeInv
  <1>1. ASSUME NEW c \in Connections, OpenSocket(c)
        PROVE  TypeInv'
    BY <1>1, FixedStep, ZenonT(40) DEF OpenSocket, TypeOK, Reach, Phases, ErrorKinds, keyVars, authVars,
                           socketVars
  <1>2. ASSUME NEW c \in Connections, Handshake(c)
        PROVE  TypeInv'
    <2>1. "handshake" \in ErrorKinds
      BY DEF ErrorKinds
    <2>2. CASE Fail(c, "handshake")
      BY <1>2, <2>1, <2>2, FailType, FixedStep DEF Handshake, TypeOK, keyVars, authVars
    <2>3. CASE ~Fail(c, "handshake")
      BY <1>2, <2>3, FixedStep DEF Handshake, TypeOK, Reach, Phases, keyVars, authVars
    <2>4. QED
      BY <2>2, <2>3
  <1>3. ASSUME NEW c \in Connections, CheckHostKey(c)
        PROVE  TypeInv'
    <2>1. verdict' \in [Connections -> Verdicts]
      BY <1>3 DEF CheckHostKey, Finding, TypeOK, Verdicts
    <2>2. UNCHANGED <<image, known, decisions, authVars, fixedVars>>
      BY <1>3 DEF CheckHostKey
    <2>3. CASE Fail(c, "hostKey")
      <3>1. "hostKey" \in ErrorKinds
        BY DEF ErrorKinds
      <3>2. QED
        BY <2>1, <2>2, <2>3, <3>1, FailType, FixedStep DEF TypeOK, authVars
    <2>4. CASE ~Fail(c, "hostKey")
      <3>1. /\ at[c] = "shaken"
            /\ Reach(c, "trusted") \/ Reach(c, "asking")
            /\ UNCHANGED <<socketVars, error>>
        BY <1>3, <2>4 DEF CheckHostKey
      <3>2. QED
        BY <2>1, <2>2, <3>1, FixedStep DEF Reach, TypeOK, Phases, authVars, socketVars
    <2>5. QED
      BY <2>3, <2>4
  <1>4. ASSUME NEW c \in Connections, Confirm(c)
        PROVE  TypeInv'
    <2>1. decisions' \in [Servers -> {"none", "accepted", "rejected"}]
      BY <1>4 DEF Confirm, DecisionKey, TypeOK, FixedOK
    <2>2. UNCHANGED <<verdict, image, known, authVars, fixedVars>>
      BY <1>4 DEF Confirm
    <2>3. CASE Fail(c, "hostKey")
      <3>1. "hostKey" \in ErrorKinds
        BY DEF ErrorKinds
      <3>2. QED
        BY <2>1, <2>2, <2>3, <3>1, FailType, FixedStep DEF TypeOK, authVars
    <2>4. CASE ~Fail(c, "hostKey")
      <3>1. at[c] = "asking" /\ Reach(c, "storing") /\ UNCHANGED <<socketVars, error>>
        BY <1>4, <2>4 DEF Confirm
      <3>2. QED
        BY <2>1, <2>2, <3>1, FixedStep DEF Reach, TypeOK, Phases, authVars, socketVars
    <2>5. QED
      BY <2>3, <2>4
  <1>5. ASSUME NEW c \in Connections, ReadKnownHosts(c)
        PROVE  TypeInv'
    BY <1>5, FixedStep DEF ReadKnownHosts, TypeOK, Reach, Phases, authVars, socketVars
  <1>6. ASSUME NEW c \in Connections, WriteKnownHosts(c)
        PROVE  TypeInv'
    <2>1. Rewritten(c) \subseteq Lines
      BY StoredIs DEF Rewritten, TypeOK, FixedOK
    <2>2. QED
      BY <1>6, <2>1, FixedStep DEF WriteKnownHosts, TypeOK, Reach, Phases, authVars, socketVars
  <1>7. ASSUME NEW c \in Connections, ListMethods(c)
        PROVE  TypeInv'
    <2>1. /\ offered' \in [Connections -> Offers \cup {{}}]
          /\ used' \in [Connections -> Methods]
      BY <1>7 DEF ListMethods, TypeOK, Methods
    <2>2. AuthMethods(profile[c]) \subseteq Methods
      BY DEF AuthMethods, FixedOK, ProfileSet, Methods
    <2>3. left' \in [Connections -> SUBSET Methods]
      BY <1>7, <2>2 DEF ListMethods, TypeOK
    <2>4. at[c] = "trusted" /\ (Reach(c, "open") \/ Reach(c, "authenticating"))
      BY <1>7 DEF ListMethods
    <2>5. UNCHANGED <<socketVars, error, keyVars, credentials, tried, fixedVars>>
      BY <1>7 DEF ListMethods
    <2>6. QED
      BY <2>1, <2>3, <2>4, <2>5, FixedStep DEF TypeOK, Reach, Phases, keyVars, socketVars
  <1>8. ASSUME NEW c \in Connections, AuthAgent(c)
        PROVE  TypeInv'
    <2>1. /\ at[c] = "authenticating"
          /\ Succeeds(c, "agent") \/ Refused(c, "agent")
          /\ UNCHANGED <<keyVars, offered, credentials, fixedVars>>
      BY <1>8 DEF AuthAgent, Turn
    <2>2. "agent" \in Methods
      BY DEF Methods
    <2>3. QED
      BY <2>1, <2>2, MethodType, FixedStep DEF TypeOK, keyVars
  <1>9. ASSUME NEW c \in Connections, AuthPublicKey(c)
        PROVE  TypeInv'
    <2>1. "publickey" \in Methods
      BY DEF Methods
    <2>2. at[c] = "authenticating" /\ UNCHANGED <<keyVars, offered, fixedVars>>
      BY <1>9 DEF AuthPublicKey, Turn
    <2>3. /\ Succeeds(c, "publickey") \/ Refused(c, "publickey") \/ Cancelled(c)
          /\ credentials' \in [Prompts -> Secrets \cup {"declined"}]
      BY <1>9, <2>1, <2>2, SecretType DEF AuthPublicKey, TypeOK
    <2>4. QED
      BY <2>1, <2>2, <2>3, MethodType, FixedStep DEF TypeOK, keyVars
  <1>10. ASSUME NEW c \in Connections, AuthPassword(c)
         PROVE  TypeInv'
    <2>1. PICK m \in {"password", "keyboard"} : Turn(c, m) /\ WithSecret(c, m, "password")
      BY <1>10 DEF AuthPassword
    <2>2. m \in Methods
      BY DEF Methods
    <2>3. at[c] = "authenticating" /\ UNCHANGED <<keyVars, offered, fixedVars>>
      BY <1>10, <2>1 DEF AuthPassword, Turn
    <2>4. /\ Succeeds(c, m) \/ Refused(c, m) \/ Cancelled(c)
          /\ credentials' \in [Prompts -> Secrets \cup {"declined"}]
      BY <2>1, <2>2, <2>3, SecretType
    <2>5. QED
      BY <2>2, <2>3, <2>4, MethodType, FixedStep DEF TypeOK, keyVars
  <1>11. ASSUME NEW c \in Connections, GiveUp(c)
         PROVE  TypeInv'
    <2>1. "authentication" \in ErrorKinds
      BY DEF ErrorKinds
    <2>2. QED
      BY <1>11, <2>1, FailType, FixedStep DEF GiveUp, TypeOK, keyVars, authVars
  <1>12. ASSUME NEW c \in Connections, Close(c)
         PROVE  TypeInv'
    BY <1>12, FixedStep DEF Close, TypeOK, Reach, Phases, keyVars, authVars
  <1>13. CASE UNCHANGED vars
    BY <1>13 DEF vars, TypeOK, FixedOK, keyVars, authVars, fixedVars, socketVars
  <1>14. QED
    BY <1>1, <1>2, <1>3, <1>4, <1>5, <1>6, <1>7, <1>8, <1>9, <1>10, <1>11, <1>12, <1>13
    DEF Next, Step

(* Every connection holds a socket and a libssh2 session just in the phases
   where open() has got them, so none outlives a failure (SshConnection.cpp:83-94). *)
THEOREM TypeCorrect == Spec => []TypeOK
  <1>1. TypeInv => TypeOK
    BY DEF TypeInv
  <1>2. QED
    BY InitType, NextType, <1>1, PTL DEF Spec

-----------------------------------------------------------------------------
(***************************************************************************)
(* Trust.  A match is believed because the file says so, and the file, and *)
(* what store() has read of it, has nothing in it but what was there in    *)
(* the beginning and the lines of what the user has accepted.              *)
(***************************************************************************)
Agreed == {StoredAs(s) : s \in Accepted}

FileIsTrusted ==
  /\ known \subseteq first \cup Agreed
  /\ \A c \in Connections : image[c] \subseteq first \cup Agreed

(* What is found for a server was found in the beginning, or is the line of
   something accepted: for its own port, or a plain one, and then for port 22. *)
LEMMA FoundIsVouched ==
  ASSUME FileIsTrusted, NEW s \in Servers, HasKey(Found(known, s), s)
  PROVE  HasKey(Vouchers(s), s)
  <1>1. PICK line \in known : /\ line.hostname = s.hostname
                              /\ line.port \in {s.port, Plain} /\ line.key = s.key
    BY DEF HasKey, Found
  <1>2. CASE line \in first
    BY <1>1, <1>2 DEF HasKey, Vouchers, Found
  <1>3. CASE line \notin first
    <2>1. PICK a \in Accepted : line = StoredAs(a)
      BY <1>3 DEF FileIsTrusted, Agreed
    <2>2. a \in Servers
      BY DEF Accepted
    <2>3. a.hostname = s.hostname /\ a.key = s.key
      BY <1>1, <2>1, <2>2, StoredIs
    <2>4. a.port \in {s.port, 22}
      BY <1>1, <2>1, <2>2, StoredIs
    <2>5. QED
      BY <2>3, <2>4 DEF HasKey, Vouchers
  <1>4. QED
    BY <1>2, <1>3

(* Answers are never taken back. *)
LEMMA VouchersStay ==
  ASSUME first' = first, Accepted \subseteq Accepted', NEW s, HasKey(Vouchers(s), s)
  PROVE  HasKey(Vouchers(s)', s)
  BY DEF HasKey, Vouchers, Found

(* Only a key the file does not have is asked about and stored. *)
AskedIsNew ==
  \A c \in Connections :
    at[c] \in {"asking", "storing", "writing"} => verdict[c] \in {"unknown", "mismatch"}

TrustInv == TypeInv /\ FileIsTrusted /\ AskedIsNew /\ OnlyTrustedKeys

Trusting == {"storing", "writing", "trusted", "authenticating", "open"}

(* What OnlyTrustedKeys says of one connection. *)
TrustedKey(c) ==
  CASE verdict[c] = "match"                   -> HasKey(Vouchers(peer[c]), peer[c])
    [] verdict[c] \in {"unknown", "mismatch"} -> peer[c] \in Accepted
    [] verdict[c] = "unusable"                -> ~profile[c].strict
    [] OTHER                                  -> FALSE

LEMMA InitTrust == Init => TrustInv
  BY InitType DEF Init, TrustInv, FileIsTrusted, AskedIsNew, OnlyTrustedKeys

(* A step of one connection: the others keep their trust, since answers are
   never taken back. *)
LEMMA OneSteps ==
  ASSUME TrustInv, UNCHANGED fixedVars, Accepted \subseteq Accepted', FileIsTrusted',
         NEW c \in Connections,
         \A d \in Connections \ {c} : at'[d] = at[d] /\ verdict'[d] = verdict[d],
         at'[c] \in {"asking", "storing", "writing"} => verdict'[c] \in {"unknown", "mismatch"},
         at'[c] \in Trusting => TrustedKey(c)'
  PROVE  FileIsTrusted' /\ AskedIsNew' /\ OnlyTrustedKeys'
  <1>1. AskedIsNew'
    BY DEF TrustInv, AskedIsNew
  <1>2. ASSUME NEW d \in Connections, at'[d] \in Trusting
        PROVE  TrustedKey(d)'
    <2>1. CASE d = c
      BY <1>2, <2>1
    <2>2. CASE d # c
      <3>1. TrustedKey(d)
        BY <1>2, <2>2 DEF TrustInv, OnlyTrustedKeys, TrustedKey, Trusting
      <3>2. HasKey(Vouchers(peer[d]), peer[d]) => HasKey(Vouchers(peer[d]), peer[d])'
        BY VouchersStay DEF fixedVars, HasKey
      <3>3. QED
        BY <2>2, <3>1, <3>2 DEF TrustedKey, fixedVars
    <2>3. QED
      BY <2>1, <2>2
  <1>3. OnlyTrustedKeys'
    BY <1>2 DEF OnlyTrustedKeys, TrustedKey, Trusting
  <1>4. QED
    BY <1>1, <1>3

(* A step that leaves keys alone and takes its connection to no phase where
   its key is asked about or trusted, except from one where it was trusted. *)
LEMMA KeysUntouched ==
  ASSUME TrustInv, UNCHANGED <<keyVars, fixedVars>>, NEW c \in Connections,
         \A d \in Connections \ {c} : at'[d] = at[d],
         at'[c] \in Trusting => at[c] \in Trusting,
         at'[c] \notin {"asking", "storing", "writing"}
  PROVE  FileIsTrusted' /\ AskedIsNew' /\ OnlyTrustedKeys'
  <1>1. Accepted' = Accepted
    BY DEF Accepted, keyVars
  <1>2. FileIsTrusted'
    BY <1>1 DEF TrustInv, FileIsTrusted, Agreed, keyVars, fixedVars
  <1>3. at'[c] \in Trusting => TrustedKey(c)'
    <2>1. at'[c] \in Trusting => TrustedKey(c)
      BY DEF TrustInv, OnlyTrustedKeys, TrustedKey, Trusting
    <2>2. HasKey(Vouchers(peer[c]), peer[c]) => HasKey(Vouchers(peer[c]), peer[c])'
      BY <1>1, VouchersStay DEF fixedVars, HasKey
    <2>3. QED
      BY <1>1, <2>1, <2>2 DEF TrustedKey, keyVars, fixedVars
  <1>4. QED
    BY <1>1, <1>2, <1>3, OneSteps DEF keyVars

(* Where a method takes its connection. *)
LEMMA MethodTrust ==
  ASSUME TrustInv, UNCHANGED <<keyVars, fixedVars>>, NEW c \in Connections,
         NEW m \in Methods, at[c] = "authenticating",
         Succeeds(c, m) \/ Refused(c, m) \/ Cancelled(c)
  PROVE  FileIsTrusted' /\ AskedIsNew' /\ OnlyTrustedKeys'
  <1>1. at \in [Connections -> Phases]
    BY DEF TrustInv, TypeInv, TypeOK
  <1>2. /\ \A d \in Connections \ {c} : at'[d] = at[d]
        /\ at'[c] \in {"open", "authenticating", "closed"}
    BY <1>1 DEF Succeeds, Refused, Cancelled, Fail, Reach
  <1>3. QED
    BY <1>2, KeysUntouched DEF Trusting

LEMMA CheckTrust ==
  ASSUME TrustInv, NEW c \in Connections, CheckHostKey(c)
  PROVE  FileIsTrusted' /\ AskedIsNew' /\ OnlyTrustedKeys'
  <1>1. at \in [Connections -> Phases] /\ verdict \in [Connections -> Verdicts]
    BY DEF TrustInv, TypeInv, TypeOK
  <1>2. UNCHANGED <<image, known, decisions, authVars, fixedVars>>
    BY DEF CheckHostKey
  <1>3. Accepted' = Accepted
    BY <1>2 DEF Accepted
  <1>4. FileIsTrusted'
    BY <1>2, <1>3 DEF TrustInv, FileIsTrusted, Agreed, fixedVars
  <1>5. \A d \in Connections \ {c} : at'[d] = at[d] /\ verdict'[d] = verdict[d]
    BY <1>1 DEF CheckHostKey, Fail, Reach
  <1>6. CASE Fail(c, "hostKey")
    <2>1. at'[c] = "closed"
      BY <1>1, <1>6 DEF Fail, Reach
    <2>2. QED
      BY <1>2, <1>3, <1>4, <1>5, <2>1, OneSteps DEF Trusting
  <1>7. CASE ~Fail(c, "hostKey")
    <2>1. /\ \/ /\ verdict'[c] = "match" /\ HasKey(Found(known, peer[c]), peer[c])
                /\ at'[c] = "trusted"
             \/ verdict'[c] = "unusable" /\ ~profile[c].strict /\ at'[c] = "trusted"
             \/ verdict'[c] \in {"unknown", "mismatch"} /\ at'[c] = "asking"
      BY <1>1, <1>7 DEF CheckHostKey, Finding, Reach
    <2>2. HasKey(Found(known, peer[c]), peer[c]) => HasKey(Vouchers(peer[c]), peer[c])'
      <3>1. FileIsTrusted /\ peer[c] \in Servers
        BY DEF TrustInv, TypeInv, FixedOK
      <3>2. HasKey(Found(known, peer[c]), peer[c]) => HasKey(Vouchers(peer[c]), peer[c])
        BY <3>1, FoundIsVouched
      <3>3. QED
        BY <1>2, <1>3, <3>2, VouchersStay DEF fixedVars, HasKey
    <2>3. at'[c] \in Trusting => TrustedKey(c)'
      BY <1>2, <1>3, <2>1, <2>2 DEF Trusting, TrustedKey, fixedVars
    <2>4. at'[c] \in {"asking", "storing", "writing"} => verdict'[c] \in {"unknown", "mismatch"}
      BY <2>1
    <2>5. QED
      BY <1>2, <1>3, <1>4, <1>5, <2>3, <2>4, OneSteps
  <1>8. QED
    BY <1>6, <1>7

LEMMA ConfirmTrust ==
  ASSUME TrustInv, NEW c \in Connections, Confirm(c)
  PROVE  FileIsTrusted' /\ AskedIsNew' /\ OnlyTrustedKeys'
  <1>1. /\ at \in [Connections -> Phases]
        /\ decisions \in [Servers -> {"none", "accepted", "rejected"}]
        /\ peer[c] \in Servers
    BY DEF TrustInv, TypeInv, TypeOK, FixedOK
  <1>2. at[c] = "asking" /\ UNCHANGED <<verdict, image, known, authVars, fixedVars>>
    BY DEF Confirm
  <1>3. PICK answer \in {"accepted", "rejected"} :
          /\ decisions[peer[c]] \in {"none", answer}
          /\ decisions' = [decisions EXCEPT ![peer[c]] = answer]
          /\ \/ answer = "accepted" /\ Reach(c, "storing")
             \/ answer = "rejected" /\ Reach(c, "closed")
    BY DEF Confirm, DecisionKey, Fail
  <1>4. Accepted \subseteq Accepted'
    BY <1>1, <1>3 DEF Accepted
  <1>5. FileIsTrusted'
    BY <1>2, <1>4 DEF TrustInv, FileIsTrusted, Agreed, fixedVars
  <1>6. verdict[c] \in {"unknown", "mismatch"}
    BY <1>2 DEF TrustInv, AskedIsNew
  <1>7. \A d \in Connections \ {c} : at'[d] = at[d] /\ verdict'[d] = verdict[d]
    BY <1>1, <1>2, <1>3 DEF Reach
  <1>8. at'[c] \in Trusting => TrustedKey(c)'
    <2>1. CASE answer = "accepted"
      <3>1. peer[c] \in Accepted'
        BY <1>1, <1>3, <2>1 DEF Accepted
      <3>2. QED
        BY <1>2, <1>6, <3>1 DEF TrustedKey, fixedVars
    <2>2. CASE answer = "rejected"
      BY <1>1, <1>3, <2>2 DEF Reach, Trusting
    <2>3. QED
      BY <2>1, <2>2
  <1>9. QED
    BY <1>2, <1>4, <1>5, <1>6, <1>7, <1>8, OneSteps

(* Reading and writing the file: the connection is trusted before and after. *)
LEMMA StoreTrust ==
  ASSUME TrustInv, NEW c \in Connections, ReadKnownHosts(c) \/ WriteKnownHosts(c)
  PROVE  FileIsTrusted' /\ AskedIsNew' /\ OnlyTrustedKeys'
  <1>1. /\ at \in [Connections -> Phases]
        /\ image \in [Connections -> SUBSET Lines]
    BY DEF TrustInv, TypeInv, TypeOK
  <1>2. /\ at[c] \in {"storing", "writing"}
        /\ UNCHANGED <<verdict, decisions, fixedVars>>
        /\ Reach(c, "writing") \/ Reach(c, "trusted")
    BY DEF ReadKnownHosts, WriteKnownHosts
  <1>3. Accepted' = Accepted
    BY <1>2 DEF Accepted
  <1>4. verdict[c] \in {"unknown", "mismatch"}
    BY <1>2 DEF TrustInv, AskedIsNew
  <1>5. TrustedKey(c) /\ peer[c] \in Accepted
    BY <1>2, <1>4 DEF TrustInv, OnlyTrustedKeys, TrustedKey
  <1>6. FileIsTrusted'
    <2>0. Agreed' = Agreed /\ first' = first
      BY <1>2, <1>3 DEF Agreed, fixedVars
    <2>1. CASE ReadKnownHosts(c)
      BY <1>1, <2>0, <2>1 DEF ReadKnownHosts, TrustInv, FileIsTrusted
    <2>2. CASE WriteKnownHosts(c)
      <3>1. Rewritten(c) \subseteq first \cup Agreed
        BY <1>5 DEF Rewritten, Agreed, TrustInv, FileIsTrusted
      <3>2. QED
        BY <1>1, <2>0, <2>2, <3>1 DEF WriteKnownHosts, TrustInv, FileIsTrusted
    <2>3. QED
      BY <2>1, <2>2
  <1>7. TrustedKey(c)'
    BY <1>2, <1>3, <1>4, <1>5 DEF TrustedKey, fixedVars
  <1>8. \A d \in Connections \ {c} : at'[d] = at[d] /\ verdict'[d] = verdict[d]
    BY <1>1, <1>2 DEF Reach
  <1>9. QED
    BY <1>2, <1>3, <1>4, <1>6, <1>7, <1>8, OneSteps

LEMMA NextTrust == TrustInv /\ [Next]_vars => TrustInv'
  <1> SUFFICES ASSUME TrustInv, [Next]_vars
               PROVE  TrustInv'
    OBVIOUS
  <1>1. TypeInv'
    BY NextType DEF TrustInv
  <1> DEFINE Goal == FileIsTrusted' /\ AskedIsNew' /\ OnlyTrustedKeys'
  <1>2. at \in [Connections -> Phases]
    BY DEF TrustInv, TypeInv, TypeOK
  <1>3. ASSUME NEW c \in Connections,
               OpenSocket(c) \/ Handshake(c) \/ ListMethods(c) \/ GiveUp(c) \/ Close(c)
        PROVE  Goal
    <2>1. UNCHANGED <<keyVars, fixedVars>>
      BY <1>3 DEF OpenSocket, Handshake, ListMethods, GiveUp, Close
    <2>2. PICK phase \in {"connected", "shaken", "open", "authenticating", "closed"} :
            Reach(c, phase) /\ (phase \in {"open", "authenticating"} => at[c] = "trusted")
      <3>1. CASE OpenSocket(c)
        BY <3>1 DEF OpenSocket
      <3>2. CASE Handshake(c)
        BY <3>2 DEF Handshake, Fail
      <3>3. CASE ListMethods(c)
        BY <3>3 DEF ListMethods
      <3>4. CASE GiveUp(c)
        BY <3>4 DEF GiveUp, Fail
      <3>5. CASE Close(c)
        BY <3>5 DEF Close
      <3>6. QED
        BY <1>3, <3>1, <3>2, <3>3, <3>4, <3>5
    <2>3. /\ \A d \in Connections \ {c} : at'[d] = at[d]
          /\ at'[c] = phase
      BY <1>2, <2>2 DEF Reach
    <2>4. QED
      BY <2>1, <2>2, <2>3, KeysUntouched DEF Trusting
  <1>4. ASSUME NEW c \in Connections, AuthAgent(c) \/ AuthPublicKey(c) \/ AuthPassword(c)
        PROVE  Goal
    <2>1. PICK m \in Methods : Succeeds(c, m) \/ Refused(c, m) \/ Cancelled(c)
      BY <1>4 DEF AuthAgent, AuthPublicKey, AuthPassword, WithSecret, Methods
    <2>2. at[c] = "authenticating" /\ UNCHANGED <<keyVars, fixedVars>>
      BY <1>4 DEF AuthAgent, AuthPublicKey, AuthPassword, Turn
    <2>3. QED
      BY <2>1, <2>2, MethodTrust
  <1>5. ASSUME UNCHANGED vars
        PROVE  Goal
    <2>1. Accepted' = Accepted
      BY <1>5 DEF vars, keyVars, Accepted
    <2>2. FileIsTrusted' /\ AskedIsNew'
      BY <1>5, <2>1 DEF vars, TrustInv, FileIsTrusted, Agreed, AskedIsNew, keyVars, fixedVars
    <2>3. ASSUME NEW c \in Connections, at'[c] \in Trusting
          PROVE  TrustedKey(c)'
      <3>1. TrustedKey(c)
        BY <1>5, <2>3 DEF vars, TrustInv, OnlyTrustedKeys, TrustedKey, Trusting
      <3>2. HasKey(Vouchers(peer[c]), peer[c]) => HasKey(Vouchers(peer[c]), peer[c])'
        BY <1>5, <2>1, VouchersStay DEF vars, fixedVars, HasKey
      <3>3. QED
        BY <1>5, <2>1, <3>1, <3>2 DEF vars, TrustedKey, keyVars, fixedVars
    <2>4. OnlyTrustedKeys'
      BY <2>3 DEF OnlyTrustedKeys, TrustedKey, Trusting
    <2>5. QED
      BY <2>2, <2>4
  <1>6. Goal
    <2>1. CASE \E c \in Connections : Step(c)
      <3>1. PICK c \in Connections : Step(c)
        BY <2>1
      <3>2. CASE CheckHostKey(c)
        BY <3>2, CheckTrust
      <3>3. CASE Confirm(c)
        BY <3>3, ConfirmTrust
      <3>4. CASE ReadKnownHosts(c) \/ WriteKnownHosts(c)
        BY <3>4, StoreTrust
      <3>5. QED
        BY <1>3, <1>4, <3>1, <3>2, <3>3, <3>4 DEF Step
    <2>2. QED
      BY <1>5, <2>1 DEF Next
  <1>7. QED
    BY <1>1, <1>6 DEF TrustInv

(* Secrets are offered only to a server whose key was known from the beginning for
   its name and port or its plain name, or accepted by the user for its name and
   port or for port 22 of the name, or without a check the profile waives
   (SshConnection.cpp:206-246, KnownHosts.cpp:144-150, SessionInteraction.cpp:13-19). *)
THEOREM OnlyTrustedKeysCorrect == Spec => []OnlyTrustedKeys
  <1>1. TrustInv => OnlyTrustedKeys
    BY DEF TrustInv
  <1>2. QED
    BY InitTrust, NextTrust, <1>1, PTL DEF Spec

-----------------------------------------------------------------------------
(***************************************************************************)
(* The file.                                                               *)
(***************************************************************************)
(* Rewritten() has one line more than what was read, and lacks only lines that
   the server is found under and that have another key. *)
LEMMA RewrittenIs ==
  ASSUME NEW c \in Connections
  PROVE  /\ Rewritten(c) \ image[c] \subseteq {StoredAs(peer[c])}
         /\ image[c] \ Rewritten(c)
              \subseteq {line \in Found(image[c], peer[c]) : line.key # peer[c].key}
  <1>1. Stale(c) \subseteq {line \in Found(image[c], peer[c]) : line.key # peer[c].key}
    BY DEF Stale, HasKey
  <1>2. QED
    BY <1>1 DEF Rewritten

LEMMA WritingEnds ==
  ASSUME TypeInv, [Next]_vars, NEW c \in Connections, at[c] = "writing", at'[c] # "writing"
  PROVE  WriteKnownHosts(c)
  <1>1. at \in [Connections -> Phases]
    BY DEF TypeInv, TypeOK
  <1>2. PICK d \in Connections : Step(d)
    BY DEF Next, vars
  <1>3. CASE d = c
    BY <1>2, <1>3
    DEF Step, OpenSocket, Handshake, CheckHostKey, Confirm, ReadKnownHosts, ListMethods,
        AuthAgent, AuthPublicKey, AuthPassword, GiveUp, Close, Turn
  <1>4. CASE d # c
    <2>1. \/ UNCHANGED at
          \/ \E phase \in Phases : Reach(d, phase)
      BY <1>2
      DEF Step, OpenSocket, Handshake, CheckHostKey, Confirm, ReadKnownHosts, WriteKnownHosts,
          ListMethods, AuthAgent, AuthPublicKey, AuthPassword, GiveUp, Close, WithSecret,
          Succeeds, Refused, Cancelled, Fail, Phases
    <2>2. QED
      BY <1>1, <1>4, <2>1 DEF Reach
  <1>5. QED
    BY <1>3, <1>4

(* Storing a key adds its own line, and takes lines with another key under which
   the server is looked up, unless the file was written by another connection
   since, or could not be read (KnownHosts.cpp:170-226). *)
THEOREM RewriteIsLocalCorrect == Spec => RewriteIsLocal
  <1> DEFINE Local(c) ==
        at[c] = "writing" /\ at'[c] # "writing" /\ image[c] = known =>
          /\ known' \ known \subseteq {StoredAs(peer[c])}
          /\ known \ known' \subseteq {line \in Found(known, peer[c]) : line.key # peer[c].key}
  <1>1. ASSUME TypeInv, [Next]_vars, NEW c \in Connections
        PROVE  Local(c)
    <2>1. SUFFICES ASSUME at[c] = "writing", at'[c] # "writing", image[c] = known
                   PROVE  /\ known' \ known \subseteq {StoredAs(peer[c])}
                          /\ known \ known' \subseteq
                               {line \in Found(known, peer[c]) : line.key # peer[c].key}
      OBVIOUS
    <2>2. known' = known \/ known' = Rewritten(c)
      BY <1>1, <2>1, WritingEnds DEF WriteKnownHosts
    <2>3. QED
      BY <2>1, <2>2, RewrittenIs
  <1>2. TypeInv /\ [Next]_vars => [\A c \in Connections : Local(c)]_vars
    BY <1>1
  <1>3. QED
    BY <1>2, InitType, NextType, PTL DEF Spec, RewriteIsLocal

-----------------------------------------------------------------------------
(***************************************************************************)
(* Authentication.                                                         *)
(***************************************************************************)
Usable(c) == {m \in Methods : Satisfies(profile[c], m) /\ IsOffered(offered[c], m)}

(* A usable method is still to come or has been refused. *)
NoneForgotten ==
  \A c \in Connections :
    /\ at[c] = "authenticating" => Usable(c) \subseteq tried[c] \cup left[c]
    /\ error[c] # "none" => at[c] = "closed"

TriedInv == TypeInv /\ NoneForgotten /\ FailedHasTriedAll

LEMMA InitTried == Init => TriedInv
  BY InitType DEF Init, TriedInv, NoneForgotten, FailedHasTriedAll

(* What an action does for the connection it is about. *)
TriedOK(c) ==
  /\ at[c] = "authenticating" => Usable(c) \subseteq tried[c] \cup left[c]
  /\ error[c] # "none" => at[c] = "closed"
  /\ error[c] = "authentication" => Usable(c) \subseteq tried[c]

LEMMA TriedEach ==
  (NoneForgotten /\ FailedHasTriedAll) <=> \A c \in Connections : TriedOK(c)
  BY DEF NoneForgotten, FailedHasTriedAll, TriedOK, Usable

LEMMA UsableFixed ==
  ASSUME NEW c \in Connections, profile' = profile, offered'[c] = offered[c]
  PROVE  Usable(c)' = Usable(c)
  BY DEF Usable, Satisfies, IsOffered

LEMMA ListTried ==
  ASSUME TriedInv, NEW c \in Connections, ListMethods(c)
  PROVE  TriedOK(c)'
  <1>1. /\ at \in [Connections -> Phases]
        /\ offered \in [Connections -> Offers \cup {{}}]
        /\ left \in [Connections -> SUBSET Methods]
    BY DEF TriedInv, TypeInv, TypeOK
  <1>2. error'[c] = "none"
    BY DEF ListMethods, TriedInv, NoneForgotten
  <1>3. CASE Reach(c, "open")
    BY <1>1, <1>2, <1>3 DEF Reach, TriedOK
  <1>4. CASE ~Reach(c, "open")
    <2>1. PICK offer \in Offers :
            /\ offered' = [offered EXCEPT ![c] = offer]
            /\ left' = [left EXCEPT ![c] = {m \in AuthMethods(profile[c]) : IsOffered(offer, m)}]
      BY <1>4 DEF ListMethods
    <2>2. {m \in Methods : Satisfies(profile[c], m)} \subseteq AuthMethods(profile[c])
      BY DEF AuthMethods
    <2>3. profile' = profile
      BY DEF ListMethods, fixedVars
    <2>4. Usable(c)' \subseteq left'[c]
      <3>1. offered'[c] = offer /\ left'[c] = {m \in AuthMethods(profile[c]) : IsOffered(offer, m)}
        BY <1>1, <2>1
      <3>2. Usable(c)' = {m \in Methods : Satisfies(profile[c], m) /\ IsOffered(offer, m)}
        BY <2>3, <3>1 DEF Usable, Satisfies, IsOffered
      <3>3. QED
        BY <2>2, <3>1, <3>2
    <2>5. QED
      BY <1>2, <2>4 DEF TriedOK
  <1>5. QED
    BY <1>3, <1>4

LEMMA MethodTried ==
  ASSUME TriedInv, NEW c \in Connections, NEW m \in Methods, at[c] = "authenticating",
         Succeeds(c, m) \/ Refused(c, m) \/ Cancelled(c), UNCHANGED <<offered, profile>>
  PROVE  /\ TriedOK(c)'
         /\ \A d \in Connections \ {c} : /\ at'[d] = at[d] /\ error'[d] = error[d]
                                         /\ tried'[d] = tried[d] /\ left'[d] = left[d]
  <1>1. /\ at \in [Connections -> Phases]
        /\ error \in [Connections -> ErrorKinds]
        /\ left \in [Connections -> SUBSET Methods]
        /\ tried \in [Connections -> SUBSET Methods]
    BY DEF TriedInv, TypeInv, TypeOK
  <1>2. error[c] = "none" /\ Usable(c) \subseteq tried[c] \cup left[c]
    BY DEF TriedInv, NoneForgotten
  <1>3. Usable(c)' = Usable(c)
    BY UsableFixed
  <1>4. CASE Succeeds(c, m)
    BY <1>1, <1>2, <1>4 DEF Succeeds, Reach, TriedOK
  <1>5. CASE Refused(c, m)
    BY <1>1, <1>2, <1>3, <1>5 DEF Refused, TriedOK
  <1>6. CASE Cancelled(c)
    BY <1>1, <1>6 DEF Cancelled, Fail, Reach, TriedOK
  <1>7. QED
    BY <1>4, <1>5, <1>6

(* The actions before and after authentication leave its variables alone. *)
LEMMA OtherTried ==
  ASSUME TriedInv, NEW c \in Connections,
         OpenSocket(c) \/ Handshake(c) \/ CheckHostKey(c) \/ Confirm(c)
         \/ ReadKnownHosts(c) \/ WriteKnownHosts(c) \/ GiveUp(c) \/ Close(c)
  PROVE  /\ TriedOK(c)'
         /\ \A d \in Connections \ {c} : at'[d] = at[d] /\ error'[d] = error[d]
         /\ UNCHANGED <<profile, offered, left, tried>>
  <1>1. at \in [Connections -> Phases] /\ error \in [Connections -> ErrorKinds]
    BY DEF TriedInv, TypeInv, TypeOK
  <1>2. UNCHANGED <<profile, offered, left, tried>>
    BY DEF OpenSocket, Handshake, CheckHostKey, Confirm, ReadKnownHosts, WriteKnownHosts,
           GiveUp, Close, authVars, fixedVars
  <1>3. at[c] # "closed" /\ error[c] = "none"
    BY DEF OpenSocket, Handshake, CheckHostKey, Confirm, ReadKnownHosts, WriteKnownHosts,
           GiveUp, Close, TriedInv, NoneForgotten
  <1>4. Usable(c)' = Usable(c)
    BY <1>2, UsableFixed
  <1>5. CASE error' = error
    <2>1. PICK phase \in Phases \ {"authenticating"} : Reach(c, phase)
      BY <1>1, <1>3, <1>5
      DEF OpenSocket, Handshake, CheckHostKey, Confirm, ReadKnownHosts, WriteKnownHosts,
          GiveUp, Close, Fail, Phases
    <2>2. QED
      BY <1>1, <1>2, <1>3, <1>5, <2>1 DEF Reach, TriedOK
  <1>6. CASE error' # error
    <2>1. PICK kind \in ErrorKinds :
            /\ Reach(c, "closed")
            /\ error' = [error EXCEPT ![c] = kind]
            /\ kind = "authentication" => at[c] = "authenticating" /\ left[c] = {}
      BY <1>6
      DEF OpenSocket, Handshake, CheckHostKey, Confirm, ReadKnownHosts, WriteKnownHosts,
          GiveUp, Close, Fail, ErrorKinds
    <2>2. kind = "authentication" => Usable(c) \subseteq tried[c]
      BY <2>1 DEF TriedInv, NoneForgotten
    <2>3. QED
      BY <1>1, <1>2, <1>4, <2>1, <2>2 DEF Reach, TriedOK
  <1>7. QED
    BY <1>2, <1>5, <1>6

LEMMA NextTried == TriedInv /\ [Next]_vars => TriedInv'
  <1> SUFFICES ASSUME TriedInv, [Next]_vars
               PROVE  TriedInv'
    OBVIOUS
  <1>1. TypeInv'
    BY NextType DEF TriedInv
  <1>2. \A d \in Connections : TriedOK(d)
    BY TriedEach DEF TriedInv
  <1>3. ASSUME NEW c \in Connections, Step(c), NEW d \in Connections
        PROVE  TriedOK(d)'
    <2>1. ASSUME at'[d] = at[d], error'[d] = error[d], tried'[d] = tried[d],
                 left'[d] = left[d], offered'[d] = offered[d], profile' = profile
          PROVE  TriedOK(d)'
      BY <1>2, <2>1, UsableFixed DEF TriedOK
    <2>2. CASE AuthAgent(c) \/ AuthPublicKey(c) \/ AuthPassword(c)
      <3>1. PICK m \in Methods : Succeeds(c, m) \/ Refused(c, m) \/ Cancelled(c)
        BY <2>2 DEF AuthAgent, AuthPublicKey, AuthPassword, WithSecret, Methods
      <3>2. at[c] = "authenticating" /\ UNCHANGED <<offered, profile>>
        BY <2>2 DEF AuthAgent, AuthPublicKey, AuthPassword, Turn, fixedVars
      <3>3. QED
        BY <2>1, <3>1, <3>2, MethodTried
    <2>3. CASE ListMethods(c)
      <3>1. CASE d = c
        BY <2>3, <3>1, ListTried
      <3>2. CASE d # c
        <4>1. /\ at \in [Connections -> Phases]
              /\ left \in [Connections -> SUBSET Methods]
              /\ offered \in [Connections -> Offers \cup {{}}]
          BY DEF TriedInv, TypeInv, TypeOK
        <4>2. UNCHANGED <<error, tried, profile>>
          BY <2>3 DEF ListMethods, fixedVars
        <4>3. at'[d] = at[d] /\ left'[d] = left[d] /\ offered'[d] = offered[d]
          BY <2>3, <3>2, <4>1 DEF ListMethods, Reach
        <4>4. QED
          BY <2>1, <4>2, <4>3
      <3>3. QED
        BY <3>1, <3>2
    <2>4. CASE OpenSocket(c) \/ Handshake(c) \/ CheckHostKey(c) \/ Confirm(c)
               \/ ReadKnownHosts(c) \/ WriteKnownHosts(c) \/ GiveUp(c) \/ Close(c)
      BY <2>1, <2>4, OtherTried
    <2>5. QED
      BY <1>3, <2>2, <2>3, <2>4 DEF Step
  <1>4. CASE UNCHANGED vars
    BY <1>1, <1>4
    DEF vars, TriedInv, NoneForgotten, FailedHasTriedAll, Usable, IsOffered, Satisfies,
        authVars, fixedVars
  <1>5. CASE Next
    <2>1. \A d \in Connections : TriedOK(d)'
      BY <1>3, <1>5 DEF Next
    <2>2. NoneForgotten' /\ FailedHasTriedAll'
      BY <2>1 DEF NoneForgotten, FailedHasTriedAll, TriedOK, Usable
    <2>3. QED
      BY <1>1, <2>2 DEF TriedInv
  <1>6. QED
    BY <1>4, <1>5

(* An authentication that fails has tried all the profile has something for and
   the server offers (SshConnection.cpp:248-315, SshTypes.cpp:35-67). *)
THEOREM FailedHasTriedAllCorrect == Spec => []FailedHasTriedAll
  <1>1. TriedInv => FailedHasTriedAll
    BY DEF TriedInv
  <1>2. QED
    BY InitTried, NextTried, <1>1, PTL DEF Spec

=============================================================================
