---------------------------- MODULE MCHostStore ----------------------------
(***************************************************************************)
(* HostStore for TLC: two hosts and two users; the configurations rename, *)
(* repeat and end blocks in the ways the parser tells apart.               *)
(***************************************************************************)
EXTENDS HostStore

CONSTANTS a, b

Line(key, value) == [key |-> key, value |-> value]

(* A host; two, the second of them renamed to the first; one renamed behind a
   pattern; one with a user of its own, twice under two names. *)
MCConfigs ==
  {<<Line("host", a)>>,
   <<Line("user", "root"), Line("host", b), Line("host", a), Line("hostname", b)>>,
   <<Line("host", a), Line("pattern", Nameless), Line("hostname", b), Line("host", b)>>,
   <<Line("host", a), Line("user", "root"), Line("host", b), Line("hostname", a),
     Line("user", "me"), Line("user", "root")>>}

At(host) == [host |-> host, user |-> Me]

MCEntered == {At(a), [host |-> b, user |-> "root"]}

File(state, entries) == [state |-> state, entries |-> entries]

(* None, one that does not parse, and one edited by hand: an entry as the
   program writes it, one without an id, one without a host name. *)
MCFiles ==
  {File("absent", <<>>), File("garbled", <<>>),
   File("good", <<[id |-> 1, at |-> At(a)], [id |-> NoId, at |-> At(b)],
                  [id |-> NoId, at |-> At(Nameless)]>>)}

=============================================================================
