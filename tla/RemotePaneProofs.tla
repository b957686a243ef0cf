-------------------------- MODULE RemotePaneProofs --------------------------
(***************************************************************************)
(* Proofs about RemotePane for any set of directories and every value of   *)
(* the bounds.                                                             *)
(***************************************************************************)
EXTENDS RemotePane, TLAPS

Elems(s) == {s[i] : i \in 1..Len(s)}

PaneCalls == [kind : {"start", "list", "mutate"}, id : Nat]

PaneSignals ==
  [kind : {"ready", "failed", "listingReady", "operationFailed", "operationFinished"},
   id : Nat, moved : {0}, total : {0}]

Types == TypeOK /\ calls \in Seq(PaneCalls) /\ signals \in Seq(PaneSignals)

(* Every request is for a directory or a mutation, by its id. *)
IsListing(id) == id \in 1..Len(listed) /\ listed[id] # Nowhere

IsMutation(id) == id \in 1..Len(listed) /\ listed[id] = Nowhere

CallsAreKnown ==
  \A call \in Elems(calls) :
    \/ call.kind = "start" /\ call.id = 0
    \/ call.kind = "list" /\ IsListing(call.id)
    \/ call.kind = "mutate" /\ IsMutation(call.id)

SignalsAreKnown ==
  \A signal \in Elems(signals) :
    \/ signal.kind \in {"ready", "failed"} /\ signal.id = 0
    \/ signal.kind = "listingReady" /\ IsListing(signal.id)
    \/ signal.kind = "operationFinished" /\ IsMutation(signal.id)
    \/ signal.kind = "operationFailed" /\ (IsListing(signal.id) \/ IsMutation(signal.id))

(***************************************************************************)
(* The pipe is a queue in both directions: requests are served, and        *)
(* answers delivered, in the order in which they were numbered.            *)
(***************************************************************************)
Ascending(s) ==
  \A i, j \in 1..Len(s) : i < j /\ s[i].id # 0 /\ s[j].id # 0 => s[i].id < s[j].id

Precedes(s, t) ==
  \A x \in Elems(s), y \in Elems(t) : x.id # 0 /\ y.id # 0 => x.id < y.id

PipeIsInOrder == Ascending(calls) /\ Ascending(signals) /\ Precedes(signals, calls)

(* The request the pane waits for is the last one for a directory, and its *)
(* answer is still to come.                                                *)
PendingIsLast ==
  pending # 0 =>
    /\ IsListing(pending)
    /\ \A id \in 1..Len(listed) : id > pending => listed[id] = Nowhere

PendingIsAwaited ==
  pending # 0 =>
    \/ \E call \in Elems(calls) : call = Call("list", pending)
    \/ \E signal \in Elems(signals) :
         signal.id = pending /\ signal.kind \in {"listingReady", "operationFailed"}

Ordered == CallsAreKnown /\ SignalsAreKnown /\ PipeIsInOrder

Awaiting == PendingIsLast /\ PendingIsAwaited /\ (loading <=> pending # 0)

Inv == Types /\ Ordered /\ Awaiting

(* The types of the pipe, and of what is shown. *)
PipeTypes ==
  /\ nextRequestId = Len(listed) + 1
  /\ listed \in Seq(Places)
  /\ pending \in 0..Len(listed)
  /\ loading \in BOOLEAN
  /\ calls \in Seq(PaneCalls)
  /\ signals \in Seq(PaneSignals)

ViewTypes ==
  /\ connected \in BOOLEAN
  /\ starts \in 0..MaxStarts
  /\ path \in Places
  /\ shown \in {path, Nowhere}
  /\ history \in Seq(Places)
  /\ NeighboursDiffer
  /\ at \in DOMAIN history
  /\ buttons \subseteq {"back", "forward"}
  /\ wanted \in Places

-----------------------------------------------------------------------------
(***************************************************************************)
(* Queues.                                                                 *)
(***************************************************************************)
LEMMA ElemsAppend ==
  ASSUME NEW S, NEW s \in Seq(S), NEW x \in S
  PROVE  /\ Append(s, x) \in Seq(S)
         /\ Elems(Append(s, x)) = Elems(s) \cup {x}
  <1>1. /\ Append(s, x) \in Seq(S)
        /\ Len(s) \in Nat
        /\ Len(Append(s, x)) = Len(s) + 1
        /\ \A i \in 1..Len(s) : Append(s, x)[i] = s[i]
        /\ Append(s, x)[Len(s) + 1] = x
    OBVIOUS
  <1>2. 1..(Len(s) + 1) = 1..Len(s) \cup {Len(s) + 1}
    BY <1>1
  <1>3. QED
    BY <1>1, <1>2 DEF Elems

LEMMA TailEntries ==
  ASSUME NEW S, NEW s \in Seq(S), s # <<>>
  PROVE  /\ Head(s) \in S /\ Tail(s) \in Seq(S)
         /\ Len(s) \in Nat \ {0} /\ Len(Tail(s)) = Len(s) - 1
         /\ Head(s) = s[1]
         /\ \A i \in 1..(Len(s) - 1) : Tail(s)[i] = s[i + 1]
  OBVIOUS

LEMMA ElemsTail ==
  ASSUME NEW S, NEW s \in Seq(S), s # <<>>
  PROVE  Elems(s) = {Head(s)} \cup Elems(Tail(s))
  <1>1. /\ Len(s) \in Nat \ {0} /\ Len(Tail(s)) = Len(s) - 1 /\ Head(s) = s[1]
        /\ \A i \in 1..(Len(s) - 1) : Tail(s)[i] = s[i + 1]
    BY TailEntries
  <1>2. \A i \in 1..Len(s) : i = 1 \/ (i - 1 \in 1..(Len(s) - 1) /\ (i - 1) + 1 = i)
    BY <1>1
  <1>3. Elems(s) \subseteq {Head(s)} \cup Elems(Tail(s))
    BY <1>1, <1>2 DEF Elems
  <1>4. {Head(s)} \cup Elems(Tail(s)) \subseteq Elems(s)
    BY <1>1 DEF Elems
  <1>5. QED
    BY <1>3, <1>4

LEMMA AscendingAppend ==
  ASSUME NEW S, NEW s \in Seq(S), NEW x \in S, Ascending(s),
         \A y \in Elems(s) : x.id # 0 /\ y.id # 0 => y.id < x.id
  PROVE  Ascending(Append(s, x))
  <1>1. /\ Len(s) \in Nat
        /\ Len(Append(s, x)) = Len(s) + 1
        /\ \A i \in 1..Len(s) : Append(s, x)[i] = s[i]
        /\ Append(s, x)[Len(s) + 1] = x
    OBVIOUS
  <1>2. \A i \in 1..Len(s) : x.id # 0 /\ s[i].id # 0 => s[i].id < x.id
    BY DEF Elems
  <1>3. ASSUME NEW i \in 1..(Len(s) + 1), NEW j \in 1..(Len(s) + 1), i < j
        PROVE  i \in 1..Len(s) /\ (j \in 1..Len(s) \/ j = Len(s) + 1)
    BY <1>1, <1>3
  <1> DEFINE t == Append(s, x)
  <1> HIDE DEF t
  <1>4. QED
    BY <1>1, <1>2, <1>3 DEF Ascending, t

LEMMA AscendingTail ==
  ASSUME NEW S, NEW s \in Seq(S), s # <<>>, Ascending(s)
  PROVE  /\ Ascending(Tail(s))
         /\ \A y \in Elems(Tail(s)) : Head(s).id # 0 /\ y.id # 0 => Head(s).id < y.id
  <1>1. /\ Len(s) \in Nat \ {0} /\ Len(Tail(s)) = Len(s) - 1 /\ Head(s) = s[1]
        /\ \A i \in 1..(Len(s) - 1) : Tail(s)[i] = s[i + 1]
    BY TailEntries
  <1>2. \A i \in 1..(Len(s) - 1) : i + 1 \in 1..Len(s) /\ 1 < i + 1 /\ 1 \in 1..Len(s)
    BY <1>1
  <1>3. \A i \in 1..(Len(s) - 1) : Head(s).id # 0 /\ Tail(s)[i].id # 0
                                     => Head(s).id < Tail(s)[i].id
    BY <1>1, <1>2 DEF Ascending
  <1>4. Ascending(Tail(s))
    BY <1>1, <1>2 DEF Ascending
  <1>5. QED
    BY <1>1, <1>3, <1>4 DEF Elems

(* The records in the pipe. *)
LEMMA CallTyped ==
  ASSUME NEW kind \in {"start", "list", "mutate"}, NEW id \in Nat
  PROVE  Call(kind, id) \in PaneCalls /\ Call(kind, id).kind = kind /\ Call(kind, id).id = id
  BY DEF Call, PaneCalls

LEMMA AnswerTyped ==
  ASSUME NEW kind \in {"ready", "failed", "listingReady", "operationFailed",
                       "operationFinished"}, NEW id \in Nat
  PROVE  /\ Answer(kind, id) \in PaneSignals
         /\ Answer(kind, id).kind = kind /\ Answer(kind, id).id = id
  BY DEF Answer, Signal, PaneSignals

(* The head of a queue is known like the rest. *)
LEMMA HeadKnown ==
  ASSUME NEW S, NEW s \in Seq(S), s # <<>>
  PROVE  /\ Head(s) \in Elems(s) /\ Elems(Tail(s)) \subseteq Elems(s)
         /\ Head(s) \in S /\ Tail(s) \in Seq(S)
  BY ElemsTail, TailEntries

-----------------------------------------------------------------------------
(***************************************************************************)
(* Both queues stay in order.  What the GUI thread does to them is to take *)
(* a signal, or none, and to post a request, or none.                      *)
(***************************************************************************)
Posts(kind, dir) ==
  /\ Post(kind, dir)
  /\ \/ kind = "list" /\ dir \in Dirs
     \/ kind = "mutate" /\ dir = Nowhere

PostsNothing == UNCHANGED <<calls, nextRequestId, listed>>

PostsStart ==
  /\ calls' = Append(calls, Call("start", 0))
  /\ UNCHANGED <<nextRequestId, listed>>

Takes == signals # <<>> /\ signals' = Tail(signals)

LEMMA GrownList ==
  ASSUME Types, NEW kind, NEW dir, Posts(kind, dir)
  PROVE  /\ listed' \in Seq(Places)
         /\ Len(listed') = Len(listed) + 1
         /\ nextRequestId = Len(listed) + 1
         /\ nextRequestId' = Len(listed') + 1
         /\ \A id \in 1..Len(listed) : listed'[id] = listed[id]
         /\ listed'[Len(listed) + 1] = dir
         /\ \A id : IsListing(id) => IsListing(id)'
         /\ \A id : IsMutation(id) => IsMutation(id)'
         /\ \A id : id = nextRequestId =>
              IF kind = "list" THEN IsListing(id)' ELSE IsMutation(id)'
  <1>1. dir \in Places
    BY PaneAssumption DEF Posts, Places
  <1>2. /\ listed \in Seq(Places) /\ Len(listed) \in Nat /\ listed' = Append(listed, dir)
        /\ nextRequestId = Len(listed) + 1 /\ nextRequestId' = nextRequestId + 1
    BY DEF Posts, Post, Types, TypeOK
  <1>3. /\ listed' \in Seq(Places)
        /\ Len(listed') = Len(listed) + 1
        /\ \A id \in 1..Len(listed) : listed'[id] = listed[id]
        /\ listed'[Len(listed) + 1] = dir
    BY <1>1, <1>2
  <1>4. QED
    <2>1. \A id \in 1..Len(listed) : id \in 1..Len(listed') /\ listed'[id] = listed[id]
      BY <1>2, <1>3
    <2>2. /\ \A id : IsListing(id) => IsListing(id)'
          /\ \A id : IsMutation(id) => IsMutation(id)'
      BY <2>1 DEF IsListing, IsMutation
    <2>3. nextRequestId \in 1..Len(listed') /\ listed'[nextRequestId] = dir
      BY <1>2, <1>3
    <2>4. \A id : id = nextRequestId =>
              IF kind = "list" THEN IsListing(id)' ELSE IsMutation(id)'
      <3>1. (kind = "list" /\ dir # Nowhere) \/ (kind # "list" /\ dir = Nowhere)
        BY PaneAssumption DEF Posts
      <3>2. QED
        BY <1>2, <1>3, <2>3, <3>1 DEF IsListing, IsMutation
    <2>5. QED
      BY <1>2, <1>3, <2>2, <2>4

LEMMA GuiQueues ==
  ASSUME Types, Ordered,
         \/ PostsNothing \/ PostsStart
         \/ \E kind \in {"list", "mutate"}, dir \in Places : Posts(kind, dir),
         signals' = signals \/ Takes
  PROVE  /\ Ordered'
         /\ calls' \in Seq(PaneCalls) /\ signals' \in Seq(PaneSignals)
         /\ Elems(calls) \subseteq Elems(calls')
  <1>0. /\ calls \in Seq(PaneCalls) /\ signals \in Seq(PaneSignals)
        /\ Len(listed) \in Nat /\ nextRequestId = Len(listed) + 1
    BY DEF Types, TypeOK
  <1>1. /\ Elems(signals') \subseteq Elems(signals)
        /\ Ascending(signals')
        /\ signals' \in Seq(PaneSignals)
    BY <1>0, HeadKnown, AscendingTail DEF Takes, Ordered, PipeIsInOrder
  <1>2. CASE PostsNothing
    BY <1>0, <1>1, <1>2
       DEF PostsNothing, Ordered, CallsAreKnown, SignalsAreKnown, PipeIsInOrder, Precedes,
           IsListing, IsMutation
  <1>3. CASE PostsStart
    <2>1. Call("start", 0) \in PaneCalls /\ Call("start", 0).kind = "start"
            /\ Call("start", 0).id = 0
      BY CallTyped
    <2>2. /\ calls' \in Seq(PaneCalls)
          /\ Elems(calls') = Elems(calls) \cup {Call("start", 0)}
      BY <1>0, <1>3, <2>1, ElemsAppend DEF PostsStart
    <2>3. Ascending(calls')
      BY <1>0, <1>3, <2>1, AscendingAppend DEF PostsStart, Ordered, PipeIsInOrder
    <2>4. \A id : /\ IsListing(id)' <=> IsListing(id)
                  /\ IsMutation(id)' <=> IsMutation(id)
      BY <1>3 DEF PostsStart, IsListing, IsMutation
    <2>5. CallsAreKnown' /\ SignalsAreKnown'
      BY <1>1, <2>1, <2>2, <2>4 DEF Ordered, CallsAreKnown, SignalsAreKnown
    <2>6. Precedes(signals', calls')
      BY <1>1, <2>1, <2>2 DEF Ordered, PipeIsInOrder, Precedes
    <2>7. QED
      BY <1>1, <2>2, <2>3, <2>5, <2>6 DEF Ordered, PipeIsInOrder
  <1>4. ASSUME NEW kind \in {"list", "mutate"}, NEW dir \in Places, Posts(kind, dir)
        PROVE  /\ Ordered' /\ calls' \in Seq(PaneCalls)
               /\ Elems(calls) \subseteq Elems(calls')
    <2>1. PICK call \in PaneCalls : /\ call.kind = kind /\ call.id = nextRequestId
                                   /\ calls' = Append(calls, call)
      BY <1>0, <1>4, CallTyped DEF Posts, Post
    <2>2. calls' = Append(calls, call)
      BY <2>1
    <2>3. calls' \in Seq(PaneCalls) /\ Elems(calls') = Elems(calls) \cup {call}
      BY <1>0, <2>1, <2>2, ElemsAppend
    <2>4. /\ \A id : IsListing(id) => IsListing(id)'
          /\ \A id : IsMutation(id) => IsMutation(id)'
          /\ \A id : id = nextRequestId =>
              IF kind = "list" THEN IsListing(id)' ELSE IsMutation(id)'
      BY <1>4, GrownList
    <2>5. CallsAreKnown'
      <3>1. \A c \in Elems(calls) : \/ c.kind = "start" /\ c.id = 0
                                    \/ c.kind = "list" /\ IsListing(c.id)'
                                    \/ c.kind = "mutate" /\ IsMutation(c.id)'
        BY <2>4 DEF Ordered, CallsAreKnown
      <3>2. \/ call.kind = "list" /\ IsListing(call.id)'
            \/ call.kind = "mutate" /\ IsMutation(call.id)'
        BY <2>1, <2>4
      <3>3. QED
        BY <2>3, <3>1, <3>2 DEF CallsAreKnown
    <2>6. SignalsAreKnown'
      BY <1>1, <2>4 DEF Ordered, SignalsAreKnown
    <2>7. /\ \A x \in Elems(calls) : x.id # 0 => x.id < nextRequestId
          /\ \A x \in Elems(signals) : x.id # 0 => x.id < nextRequestId
      BY <1>0 DEF Ordered, CallsAreKnown, SignalsAreKnown, IsListing, IsMutation
    <2>8. Ascending(calls')
      BY <1>0, <2>1, <2>2, <2>7, AscendingAppend DEF Ordered, PipeIsInOrder
    <2>9. Precedes(signals', calls')
      BY <1>1, <2>1, <2>3, <2>7 DEF Ordered, PipeIsInOrder, Precedes
    <2>10. QED
      BY <1>1, <2>3, <2>5, <2>6, <2>8, <2>9 DEF Ordered, PipeIsInOrder
  <1>5. QED
    BY <1>1, <1>2, <1>3, <1>4 DEF PostsNothing

(* The worker takes the oldest request and answers it. *)
ServedAs(answer) ==
  /\ calls # <<>>
  /\ calls' = Tail(calls)
  /\ signals' = Append(signals, answer)
  /\ answer \in PaneSignals
  /\ answer.id = Head(calls).id
  /\ answer.kind \in
       CASE Head(calls).kind = "start"  -> {"ready", "failed"}
         [] Head(calls).kind = "list"   -> {"listingReady", "operationFailed"}
         [] Head(calls).kind = "mutate" -> {"operationFinished", "operationFailed"}

LEMMA ServeAnswers ==
  ASSUME Types, Ordered, Serve
  PROVE  \E answer : ServedAs(answer)
  <1>0. calls \in Seq(PaneCalls) /\ calls # <<>>
    BY DEF Types, Serve, ServeStart, ServeList, ServeMutation
  <1>1. Head(calls).id \in Nat
    <2>1. Head(calls) \in PaneCalls
      BY <1>0, HeadKnown
    <2>2. QED
      BY <2>1 DEF PaneCalls
  <1>2. CASE ServeStart
    <2>1. PICK kind \in {"ready", "failed"} : signals' = Append(signals, Answer(kind, 0))
      BY <1>2 DEF ServeStart
    <2>2. Head(calls).id = 0
      BY <1>0, <1>2, HeadKnown DEF ServeStart, Ordered, CallsAreKnown
    <2>3. ServedAs(Answer(kind, 0))
      BY <1>0, <1>2, <2>1, <2>2, AnswerTyped DEF ServeStart, ServedAs
    <2>4. QED
      BY <2>3
  <1>3. CASE ServeList
    <2>1. PICK kind \in {"listingReady", "operationFailed"} :
            signals' = Append(signals, Answer(kind, Head(calls).id))
      BY <1>3 DEF ServeList
    <2>2. ServedAs(Answer(kind, Head(calls).id))
      BY <1>0, <1>1, <1>3, <2>1, AnswerTyped DEF ServeList, ServedAs
    <2>3. QED
      BY <2>2
  <1>4. CASE ServeMutation
    <2>1. PICK kind \in {"operationFinished", "operationFailed"} :
            signals' = Append(signals, Answer(kind, Head(calls).id))
      BY <1>4 DEF ServeMutation
    <2>2. ServedAs(Answer(kind, Head(calls).id))
      BY <1>0, <1>1, <1>4, <2>1, AnswerTyped DEF ServeMutation, ServedAs
    <2>3. QED
      BY <2>2
  <1>5. QED
    BY <1>2, <1>3, <1>4 DEF Serve

LEMMA ServeQueues ==
  ASSUME Types, Ordered, listed' = listed, NEW answer, ServedAs(answer)
  PROVE  /\ Ordered'
         /\ calls' \in Seq(PaneCalls) /\ signals' \in Seq(PaneSignals)
         /\ Elems(calls) = {Head(calls)} \cup Elems(calls')
         /\ Elems(signals') = Elems(signals) \cup {answer}
         /\ Head(calls).kind = "list" => answer.kind \in {"listingReady", "operationFailed"}
  <1>0. /\ calls \in Seq(PaneCalls) /\ signals \in Seq(PaneSignals)
        /\ calls # <<>> /\ calls' = Tail(calls) /\ signals' = Append(signals, answer)
        /\ answer \in PaneSignals /\ answer.id = Head(calls).id
    BY DEF Types, ServedAs
  <1>1. /\ calls' \in Seq(PaneCalls) /\ signals' \in Seq(PaneSignals)
        /\ Elems(calls) = {Head(calls)} \cup Elems(calls')
        /\ Elems(signals') = Elems(signals) \cup {answer}
        /\ Head(calls) \in Elems(calls)
    BY <1>0, HeadKnown, ElemsTail, ElemsAppend
  <1>2. Ascending(calls') /\ \A y \in Elems(calls') : answer.id # 0 /\ y.id # 0
                                                        => answer.id < y.id
    BY <1>0, AscendingTail DEF Ordered, PipeIsInOrder
  <1>3. Ascending(signals')
    <2>1. \A x \in Elems(signals) : answer.id # 0 /\ x.id # 0 => x.id < answer.id
      BY <1>0, <1>1 DEF Ordered, PipeIsInOrder, Precedes
    <2>2. QED
      BY <1>0, <2>1, AscendingAppend DEF Ordered, PipeIsInOrder
  <1>4. Precedes(signals', calls')
    BY <1>1, <1>2 DEF Ordered, PipeIsInOrder, Precedes
  <1>5. /\ Head(calls).kind = "start" => answer.kind \in {"ready", "failed"}
        /\ Head(calls).kind = "list" => answer.kind \in {"listingReady", "operationFailed"}
        /\ Head(calls).kind = "mutate" => answer.kind \in {"operationFinished",
                                                           "operationFailed"}
    BY DEF ServedAs
  <1>6. \/ Head(calls).kind = "start" /\ Head(calls).id = 0
        \/ Head(calls).kind = "list" /\ IsListing(Head(calls).id)
        \/ Head(calls).kind = "mutate" /\ IsMutation(Head(calls).id)
    BY <1>1 DEF Ordered, CallsAreKnown
  <1>7. \A id : IsListing(id)' = IsListing(id) /\ IsMutation(id)' = IsMutation(id)
    BY DEF IsListing, IsMutation
  <1>8. CallsAreKnown'
    BY <1>1, <1>7 DEF Ordered, CallsAreKnown
  <1>9. SignalsAreKnown'
    BY <1>0, <1>1, <1>5, <1>6, <1>7 DEF Ordered, SignalsAreKnown
  <1>10. QED
    BY <1>1, <1>2, <1>3, <1>4, <1>5, <1>8, <1>9 DEF Ordered, PipeIsInOrder

-----------------------------------------------------------------------------
(***************************************************************************)
(* What the pane waits for.                                                *)
(***************************************************************************)
LEMMA AskForInv ==
  ASSUME Types, Ordered, NEW dir \in Dirs, AskFor(dir), signals' = signals \/ Takes
  PROVE  PipeTypes' /\ Ordered' /\ Awaiting'
  <1>1. Posts("list", dir) /\ dir \in Places /\ pending' = nextRequestId /\ loading' = TRUE
    BY DEF AskFor, Posts, Places
  <1>2. /\ Ordered' /\ calls' \in Seq(PaneCalls) /\ signals' \in Seq(PaneSignals)
    BY <1>1, GuiQueues
  <1>3. /\ listed' \in Seq(Places)
        /\ Len(listed') = Len(listed) + 1
        /\ nextRequestId = Len(listed) + 1
        /\ nextRequestId' = Len(listed') + 1
        /\ \A id : id = nextRequestId => IsListing(id)'
    BY <1>1, GrownList
  <1>4. Len(listed) \in Nat /\ calls \in Seq(PaneCalls)
    BY DEF Types, TypeOK
  <1>5. PipeTypes'
    BY <1>1, <1>2, <1>3, <1>4 DEF PipeTypes
  <1>6. PendingIsLast'
    <2>1. pending' = Len(listed')
      BY <1>1, <1>3
    <2>2. pending' \in 1..Len(listed') /\ listed'[pending'] # Nowhere
      BY <1>1, <1>3 DEF IsListing
    <2>3. QED
      BY <1>3, <1>4, <2>1, <2>2 DEF PendingIsLast, IsListing
  <1>7. PendingIsAwaited'
    <2>1. calls' = Append(calls, Call("list", nextRequestId))
      BY <1>1 DEF Posts, Post
    <2>2. Call("list", nextRequestId) \in PaneCalls
      BY <1>3, <1>4, CallTyped
    <2>3. Call("list", nextRequestId) \in Elems(calls')
      BY <1>4, <2>1, <2>2, ElemsAppend
    <2>4. QED
      BY <1>1, <2>3 DEF PendingIsAwaited, Call
  <1>8. QED
    BY <1>1, <1>2, <1>3, <1>4, <1>5, <1>6, <1>7 DEF Awaiting

(* A step of the GUI thread that asks for no directory. *)
LEMMA NoAskInv ==
  ASSUME Types, Ordered, Awaiting,
         PostsNothing \/ PostsStart \/ Posts("mutate", Nowhere),
         signals' = signals \/ Takes,
         \/ /\ pending' = pending /\ loading' = loading
            /\ \/ signals' = signals
               \/ Head(signals).id # pending
               \/ Head(signals).kind \notin {"listingReady", "operationFailed"}
         \/ pending' = 0 /\ loading' = FALSE
  PROVE  PipeTypes' /\ Ordered' /\ Awaiting'
  <1>0. /\ TypeOK /\ signals \in Seq(PaneSignals) /\ Nowhere \in Places
        /\ Len(listed) \in Nat
    BY DEF Types, TypeOK, Places
  <1>1. /\ Ordered' /\ calls' \in Seq(PaneCalls) /\ signals' \in Seq(PaneSignals)
        /\ Elems(calls) \subseteq Elems(calls')
    BY <1>0, GuiQueues
  <1>2. /\ nextRequestId' = Len(listed') + 1
        /\ listed' \in Seq(Places)
        /\ Len(listed') \in Nat /\ Len(listed') >= Len(listed)
        /\ \A id \in 1..Len(listed) : listed'[id] = listed[id]
        /\ \A id \in 1..Len(listed') : id \in 1..Len(listed) \/ listed'[id] = Nowhere
    <2>1. CASE listed' = listed /\ nextRequestId' = nextRequestId
      BY <1>0, <2>1 DEF TypeOK
    <2>2. CASE Posts("mutate", Nowhere)
      BY <1>0, <2>2, GrownList
    <2>3. QED
      BY <2>1, <2>2 DEF PostsNothing, PostsStart
  <1>3. PipeTypes'
    <2>1. pending \in 0..Len(listed) /\ loading \in BOOLEAN
      BY DEF Types, TypeOK
    <2>2. pending' \in {0, pending} /\ loading' \in {FALSE, loading}
      OBVIOUS
    <2>3. pending' \in 0..Len(listed')
      BY <1>0, <1>2, <2>1, <2>2
    <2>4. QED
      BY <1>1, <1>2, <2>1, <2>2, <2>3 DEF PipeTypes
  <1>4. CASE pending' = 0 /\ loading' = FALSE
    BY <1>1, <1>3, <1>4 DEF Awaiting, PendingIsLast, PendingIsAwaited
  <1>5. CASE /\ pending' = pending /\ loading' = loading
             /\ \/ signals' = signals
                \/ Head(signals).id # pending
                \/ Head(signals).kind \notin {"listingReady", "operationFailed"}
    <2>1. PendingIsLast'
      BY <1>2, <1>5 DEF Awaiting, PendingIsLast, IsListing
    <2>2. \A x \in Elems(signals) :
            x.id = pending /\ x.kind \in {"listingReady", "operationFailed"}
              => x \in Elems(signals')
      BY <1>0, <1>5, ElemsTail DEF Takes
    <2>3. PendingIsAwaited'
      BY <1>1, <1>5, <2>2 DEF Awaiting, PendingIsAwaited, Call
    <2>4. QED
      BY <1>1, <1>3, <1>5, <2>1, <2>3 DEF Awaiting
  <1>6. QED
    BY <1>4, <1>5

LEMMA ServeInv ==
  ASSUME Types, Ordered, Awaiting, Serve
  PROVE  PipeTypes' /\ Ordered' /\ Awaiting'
  <1>1. PICK answer : ServedAs(answer)
    BY ServeAnswers
  <1>2. UNCHANGED <<nextRequestId, listed, pending, loading>>
    BY DEF Serve, ServeStart, ServeList, ServeMutation, modelVars
  <1>3. /\ Ordered'
        /\ calls' \in Seq(PaneCalls) /\ signals' \in Seq(PaneSignals)
        /\ Elems(calls) = {Head(calls)} \cup Elems(calls')
        /\ Elems(signals') = Elems(signals) \cup {answer}
        /\ Head(calls).kind = "list" => answer.kind \in {"listingReady", "operationFailed"}
        /\ answer.id = Head(calls).id
    BY <1>1, <1>2, ServeQueues DEF ServedAs
  <1>4. PipeTypes'
    BY <1>2, <1>3 DEF PipeTypes, Types, TypeOK
  <1>5. PendingIsLast'
    BY <1>2 DEF Awaiting, PendingIsLast, IsListing
  <1>6. PendingIsAwaited'
    <2>1. CASE Head(calls) = Call("list", pending)
      BY <1>2, <1>3, <2>1 DEF PendingIsAwaited, Call
    <2>2. CASE Head(calls) # Call("list", pending)
      BY <1>2, <1>3, <2>2 DEF Awaiting, PendingIsAwaited, Call
    <2>3. QED
      BY <2>1, <2>2
  <1>7. QED
    BY <1>2, <1>3, <1>4, <1>5, <1>6 DEF Awaiting

-----------------------------------------------------------------------------
(***************************************************************************)
(* What is shown, and the history.                                         *)
(***************************************************************************)

(* A new place at the end of what lies behind the present one. *)
LEMMA HistoryGrows ==
  ASSUME history \in Seq(Places), at \in DOMAIN history, NeighboursDiffer,
         NEW dir \in Places, PushHistory(dir)
  PROVE  /\ history' \in Seq(Places)
         /\ at' \in DOMAIN history'
         /\ NeighboursDiffer'
         /\ history'[at'] = dir
  <1>1. CASE history[at] = dir /\ UNCHANGED <<history, at>>
    BY <1>1 DEF NeighboursDiffer
  <1>2. CASE /\ history[at] # dir
             /\ history' = Append(SubSeq(history, 1, at), dir)
             /\ at' = at + 1
    <2>1. at \in 1..Len(history) /\ Len(history) \in Nat
      OBVIOUS
    <2>2. /\ SubSeq(history, 1, at) \in Seq(Places)
          /\ Len(SubSeq(history, 1, at)) = at
          /\ \A i \in 1..at : SubSeq(history, 1, at)[i] = history[i]
      BY <2>1
    <2> DEFINE kept == SubSeq(history, 1, at)
    <2> HIDE DEF kept
    <2>3. /\ history' \in Seq(Places)
          /\ Len(history') = at + 1
          /\ \A i \in 1..at : history'[i] = history[i]
          /\ history'[at + 1] = dir
      <3>1. history' = Append(kept, dir)
        BY <1>2 DEF kept
      <3>2. kept \in Seq(Places) /\ Len(kept) = at /\ \A i \in 1..at : kept[i] = history[i]
        BY <2>2 DEF kept
      <3>3. QED
        BY <2>1, <3>1, <3>2
    <2>4. at' \in DOMAIN history' /\ history'[at'] = dir
      BY <1>2, <2>1, <2>3
    <2>5. \A i \in 1..(Len(history') - 1) : history'[i] # history'[i + 1]
      <3>1. ASSUME NEW i \in 1..at
            PROVE  history'[i] # history'[i + 1]
        <4>1. CASE i = at
          BY <1>2, <2>1, <2>3, <4>1
        <4>2. CASE i < at
          <5>1. i \in 1..(Len(history) - 1) /\ i \in 1..at /\ i + 1 \in 1..at
            BY <2>1, <4>2
          <5>2. history[i] # history[i + 1]
            BY <5>1 DEF NeighboursDiffer
          <5>3. QED
            BY <2>3, <5>1, <5>2
        <4>3. QED
          BY <2>1, <4>1, <4>2
      <3>2. QED
        BY <2>1, <2>3, <3>1
    <2>6. QED
      BY <2>3, <2>4, <2>5 DEF NeighboursDiffer
  <1>3. QED
    BY <1>1, <1>2 DEF PushHistory

LEMMA ShowListingIsLast ==
  ASSUME Inv, ShowListing
  PROVE  /\ pending # 0 /\ IsListing(pending)
         /\ listed[pending] \in Dirs
         /\ signals # <<>> /\ Head(signals).id = pending
  <1>1. /\ signals # <<>> /\ Head(signals).id = pending /\ Head(signals).kind = "listingReady"
        /\ signals \in Seq(PaneSignals) /\ listed \in Seq(Places)
    BY DEF ShowListing, Arrives, Inv, Types, TypeOK
  <1>2. Head(signals) \in Elems(signals)
    BY <1>1, HeadKnown
  <1>3. IsListing(pending)
    BY <1>1, <1>2 DEF Inv, Ordered, SignalsAreKnown
  <1>4. QED
    BY <1>1, <1>3 DEF IsListing, Places

(* A step that shows nothing new. *)
LEMMA SameView ==
  ASSUME Inv, connected' \in BOOLEAN, starts' \in 0..MaxStarts,
         path' = path, shown' \in {shown, Nowhere},
         history' = history, at' \in DOMAIN history, buttons' = buttons, wanted' \in Places
  PROVE  ViewTypes'
  BY DEF Inv, Types, TypeOK, ViewTypes, NeighboursDiffer

LEMMA UserInv ==
  ASSUME Inv, UserStep
  PROVE  Inv'
  <1>0. /\ Types /\ Ordered /\ Awaiting /\ TypeOK /\ UNCHANGED <<signals, path, shown, history>>
        /\ RootDir \in Dirs /\ Dirs \subseteq Places
    BY PaneAssumption
       DEF Inv, Types, UserStep, Navigate, Back, Forward, MoveInHistory, Refresh, Mutate,
           UploadLanded, Start, viewVars, Places
  <1>1. ViewTypes' /\ PipeTypes' /\ Ordered' /\ Awaiting' => Inv'
    BY DEF Inv, Types, TypeOK, ViewTypes, PipeTypes
  <1>2. ASSUME NEW dir \in Dirs, Navigate(dir)
        PROVE  Inv'
    <2>1. PipeTypes' /\ Ordered' /\ Awaiting'
      BY <1>0, <1>2, AskForInv DEF Navigate
    <2>2. ViewTypes'
      BY <1>0, <1>2, SameView DEF Navigate, TypeOK
    <2>3. QED
      BY <1>1, <2>1, <2>2
  <1>3. ASSUME NEW to \in DOMAIN history, MoveInHistory(to)
        PROVE  Inv'
    <2>1. Destination(history[to]) \in Dirs
      BY <1>0 DEF Destination, TypeOK, Places
    <2>2. CASE AskFor(Destination(history[to])) /\ wanted' = Destination(history[to])
      <3>1. PipeTypes' /\ Ordered' /\ Awaiting'
        BY <1>0, <2>1, <2>2, AskForInv
      <3>2. ViewTypes'
        BY <1>0, <1>3, <2>1, <2>2, SameView DEF MoveInHistory, TypeOK
      <3>3. QED
        BY <1>1, <3>1, <3>2
    <2>3. CASE UNCHANGED <<calls, nextRequestId, listed, pending, loading, wanted>>
      <3>1. PipeTypes' /\ Ordered' /\ Awaiting'
        BY <1>0, <1>3, <2>3, NoAskInv DEF MoveInHistory, PostsNothing
      <3>2. ViewTypes'
        BY <1>0, <1>3, <2>3, SameView DEF MoveInHistory, TypeOK
      <3>3. QED
        BY <1>1, <3>1, <3>2
    <2>4. QED
      BY <1>3, <2>2, <2>3 DEF MoveInHistory
  <1>4. CASE Back \/ Forward
    <2>1. at \in 1..Len(history) /\ DOMAIN history = 1..Len(history) /\ Len(history) \in Nat
      BY <1>0 DEF TypeOK
    <2>2. CASE Back
      <3>1. at - 1 \in DOMAIN history
        BY <2>1, <2>2 DEF Back
      <3>2. QED
        BY <1>3, <2>2, <3>1 DEF Back
    <2>3. CASE Forward
      <3>1. at + 1 \in DOMAIN history
        BY <2>1, <2>3 DEF Forward
      <3>2. QED
        BY <1>3, <2>3, <3>1 DEF Forward
    <2>4. QED
      BY <1>4, <2>2, <2>3
  <1>5. CASE Refresh \/ UploadLanded
    <2>1. path \in Dirs /\ AskFor(path)
      BY <1>0, <1>5 DEF Refresh, UploadLanded, CanRefresh, TypeOK, Places
    <2>2. PipeTypes' /\ Ordered' /\ Awaiting'
      BY <1>0, <2>1, AskForInv
    <2>3. ViewTypes'
      BY <1>0, <1>5, SameView DEF Refresh, UploadLanded, TypeOK, viewVars
    <2>4. QED
      BY <1>1, <2>2, <2>3
  <1>6. CASE Mutate
    <2>1. Posts("mutate", Nowhere)
      BY <1>6 DEF Mutate, Posts
    <2>2. PipeTypes' /\ Ordered' /\ Awaiting'
      BY <1>0, <1>6, <2>1, NoAskInv DEF Mutate
    <2>3. ViewTypes'
      BY <1>0, <1>6, SameView DEF Mutate, TypeOK, viewVars
    <2>4. QED
      BY <1>1, <2>2, <2>3
  <1>7. CASE Start
    <2>1. PipeTypes' /\ Ordered' /\ Awaiting'
      BY <1>0, <1>7, NoAskInv DEF Start, PostsStart
    <2>2. starts' \in 0..MaxStarts
      BY <1>0, <1>7, PaneAssumption DEF Start, TypeOK
    <2>3. ViewTypes'
      BY <1>0, <1>7, <2>2, SameView DEF Start, TypeOK, viewVars
    <2>4. QED
      BY <1>1, <2>1, <2>3
  <1>8. QED
    BY <1>2, <1>4, <1>5, <1>6, <1>7 DEF UserStep

LEMMA DeliverInv ==
  ASSUME Inv, Deliver
  PROVE  Inv'
  <1>0. /\ Types /\ Ordered /\ Awaiting /\ TypeOK /\ Takes
        /\ HomeDir \in Dirs /\ Dirs \subseteq Places
    BY PaneAssumption
       DEF Inv, Types, Deliver, BecomeReady, BecomeFailed, ShowListing, DropListing,
           ReportFailure, MutationLanded, Arrives, Takes, Places
  <1>1. ViewTypes' /\ PipeTypes' /\ Ordered' /\ Awaiting' => Inv'
    BY DEF Inv, Types, TypeOK, ViewTypes, PipeTypes
  <1>2. CASE BecomeReady
    <2>1. PipeTypes' /\ Ordered' /\ Awaiting'
      BY <1>0, <1>2, AskForInv DEF BecomeReady
    <2>2. ViewTypes'
      BY <1>0, <1>2, SameView DEF BecomeReady, TypeOK
    <2>3. QED
      BY <1>1, <2>1, <2>2
  <1>3. CASE BecomeFailed
    <2>1. PipeTypes' /\ Ordered' /\ Awaiting'
      BY <1>0, <1>3, NoAskInv DEF BecomeFailed, PostsNothing, Arrives
    <2>2. ViewTypes'
      BY <1>0, <1>3, SameView DEF BecomeFailed, TypeOK, viewVars
    <2>3. QED
      BY <1>1, <2>1, <2>2
  <1>4. CASE ShowListing
    <2>1. listed[pending] \in Dirs /\ Apply(listed[pending])
      BY <1>4, ShowListingIsLast DEF ShowListing
    <2> DEFINE dir == listed[pending]
    <2> HIDE DEF dir
    <2>2. Apply(dir) /\ dir \in Places
      BY <1>0, <2>1 DEF dir
    <2>3. PipeTypes' /\ Ordered' /\ Awaiting'
      BY <1>0, <2>2, NoAskInv DEF Apply, PostsNothing
    <2>4. history' \in Seq(Places) /\ at' \in DOMAIN history' /\ NeighboursDiffer'
      BY <1>0, <2>2, HistoryGrows DEF Apply, TypeOK, NeighboursDiffer
    <2>5. buttons' \subseteq {"back", "forward"}
      BY <1>0, <2>2 DEF Apply, TypeOK
    <2>6. ViewTypes'
      BY <1>0, <2>2, <2>4, <2>5 DEF Apply, TypeOK, ViewTypes
    <2>7. QED
      BY <1>1, <2>3, <2>6
  <1>5. CASE DropListing
    <2>1. PipeTypes' /\ Ordered' /\ Awaiting'
      BY <1>0, <1>5, NoAskInv DEF DropListing, PostsNothing, modelVars
    <2>2. ViewTypes'
      BY <1>0, <1>5, SameView DEF DropListing, TypeOK, modelVars, viewVars
    <2>3. QED
      BY <1>1, <2>1, <2>2
  <1>6. CASE ReportFailure
    <2>1. PipeTypes' /\ Ordered' /\ Awaiting'
      BY <1>0, <1>6, NoAskInv DEF ReportFailure, PostsNothing
    <2>2. ViewTypes'
      BY <1>0, <1>6, SameView DEF ReportFailure, TypeOK, viewVars
    <2>3. QED
      BY <1>1, <2>1, <2>2
  <1>7. CASE MutationLanded
    <2>1. PipeTypes' /\ Ordered' /\ Awaiting'
      <3>1. CASE CanRefresh /\ AskFor(path)
        <4>1. path \in Dirs
          BY <1>0, <3>1 DEF CanRefresh, TypeOK, Places
        <4>2. QED
          BY <1>0, <3>1, <4>1, AskForInv
      <3>2. CASE UNCHANGED <<calls, nextRequestId, listed, pending, loading>>
        BY <1>0, <1>7, <3>2, NoAskInv DEF MutationLanded, PostsNothing, Arrives
      <3>3. QED
        BY <1>7, <3>1, <3>2 DEF MutationLanded
    <2>2. ViewTypes'
      BY <1>0, <1>7, SameView DEF MutationLanded, TypeOK, viewVars
    <2>3. QED
      BY <1>1, <2>1, <2>2
  <1>8. QED
    BY <1>2, <1>3, <1>4, <1>5, <1>6, <1>7 DEF Deliver

LEMMA StepInv ==
  ASSUME Inv, [Next]_vars
  PROVE  Inv'
  <1>0. Types /\ Ordered /\ Awaiting /\ TypeOK
    BY DEF Inv, Types
  <1>1. ViewTypes' /\ PipeTypes' /\ Ordered' /\ Awaiting' => Inv'
    BY DEF Inv, Types, TypeOK, ViewTypes, PipeTypes
  <1>2. CASE Serve
    <2>1. ViewTypes'
      BY <1>0, <1>2, SameView DEF Serve, modelVars, viewVars, TypeOK
    <2>2. QED
      BY <1>0, <1>1, <1>2, <2>1, ServeInv
  <1>3. CASE UNCHANGED vars
    <2>1. ViewTypes'
      BY <1>0, <1>3, SameView DEF vars, modelVars, viewVars, TypeOK
    <2>2. PipeTypes' /\ Ordered' /\ Awaiting'
      BY <1>0, <1>3, NoAskInv DEF vars, pipeVars, modelVars, PostsNothing
    <2>3. QED
      BY <1>1, <2>1, <2>2
  <1>4. QED
    BY <1>2, <1>3, UserInv, DeliverInv DEF Next

LEMMA InitInv == Init => Inv
  <1> SUFFICES ASSUME Init
               PROVE  Inv
    OBVIOUS
  <1>1. Elems(calls) = {} /\ Elems(signals) = {}
    BY DEF Init, PipeInit, Elems
  <1>2. Ordered
    BY <1>1 DEF Init, PipeInit, Ordered, CallsAreKnown, SignalsAreKnown, PipeIsInOrder,
                Ascending, Precedes
  <1>3. Awaiting
    BY DEF Init, Awaiting, PendingIsLast, PendingIsAwaited
  <1>4. Types
    <2>1. /\ history = <<Nowhere>> /\ Len(history) = 1 /\ Nowhere \in Places
          /\ history \in Seq(Places) /\ at \in DOMAIN history
      BY DEF Init, Places
    <2>2. NeighboursDiffer
      BY <2>1 DEF NeighboursDiffer
    <2>3. /\ listed = <<>> /\ Len(listed) = 0 /\ listed \in Seq(Places) /\ nextRequestId = 1
          /\ calls = <<>> /\ calls \in Seq(PaneCalls)
          /\ signals = <<>> /\ signals \in Seq(PaneSignals)
      BY DEF Init, PipeInit
    <2>4. starts \in 0..MaxStarts /\ pending \in 0..Len(listed)
      BY <2>3, PaneAssumption DEF Init
    <2>5. /\ connected \in BOOLEAN /\ loading \in BOOLEAN /\ buttons \subseteq {"back", "forward"}
          /\ path \in Places /\ shown \in {path, Nowhere} /\ wanted \in Places
      BY <2>1 DEF Init
    <2>6. nextRequestId = Len(listed) + 1
      BY <2>3
    <2>7. TypeOK
      BY <2>1, <2>2, <2>3, <2>4, <2>5, <2>6 DEF TypeOK
    <2>8. QED
      BY <2>3, <2>7 DEF Types
  <1>5. QED
    BY <1>2, <1>3, <1>4 DEF Inv

(***************************************************************************)
(* The types, the order of what is in the pipe, and what the pane waits    *)
(* for, hold in every reachable state.                                     *)
(***************************************************************************)
THEOREM Invariance == Spec => []Inv
  BY InitInv, StepInv, PTL DEF Spec

(***************************************************************************)
(* Every variable keeps its type; what is listed is the directory shown;   *)
(* and no two neighbours in the history are the same directory, whichever  *)
(* listings failed or came too late (FilePane.cpp:485-487).                *)
(***************************************************************************)
THEOREM TypeCorrect == Spec => []TypeOK
  <1>1. Inv => TypeOK
    BY DEF Inv, Types
  <1>2. QED
    BY <1>1, Invariance, PTL

(***************************************************************************)
(* The pane shows that it is loading exactly while it waits for one        *)
(* answer, which is still to come: no start, failure or mutation in        *)
(* between makes it forget the request or wait for one that was answered   *)
(* (RemoteFileModel.cpp:29-44).                                            *)
(***************************************************************************)
THEOREM LoadingIsAwaitedCorrect == Spec => []LoadingIsAwaited
  <1>1. Inv => LoadingIsAwaited
    <2> SUFFICES ASSUME Inv
                 PROVE  LoadingIsAwaited
      OBVIOUS
    <2>1. DOMAIN calls = 1..Len(calls) /\ DOMAIN signals = 1..Len(signals)
      BY DEF Inv, Types
    <2>2. QED
      BY <2>1 DEF Inv, Awaiting, PendingIsAwaited, Elems, LoadingIsAwaited
  <1>2. QED
    BY <1>1, Invariance, PTL

(***************************************************************************)
(* What comes up is what was asked for last, and the history stands at it  *)
(* until Back or Forward moves away: for every step of every run           *)
(* (RemoteFileModel.hpp:64, FilePane.cpp:484).                             *)
(***************************************************************************)
LEMMA ShowsTheLastAsked ==
  ASSUME Inv, ShowListing
  PROVE  /\ \A i \in DOMAIN calls : calls[i].kind # "list"
         /\ \A i \in 2..Len(signals) :
              signals[i].id # 0 => listed[signals[i].id] = Nowhere
         /\ path' # path => history'[at'] = path'
         /\ history[at] = path => history'[at'] = path'
  <1>0. /\ TypeOK /\ calls \in Seq(PaneCalls) /\ signals \in Seq(PaneSignals)
        /\ Ordered /\ Len(listed) \in Nat
    BY DEF Inv, Types, TypeOK
  <1>1. pending # 0 /\ listed[pending] \in Dirs /\ signals # <<>> /\ Head(signals).id = pending
    BY ShowListingIsLast
  <1>2. \A id \in 1..Len(listed) : id > pending => listed[id] = Nowhere
    BY <1>1 DEF Inv, Awaiting, PendingIsLast
  <1>3. pending \in Nat
    BY <1>0 DEF TypeOK
  <1>4. \A call \in Elems(calls) : call.kind # "list"
    <2>1. Head(signals) \in Elems(signals)
      BY <1>0, <1>1, HeadKnown
    <2>2. \A call \in Elems(calls) : call.kind = "list" => IsListing(call.id) /\ pending < call.id
      BY <1>0, <1>1, <2>1 DEF Ordered, CallsAreKnown, PipeIsInOrder, Precedes, IsListing
    <2>3. QED
      BY <1>2, <2>2 DEF IsListing
  <1>5. \A signal \in Elems(Tail(signals)) : signal.id # 0 => listed[signal.id] = Nowhere
    <2>1. /\ Elems(Tail(signals)) \subseteq Elems(signals)
          /\ \A y \in Elems(Tail(signals)) : y.id # 0 => pending < y.id
      BY <1>0, <1>1, HeadKnown, AscendingTail DEF Ordered, PipeIsInOrder
    <2>2. \A y \in Elems(signals) : y.id # 0 => y.id \in 1..Len(listed)
      BY <1>0 DEF Ordered, SignalsAreKnown, IsListing, IsMutation
    <2>3. QED
      BY <1>2, <2>1, <2>2
  <1>6. \A i \in 2..Len(signals) : signals[i] \in Elems(Tail(signals))
    <2>1. /\ Len(signals) \in Nat \ {0} /\ Len(Tail(signals)) = Len(signals) - 1
          /\ \A i \in 1..(Len(signals) - 1) : Tail(signals)[i] = signals[i + 1]
      BY <1>0, <1>1, TailEntries
    <2>2. \A i \in 2..Len(signals) : i - 1 \in 1..(Len(signals) - 1) /\ (i - 1) + 1 = i
      BY <2>1
    <2>3. QED
      BY <2>1, <2>2 DEF Elems
  <1>7. DOMAIN calls = 1..Len(calls)
    BY <1>0
  <1>8. /\ path' # path => history'[at'] = path'
        /\ history[at] = path => history'[at'] = path'
    <2> DEFINE dir == listed[pending]
    <2>1. Apply(dir) /\ dir \in Places
      BY <1>1 DEF ShowListing, Places
    <2> HIDE DEF dir
    <2>2. dir # path => history'[at'] = dir
      BY <1>0, <2>1, HistoryGrows DEF Apply, TypeOK
    <2>3. QED
      BY <2>1, <2>2 DEF Apply
  <1>9. QED
    BY <1>4, <1>5, <1>6, <1>7, <1>8 DEF Elems

(***************************************************************************)
(* A directory comes up only if it was the last one asked for, by the user *)
(* or the program, with nothing about another still on its way, and the    *)
(* history then stands at it (RemoteFileModel.cpp:29-44, FilePane.cpp:484).*)
(***************************************************************************)
THEOREM ShownIsTheLastAskedCorrect == Spec => ShownIsTheLastAsked
  <1> DEFINE Shows ==
        /\ path' # path =>
             /\ \A i \in DOMAIN calls : calls[i].kind # "list"
             /\ \A i \in 2..Len(signals) :
                  signals[i].id # 0 => listed[signals[i].id] = Nowhere
             /\ history'[at'] = path'
        /\ history[at] = path /\ history'[at'] # path' => Back \/ Forward
  <1>1. Inv /\ [Next]_vars => [Shows]_vars
    <2> SUFFICES ASSUME Inv, Next
                 PROVE  Shows
      OBVIOUS
    <2>1. CASE ShowListing
      BY <2>1, ShowsTheLastAsked
    <2>2. CASE Back \/ Forward
      BY <2>2 DEF Back, Forward, MoveInHistory
    <2>3. CASE ~ShowListing /\ ~Back /\ ~Forward
      <3>1. UNCHANGED <<path, history, at>>
        BY <2>3 DEF Next, UserStep, Serve, Deliver, Navigate, Refresh, Mutate, UploadLanded,
                    Start, BecomeReady, BecomeFailed, DropListing, ReportFailure,
                    MutationLanded, modelVars, viewVars
      <3>2. QED
        BY <3>1
    <2>4. QED
      BY <2>1, <2>2, <2>3
  <1>2. QED
    BY <1>1, Invariance, PTL DEF Spec, ShownIsTheLastAsked

=============================================================================
