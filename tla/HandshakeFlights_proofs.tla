----------------------- MODULE HandshakeFlights_proofs ----------------------
(***************************************************************************)
(* Proofs about HandshakeFlights, for every number of flights.             *)
(***************************************************************************)
EXTENDS HandshakeFlights, TLAPS

\* The counts of the two ends are at most one apart, and the end that is
\* ahead is the sender of the flight it has counted last.
Alternates ==
    \A e \in Ends :
        /\ count[e] <= count[Other(e)] + 1
        /\ count[e] = count[Other(e)] + 1 => Sender(count[e]) = e

\* An end is over when it has counted all flights, and counts no more.
Counted ==
    \A e \in Ends :
        /\ count[e] <= total
        /\ status[e] = "over" => count[e] = total

IInv == TypeOK /\ Alternates /\ Counted

\* The ends are two, and each is the other of the other.
LEMMA OtherEnd ==
    ASSUME NEW e \in Ends
    PROVE  /\ Other(e) \in Ends
           /\ Other(e) # e
           /\ Other(Other(e)) = e
           /\ \A d \in Ends : d = e \/ d = Other(e)
BY DEF Ends, Other

\* Two flights in a row are not of one sender.
LEMMA SendersAlternate ==
    ASSUME NEW n \in Nat
    PROVE  /\ Sender(n) \in Ends
           /\ Sender(n + 1) # Sender(n)
BY SMT DEF Ends, Sender

LEMMA InitIInv == Init => IInv
BY SMT DEF Init, IInv, TypeOK, Alternates, Counted, Ends, Other, Sender

\* Sending: only the end that is not ahead has a flight to send.
LEMMA SendIInv ==
    ASSUME IInv, NEW e \in Ends, Send(e)
    PROVE  IInv'
<1> DEFINE o == Other(e)
<1>1. o \in Ends /\ o # e /\ Other(o) = e /\ \A d \in Ends : d = e \/ d = o
  BY OtherEnd
<1>2. count[e] \in Nat /\ count[o] \in Nat /\ total \in Nat
  BY <1>1 DEF IInv, TypeOK
<1>3. count' = [count EXCEPT ![e] = count[e] + 1] /\ total' = total /\ status' = status
  BY DEF Send
<1>4. count'[e] = count[e] + 1 /\ count'[o] = count[o]
  BY <1>1, <1>3 DEF IInv, TypeOK
<1>5. count[e] <= count[o] /\ (count[o] = count[e] + 1 => FALSE)
  <2>1. Sender(count[e] + 1) = e /\ Sender(count[e]) # e
    BY <1>2, SendersAlternate DEF Send
  <2>2. count[e] # count[o] + 1
    BY <2>1, <1>1 DEF IInv, Alternates
  <2>3. count[o] # count[e] + 1
    BY <2>1, <1>1 DEF IInv, Alternates
  <2>4. count[e] <= count[o] + 1
    BY <1>1 DEF IInv, Alternates
  <2> QED
    BY <2>2, <2>3, <2>4, <1>2
<1>6. TypeOK'
  BY <1>2, <1>3 DEF IInv, TypeOK
<1>7. Alternates'
  <2>1. Sender(count'[e]) = e
    BY <1>4 DEF Send
  <2>2. count[o] <= count[e] + 1
    BY <1>1 DEF IInv, Alternates
  <2>3. count'[e] <= count'[o] + 1 /\ count'[o] <= count'[e]
    BY <2>2, <1>2, <1>4, <1>5
  <2> QED
    BY <2>1, <2>3, <1>1, <1>2, <1>4 DEF Alternates
<1>8. Counted'
  <2>1. status[e] = "running" /\ count[e] < total
    BY DEF Send
  <2> QED
    BY <2>1, <1>1, <1>2, <1>3, <1>4 DEF IInv, Counted
<1> QED
  BY <1>6, <1>7, <1>8 DEF IInv

\* Accepting: the end that is behind catches up.
LEMMA AcceptIInv ==
    ASSUME IInv, NEW e \in Ends, Accept(e)
    PROVE  IInv'
<1> DEFINE o == Other(e)
<1>1. o \in Ends /\ o # e /\ Other(o) = e /\ \A d \in Ends : d = e \/ d = o
  BY OtherEnd
<1>2. count[e] \in Nat /\ count[o] \in Nat /\ total \in Nat
  BY <1>1 DEF IInv, TypeOK
<1>3. count' = [count EXCEPT ![e] = count[e] + 1] /\ total' = total /\ status' = status
  BY DEF Accept
<1>4. count'[e] = count[e] + 1 /\ count'[o] = count[o]
  BY <1>1, <1>3 DEF IInv, TypeOK
<1>5. count'[e] = count'[o]
  <2>1. count[e] < count[o]
    BY DEF Accept
  <2>2. count[o] <= count[e] + 1
    BY <1>1 DEF IInv, Alternates
  <2> QED
    BY <2>1, <2>2, <1>2, <1>4
<1>6. TypeOK'
  BY <1>2, <1>3 DEF IInv, TypeOK
<1>7. Alternates'
  BY <1>1, <1>2, <1>4, <1>5 DEF Alternates
<1>8. Counted'
  <2>1. count'[e] <= total /\ count'[o] <= total
    BY <1>1, <1>4, <1>5 DEF IInv, Counted
  <2>2. status[e] = "running"
    BY DEF Accept
  <2> QED
    BY <2>1, <2>2, <1>1, <1>3, <1>4 DEF IInv, Counted
<1> QED
  BY <1>6, <1>7, <1>8 DEF IInv

LEMMA FinishIInv ==
    ASSUME IInv, NEW e \in Ends, Finish(e)
    PROVE  IInv'
BY DEF Finish, IInv, TypeOK, Alternates, Counted

LEMMA GiveUpIInv ==
    ASSUME IInv, NEW e \in Ends, GiveUp(e)
    PROVE  IInv'
BY DEF GiveUp, IInv, TypeOK, Alternates, Counted

THEOREM Inductive == Spec => []IInv
<1>1. IInv /\ [Next]_vars => IInv'
  <2> SUFFICES ASSUME IInv, [Next]_vars PROVE IInv'
    OBVIOUS
  <2>1. CASE UNCHANGED vars
    BY <2>1 DEF vars, IInv, TypeOK, Alternates, Counted
  <2>2. CASE Next
    BY <2>2, SendIInv, AcceptIInv, FinishIInv, GiveUpIInv DEF Next
  <2> QED
    BY <2>1, <2>2
<1> QED
  BY InitIInv, <1>1, PTL DEF Spec

\* However many flights a handshake has, its two ends never both wait for the
\* other: the sessions under pump_handshake need no rule of whose turn it is.
THEOREM NoStandoff == Spec => []NeverBothWait
<1>1. IInv => NeverBothWait
  <2> SUFFICES ASSUME IInv, \A e \in Ends : Waits(e) PROVE FALSE
    BY DEF NeverBothWait
  <2> DEFINE c == "client"
             s == "server"
  <2>1. Waits(c) /\ Waits(s) /\ Other(c) = s /\ Other(s) = c
    BY DEF Ends, Other
  <2>2. count[c] \in Nat /\ count[s] \in Nat
    BY DEF IInv, TypeOK, Ends
  <2>3. count[c] = count[s]
    BY <2>1, <2>2 DEF Waits
  <2>4. Sender(count[c] + 1) = s /\ Sender(count[s] + 1) = c
    BY <2>1 DEF Waits
  <2> QED
    BY <2>3, <2>4
<1> QED
  BY Inductive, <1>1, PTL

\* An end whose handshake is over lacks nothing of its peer: connect and accept
\* hand out a stream only when every flight but, at most, the last has been
\* taken by both.
THEOREM OverIsComplete == Spec => []OverMeansComplete
<1>1. IInv => OverMeansComplete
  <2> SUFFICES ASSUME IInv, NEW e \in Ends, status[e] = "over"
               PROVE  count[Other(e)] + 1 >= total
    BY DEF OverMeansComplete
  <2>1. count[e] = total /\ count[e] <= count[Other(e)] + 1
    BY DEF IInv, Alternates, Counted
  <2>2. count[Other(e)] \in Nat /\ total \in Nat
    BY OtherEnd DEF IInv, TypeOK
  <2> QED
    BY <2>1, <2>2
<1> QED
  BY Inductive, <1>1, PTL

=============================================================================
