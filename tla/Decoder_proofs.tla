--------------------------- MODULE Decoder_proofs ---------------------------
(***************************************************************************)
(* Theorems about Decoder, for every set of messages, methods and          *)
(* requests and for every width of integers.                               *)
(***************************************************************************)
EXTENDS Decoder, Converters_proofs

(* The decoder's place: every step before the one it is at can do without  *)
(* a fault, and what it has returned, if not the message, is a fault of    *)
(* the step it is at.                                                      *)
Progress ==
  /\ call.rpc \in DOMAIN Rpcs
  /\ at \in 0..(Len(steps) + 1)
  /\ \A i \in 0..(at - 1) : "no" \in FaultsAt(i)
  /\ \/ outcome = "decoding"
     \/ outcome = "ok" /\ at = Len(steps) + 1
     \/ outcome \in FaultsAt(at) \ {"no"} /\ at <= Len(steps)

(* What the steps so far have left of the body, and what they have added.  *)
KeptBefore(n) ==
  \A p \in DOMAIN Body :
    (\A i \in DOMAIN steps : i < n => ~Contends(steps[i], p))
      => p \in DOMAIN msg /\ msg[p] = Body[p]

AddedBefore(n) ==
  \A p \in DOMAIN msg \ DOMAIN Body :
    \E i \in DOMAIN steps : i < n /\ ~Skipped(steps[i]) /\ IsPrefix(p, PathOf(steps[i]))

Merged ==
  /\ at = 0 => msg = <<>>
  /\ at > 0 => KeptBefore(at) /\ AddedBefore(at)

-----------------------------------------------------------------------------
LEMMA StepsAreSteps ==
  ASSUME call.rpc \in DOMAIN Rpcs
  PROVE  /\ steps \in Seq(StepType)
         /\ Len(steps) \in Nat /\ DOMAIN steps = 1..Len(steps)
<1>1. steps \in Seq(StepType)
  BY RpcsAssumption DEF steps, Generated
<1>2. QED
  BY <1>1

LEMMA FaultNames ==
  ASSUME NEW i
  PROVE  FaultsAt(i) \subseteq {"no", "InvalidArgument", "error"}
<1>1. CASE i = 0
  BY <1>1 DEF FaultsAt, BodyFault
<1>2. CASE i # 0
  BY <1>2 DEF FaultsAt, FaultsOf
<1>3. QED
  BY <1>1, <1>2

(* What the request and the method say does not change.                    *)
LEMMA CallStays ==
  ASSUME call' = call
  PROVE  /\ steps' = steps /\ rpc' = rpc /\ Body' = Body
         /\ \A i : FaultsAt(i)' = FaultsAt(i)
         /\ \A i, p : Contends(steps[i], p)' = Contends(steps[i], p)
         /\ \A i : Skipped(steps[i])' = Skipped(steps[i])
         /\ \A i : PathOf(steps[i])' = PathOf(steps[i])
<1>1. steps' = steps /\ rpc' = rpc /\ Body' = Body
  BY DEF steps, rpc, Body
<1>2. ASSUME NEW i PROVE TextOf(steps[i])' = TextOf(steps[i])
  BY <1>1 DEF TextOf
<1>3. ASSUME NEW i PROVE PathOf(steps[i])' = PathOf(steps[i])
  BY <1>1 DEF PathOf
<1>4. ASSUME NEW p PROVE Field(p)' = Field(p)
  BY <1>1 DEF Field
<1>5. ASSUME NEW i PROVE Skipped(steps[i])' = Skipped(steps[i])
  BY <1>1, <1>2 DEF Skipped
<1>6. ASSUME NEW i PROVE Along(steps[i])' = Along(steps[i])
  BY <1>1, <1>3, <1>4 DEF Along
<1>7. ASSUME NEW i PROVE Ends(steps[i])' = Ends(steps[i])
  BY <1>1, <1>3, <1>4, <1>6 DEF Ends
<1>8. ASSUME NEW i, NEW p, NEW v PROVE Bytes(steps[i], p, v)' = Bytes(steps[i], p, v)
  BY <1>1, <1>3 DEF Bytes
<1>9. ASSUME NEW i
      PROVE  LET v == Convert(steps[i].conv, TextOf(steps[i]))[1] IN
             /\ CanTake(steps[i], v)' = CanTake(steps[i], v)
             /\ CanRefuse(steps[i], v)' = CanRefuse(steps[i], v)
  BY <1>1, <1>2, <1>4, <1>7, <1>8 DEF CanTake, CanRefuse
<1>10. ASSUME NEW i PROVE FaultsAt(i)' = FaultsAt(i)
  <2>1. BodyFault' = BodyFault
    BY <1>1 DEF BodyFault
  <2>2. FaultsOf(steps[i])' = FaultsOf(steps[i])
    BY <1>1, <1>2, <1>5, <1>9 DEF FaultsOf
  <2>3. QED
    BY <1>1, <2>1, <2>2 DEF FaultsAt
<1>11. ASSUME NEW p, NEW q PROVE Rival(rpc.in, p, q)' = Rival(rpc.in, p, q)
  BY <1>1 DEF Rival
<1>12. ASSUME NEW i, NEW p PROVE Contends(steps[i], p)' = Contends(steps[i], p)
  BY <1>5, <1>6, <1>7, <1>11 DEF Contends
<1>13. QED
  BY <1>1, <1>3, <1>5, <1>10, <1>12

-----------------------------------------------------------------------------
LEMMA InitProgress == Init => Progress
<1> SUFFICES ASSUME Init PROVE Progress
  OBVIOUS
<1>1. call.rpc \in DOMAIN Rpcs /\ at = 0 /\ outcome = "decoding"
  BY CallsAssumption DEF Init
<1>2. Len(steps) \in Nat
  BY <1>1, StepsAreSteps
<1>3. QED
  BY <1>1, <1>2 DEF Progress

LEMMA StepProgress == Progress /\ [Next]_vars => Progress'
<1> SUFFICES ASSUME Progress, [Next]_vars PROVE Progress'
  OBVIOUS
<1>1. call' = call
  BY DEF Next, ReadBody, RefuseBody, MergeParam, Return, vars
<1>2. /\ call.rpc \in DOMAIN Rpcs /\ call'.rpc \in DOMAIN Rpcs
      /\ at \in 0..(Len(steps) + 1)
      /\ \A i \in 0..(at - 1) : "no" \in FaultsAt(i)
  BY <1>1 DEF Progress
<1>3. /\ steps \in Seq(StepType)
      /\ Len(steps) \in Nat /\ DOMAIN steps = 1..Len(steps)
  BY <1>2, StepsAreSteps
<1>4. /\ Len(steps') = Len(steps)
      /\ \A i : FaultsAt(i)' = FaultsAt(i)
  BY <1>1, CallStays
<1>5. CASE ReadBody
  <2>1. "no" \in FaultsAt(0)
    BY <1>5 DEF ReadBody, FaultsAt, BodyFault
  <2>2. at = 0 /\ at' = 1 /\ outcome' = "decoding"
    BY <1>5 DEF ReadBody
  <2>3. QED
    BY <1>2, <1>3, <1>4, <2>1, <2>2 DEF Progress
<1>6. CASE RefuseBody
  <2>1. outcome' \in FaultsAt(0) \ {"no"}
    BY <1>6 DEF RefuseBody, FaultsAt, BodyFault
  <2>2. at = 0 /\ at' = 0
    BY <1>6 DEF RefuseBody
  <2>3. QED
    BY <1>2, <1>3, <1>4, <2>2, <2>1 DEF Progress
<1>7. CASE MergeParam
  <2> DEFINE step == steps[at]
             value == Convert(step.conv, TextOf(step))
  <2>1. at \in DOMAIN steps /\ outcome = "decoding" /\ at # 0
    BY <1>3, <1>7 DEF MergeParam
  <2>2. FaultsAt(at) = FaultsOf(step)
    BY <2>1 DEF FaultsAt
  <2>3. FaultsOf(step) = IF Skipped(step) THEN {"no"}
                         ELSE IF value = <<>> THEN {"InvalidArgument"}
                         ELSE {fault \in {"no", "error"} :
                                 IF fault = "no" THEN CanTake(step, value[1])
                                 ELSE CanRefuse(step, value[1])}
    BY DEF FaultsOf
  <2>4. IF Skipped(step) THEN at' = at + 1 /\ UNCHANGED <<msg, outcome>>
        ELSE IF value = <<>> THEN outcome' = "InvalidArgument" /\ UNCHANGED <<msg, at>>
        ELSE \/ CanRefuse(step, value[1]) /\ outcome' = "error" /\ UNCHANGED <<msg, at>>
             \/ CanTake(step, value[1]) /\ at' = at + 1 /\ UNCHANGED outcome
    BY <1>7 DEF MergeParam
  <2> HIDE DEF step, value
  <2>5. \/ "no" \in FaultsAt(at) /\ at' = at + 1 /\ outcome' = "decoding"
        \/ at' = at /\ outcome' \in FaultsAt(at) \ {"no"}
    BY <2>1, <2>2, <2>3, <2>4
  <2>6. CASE "no" \in FaultsAt(at) /\ at' = at + 1 /\ outcome' = "decoding"
    BY <1>2, <1>3, <1>4, <2>1, <2>6 DEF Progress
  <2>7. CASE at' = at /\ outcome' \in FaultsAt(at) \ {"no"}
    BY <1>2, <1>3, <1>4, <2>1, <2>7 DEF Progress
  <2>8. QED
    BY <2>5, <2>6, <2>7
<1>8. CASE Return
  BY <1>2, <1>3, <1>4, <1>8 DEF Return, Progress
<1>9. CASE UNCHANGED vars
  BY <1>1, <1>2, <1>4, <1>9 DEF vars, Progress
<1>10. QED
  BY <1>5, <1>6, <1>7, <1>8, <1>9 DEF Next

LEMMA AlwaysProgress == Spec => []Progress
<1>1. QED
  BY InitProgress, StepProgress, PTL DEF Spec

(* FirstFaultAnswers: whatever the method and the request, the service is  *)
(* called only with a request every part of which could be read, and       *)
(* otherwise a part that could not be answers, and none before it could    *)
(* only fail.                                                              *)
THEOREM FirstFault == Spec => []FirstFaultAnswers
<1>1. Progress => FirstFaultAnswers
  <2> SUFFICES ASSUME Progress PROVE FirstFaultAnswers
    OBVIOUS
  <2>1. Len(steps) \in Nat
    BY StepsAreSteps DEF Progress
  <2>2. CASE outcome = "decoding"
    BY <2>2 DEF FirstFaultAnswers
  <2>3. CASE outcome = "ok" /\ at = Len(steps) + 1
    <3>1. \A i \in 0..Len(steps) : "no" \in FaultsAt(i)
      BY <2>1, <2>3 DEF Progress
    <3>2. QED
      BY <2>3, <3>1 DEF FirstFaultAnswers
  <2>4. CASE outcome \in FaultsAt(at) \ {"no"} /\ at <= Len(steps)
    <3>1. at \in 0..Len(steps) /\ \A j \in 0..(at - 1) : "no" \in FaultsAt(j)
      BY <2>1, <2>4 DEF Progress
    <3>2. QED
      BY <2>4, <3>1 DEF FirstFaultAnswers
  <2>5. QED
    BY <2>2, <2>3, <2>4 DEF Progress
<1>2. QED
  BY <1>1, AlwaysProgress, PTL

-----------------------------------------------------------------------------
(* Prefixes of paths, and rivals.                                          *)

LEMMA SubSeqPrefixes ==
  ASSUME NEW S, NEW s \in Seq(S), NEW k \in 1..Len(s)
  PROVE  /\ SubSeq(s, 1, k) \in Seq(S) \ {<<>>} /\ Len(SubSeq(s, 1, k)) = k
         /\ \A i \in 1..k : SubSeq(s, 1, k)[i] = s[i]
         /\ \A n \in 0..k : SubSeq(SubSeq(s, 1, k), 1, n) = SubSeq(s, 1, n)
         /\ SubSeq(s, 1, Len(s)) = s
<1>1. /\ SubSeq(s, 1, k) \in Seq(S) /\ Len(SubSeq(s, 1, k)) = k
      /\ \A i \in 1..k : SubSeq(s, 1, k)[i] = s[i]
  OBVIOUS
<1>2. ASSUME NEW n \in 0..k
      PROVE  SubSeq(SubSeq(s, 1, k), 1, n) = SubSeq(s, 1, n)
  <2>1. /\ SubSeq(SubSeq(s, 1, k), 1, n) \in Seq(S) /\ Len(SubSeq(SubSeq(s, 1, k), 1, n)) = n
        /\ SubSeq(s, 1, n) \in Seq(S) /\ Len(SubSeq(s, 1, n)) = n
    BY <1>1
  <2>2. \A i \in 1..n : SubSeq(SubSeq(s, 1, k), 1, n)[i] = SubSeq(s, 1, n)[i]
    BY <1>1
  <2>3. QED
    BY <2>1, <2>2
<1>3. SubSeq(s, 1, Len(s)) = s
  <2>1. Len(s) \in Nat /\ DOMAIN s = 1..Len(s)
    OBVIOUS
  <2>2. SubSeq(s, 1, Len(s)) \in Seq(S) /\ Len(SubSeq(s, 1, Len(s))) = Len(s)
    BY <2>1
  <2>3. \A i \in 1..Len(s) : SubSeq(s, 1, Len(s))[i] = s[i]
    BY <2>1
  <2>4. QED
    BY <2>1, <2>2, <2>3
<1>4. SubSeq(s, 1, k) # <<>>
  BY <1>1
<1>5. QED
  BY <1>1, <1>2, <1>3, <1>4

NumberPath == Seq(Nat) \ {<<>>}

(* A rival of a path is one of every path below it.                        *)
LEMMA RivalBelow ==
  ASSUME NEW in, NEW p \in NumberPath, NEW q \in NumberPath, NEW n \in 1..Len(q),
         Rival(in, p, SubSeq(q, 1, n))
  PROVE  Rival(in, p, q)
<1> DEFINE r == SubSeq(q, 1, n)
           m == Len(p)
<1>1. q \in Seq(Nat) /\ p \in Seq(Nat) /\ m \in Nat \ {0} /\ Len(q) \in Nat
  BY DEF NumberPath
<1>2. /\ Len(r) = n /\ \A i \in 1..n : r[i] = q[i]
      /\ \A i \in 0..n : SubSeq(r, 1, i) = SubSeq(q, 1, i)
  BY <1>1, SubSeqPrefixes
<1> HIDE DEF r
<1>3. Rival(in, p, r)
  BY DEF r
<1>4. /\ m <= n /\ SubSeq(r, 1, m - 1) = SubSeq(p, 1, m - 1) /\ r[m] # p[m]
      /\ FieldAt[<<in, p>>].oneof # ""
      /\ FieldAt[<<in, SubSeq(r, 1, m)>>].oneof = FieldAt[<<in, p>>].oneof
  BY <1>2, <1>3 DEF Rival
<1>5. m - 1 \in 0..n /\ m \in 0..n /\ m \in 1..n /\ m <= Len(q)
  <2>1. m <= n
    BY <1>4
  <2>2. QED
    BY <1>1, <2>1
<1>6. SubSeq(r, 1, m - 1) = SubSeq(q, 1, m - 1) /\ SubSeq(r, 1, m) = SubSeq(q, 1, m) /\ r[m] = q[m]
  BY <1>2, <1>5
<1>7. QED
  BY <1>4, <1>5, <1>6 DEF Rival

(* Who has a rival is one of a prefix of its rival.                        *)
LEMMA RivalBack ==
  ASSUME NEW in, NEW p \in NumberPath, NEW q \in NumberPath, Rival(in, p, q)
  PROVE  Len(p) \in 1..Len(q) /\ Rival(in, SubSeq(q, 1, Len(p)), p)
<1> DEFINE n == Len(p)
           r == SubSeq(q, 1, n)
<1>1. q \in Seq(Nat) /\ p \in Seq(Nat) /\ n \in Nat \ {0} /\ Len(q) \in Nat
  BY DEF NumberPath
<1>2. /\ n <= Len(q) /\ SubSeq(q, 1, n - 1) = SubSeq(p, 1, n - 1) /\ q[n] # p[n]
      /\ FieldAt[<<in, p>>].oneof # ""
      /\ FieldAt[<<in, r>>].oneof = FieldAt[<<in, p>>].oneof
  BY DEF Rival
<1>3. n \in 1..Len(q) /\ n \in 1..n /\ n - 1 \in 0..n
  <2>1. n <= Len(q)
    BY <1>2
  <2>2. QED
    BY <1>1, <2>1
<1>4. Len(r) = n /\ r[n] = q[n] /\ SubSeq(r, 1, n - 1) = SubSeq(q, 1, n - 1)
  BY <1>1, <1>3, SubSeqPrefixes
<1>5. SubSeq(p, 1, n) = p
  BY <1>1, <1>3, SubSeqPrefixes
<1> HIDE DEF r
<1>6. /\ Len(r) <= Len(p) /\ SubSeq(p, 1, Len(r) - 1) = SubSeq(r, 1, Len(r) - 1)
      /\ p[Len(r)] # r[Len(r)]
      /\ FieldAt[<<in, r>>].oneof # ""
      /\ FieldAt[<<in, SubSeq(p, 1, Len(r))>>].oneof = FieldAt[<<in, r>>].oneof
  <2>1. Len(r) <= Len(p) /\ SubSeq(p, 1, Len(r)) = p
    BY <1>1, <1>4, <1>5
  <2>2. SubSeq(p, 1, Len(r) - 1) = SubSeq(r, 1, Len(r) - 1) /\ p[Len(r)] # r[Len(r)]
    BY <1>2, <1>4
  <2>3. FieldAt[<<in, r>>].oneof # "" /\ FieldAt[<<in, p>>].oneof = FieldAt[<<in, r>>].oneof
    BY <1>2
  <2>4. QED
    BY <2>1, <2>2, <2>3
<1>7. Rival(in, r, p)
  BY <1>6 DEF Rival
<1>8. QED
  BY <1>3, <1>7 DEF r

(* No prefix of a path is a rival of another.                              *)
LEMMA NoRivalAlong ==
  ASSUME NEW in, NEW s \in Seq(Nat), NEW j \in 1..Len(s), NEW k \in 1..Len(s)
  PROVE  ~Rival(in, SubSeq(s, 1, j), SubSeq(s, 1, k))
<1>1. /\ Len(SubSeq(s, 1, j)) = j /\ Len(SubSeq(s, 1, k)) = k
      /\ SubSeq(s, 1, j)[j] = s[j]
      /\ j <= k => SubSeq(s, 1, k)[j] = s[j]
  BY SubSeqPrefixes
<1>2. QED
  BY <1>1 DEF Rival

(* Prefixes of a path, and theirs.                                         *)
LEMMA PathPrefixes ==
  ASSUME NEW q \in Seq(Nat), NEW n \in 1..Len(q)
  PROVE  /\ IsPrefix(SubSeq(q, 1, n), q) /\ IsPrefix(q, q)
         /\ \A p \in Seq(Nat) : IsPrefix(p, SubSeq(q, 1, n)) => IsPrefix(p, q)
<1> DEFINE r == SubSeq(q, 1, n)
<1>1. /\ Len(r) = n /\ r \in Seq(Nat)
      /\ \A i \in 0..n : SubSeq(r, 1, i) = SubSeq(q, 1, i)
      /\ SubSeq(q, 1, Len(q)) = q
  BY SubSeqPrefixes
<1>2. n \in 0..n /\ n <= Len(q) /\ Len(q) \in Nat /\ n \in Nat
  OBVIOUS
<1>3. SubSeq(r, 1, n) = r
  BY <1>1, <1>2
<1> HIDE DEF r
<1>4. IsPrefix(r, q)
  BY <1>1, <1>2, <1>3 DEF IsPrefix, r
<1>5. IsPrefix(q, q)
  BY <1>1, <1>2 DEF IsPrefix
<1>6. ASSUME NEW p \in Seq(Nat), IsPrefix(p, r) PROVE IsPrefix(p, q)
  <2>1. Len(p) <= n /\ SubSeq(p, 1, Len(p)) = SubSeq(r, 1, Len(p)) /\ Len(p) \in Nat
    BY <1>1, <1>6 DEF IsPrefix
  <2>2. Len(p) \in 0..n /\ Len(p) <= Len(q)
    BY <1>2, <2>1
  <2>3. QED
    BY <1>1, <2>1, <2>2 DEF IsPrefix
<1>7. QED
  BY <1>4, <1>5, <1>6 DEF r

-----------------------------------------------------------------------------
(* What a step comes along: prefixes of its path, each with those above    *)
(* it.  All but the last are messages, and that takes what it is sent.     *)
LEMMA NoFieldTakes ==
  ASSUME NEW wire
  PROVE  ~Accepts(NoField, wire) /\ ~IsEmbed(NoField)
<1>1. NoField.kind = "none" /\ NoField.label = "one"
  BY DEF NoField, Singular
<1>2. QED
  BY <1>1 DEF Accepts, IsEmbed

LEMMA AlongFacts ==
  ASSUME NEW step \in StepType, NEW p \in Along(step)
  PROVE  LET path == PathOf(step) IN
         /\ path \in Seq(Nat)
         /\ \E k \in 1..Len(path) :
              /\ p = SubSeq(path, 1, k)
              /\ \A j \in 1..k : SubSeq(path, 1, j) \in Along(step)
              /\ \A j \in 1..(k - 1) : IsEmbed(Field(SubSeq(path, 1, j)))
         /\ Field(p) # NoField
<1> DEFINE path == PathOf(step)
           L == Len(path)
           Wire(n) == IF n = L THEN WireOf(step.conv) ELSE "bytes"
           Taken(n) == /\ Accepts(Field(SubSeq(path, 1, n)), Wire(n))
                       /\ \A j \in 1..(n - 1) : IsEmbed(Field(SubSeq(path, 1, j)))
           K == {n \in DOMAIN path : Taken(n)}
<1>1. path \in Seq(Nat)
  BY DEF StepType, PathOf, Reverse
<1>2. Along(step) = {SubSeq(path, 1, k) : k \in K}
  BY DEF Along
<1> HIDE DEF path
<1>3. L \in Nat /\ DOMAIN path = 1..L
  BY <1>1
<1>4. PICK k \in K : p = SubSeq(path, 1, k)
  BY <1>2
<1> HIDE DEF Wire, L
<1>5. k \in 1..L /\ Accepts(Field(p), Wire(k))
  BY <1>3, <1>4
<1>6. \A j \in 1..(k - 1) : IsEmbed(Field(SubSeq(path, 1, j)))
  BY <1>4
<1>7. ASSUME NEW j \in 1..k PROVE j \in K
  <2>1. CASE j = k
    BY <1>4, <2>1
  <2>2. CASE j # k
    <3>1. j \in 1..(k - 1) /\ j # L /\ j \in DOMAIN path /\ \A i \in 1..(j - 1) : i \in 1..(k - 1)
      BY <1>3, <1>5, <2>2
    <3>2. IsEmbed(Field(SubSeq(path, 1, j)))
      BY <1>6, <3>1
    <3>3. Accepts(Field(SubSeq(path, 1, j)), "bytes")
      BY <3>2 DEF Accepts, IsEmbed
    <3>4. Wire(j) = "bytes"
      BY <3>1 DEF Wire
    <3>5. QED
      BY <1>6, <3>1, <3>3, <3>4
  <2>3. QED
    BY <2>1, <2>2
<1>8. Field(p) # NoField
  BY <1>5, NoFieldTakes
<1> HIDE DEF K
<1>9. \A j \in 1..k : SubSeq(path, 1, j) \in Along(step)
  BY <1>2, <1>7
<1>10. QED
  BY <1>1, <1>4, <1>5, <1>6, <1>8, <1>9 DEF path, L

LEMMA AlongPrefixes ==
  ASSUME NEW step \in StepType, NEW p \in Along(step)
  PROVE  /\ p \in NumberPath /\ Field(p) # NoField
         /\ IsPrefix(p, p)
         /\ \A n \in 1..Len(p) : SubSeq(p, 1, n) \in Along(step)
         /\ \A n \in 1..(Len(p) - 1) :
              SubSeq(p, 1, n) \notin Ends(step) /\ IsEmbed(Field(SubSeq(p, 1, n)))
<1> DEFINE path == PathOf(step)
<1>1. path \in Seq(Nat) /\ Field(p) # NoField
  BY AlongFacts
<1>2. PICK k \in 1..Len(path) :
         /\ p = SubSeq(path, 1, k)
         /\ \A j \in 1..k : SubSeq(path, 1, j) \in Along(step)
         /\ \A j \in 1..(k - 1) : IsEmbed(Field(SubSeq(path, 1, j)))
  BY AlongFacts
<1> HIDE DEF path
<1>3. p \in NumberPath /\ Len(p) = k /\ \A n \in 0..k : SubSeq(p, 1, n) = SubSeq(path, 1, n)
  <2>1. p = SubSeq(path, 1, k)
    BY <1>2
  <2>2. QED
    BY <1>1, <2>1, SubSeqPrefixes DEF NumberPath
<1>4. Len(path) \in Nat /\ k \in 1..Len(path)
  BY <1>1, <1>2
<1>5. IsPrefix(p, p)
  <2>1. p \in Seq(Nat) /\ k \in 1..Len(p)
    BY <1>3, <1>4 DEF NumberPath
  <2>2. QED
    BY <2>1, PathPrefixes
<1>6. \A n \in 1..k : SubSeq(p, 1, n) \in Along(step)
  <2>1. \A n \in 1..k : n \in 0..k
    BY <1>4
  <2>2. QED
    BY <1>2, <1>3, <2>1
<1>7. ASSUME NEW n \in 1..(k - 1)
      PROVE  SubSeq(p, 1, n) \notin Ends(step) /\ IsEmbed(Field(SubSeq(p, 1, n)))
  <2>1. n \in 1..Len(path) /\ n # Len(path) /\ n \in 0..k
    BY <1>4
  <2>2. SubSeq(p, 1, n) = SubSeq(path, 1, n) /\ Len(SubSeq(path, 1, n)) = n
    BY <1>1, <1>3, <2>1, SubSeqPrefixes
  <2>3. SubSeq(p, 1, n) # path /\ IsEmbed(Field(SubSeq(p, 1, n)))
    BY <1>2, <2>1, <2>2
  <2>4. QED
    BY <2>3 DEF Ends, path
<1>8. QED
  BY <1>1, <1>3, <1>5, <1>6, <1>7

-----------------------------------------------------------------------------
(* A step adds to the message prefixes of its own path only.               *)
LEMMA AlongIsPrefix ==
  ASSUME NEW step \in StepType, NEW p \in Along(step)
  PROVE  IsPrefix(p, PathOf(step))
<1> DEFINE path == PathOf(step)
<1>1. path \in Seq(Nat) /\ \E k \in 1..Len(path) : p = SubSeq(path, 1, k)
  BY AlongFacts
<1> HIDE DEF path
<1>2. IsPrefix(p, path)
  BY <1>1, PathPrefixes
<1>3. QED
  BY <1>2 DEF path

(* The message after a step: what it keeps, what it sets, and the values   *)
(* of both.                                                                *)
Written(step, value, p) == Stored(Field(p), Bytes(step, p, value))

KeptBy(step) ==
  {q \in DOMAIN msg \ Along(step) : /\ \A p \in Ends(step) : ~IsPrefix(p, q)
                                    /\ \A p \in Along(step) : ~Rival(rpc.in, p, q)}

SetBy(step, value) ==
  {p \in Along(step) : p \in Ends(step) => ~Unset(Field(p), Written(step, value, p))}

LEMMA MergeIs ==
  ASSUME NEW step, NEW value
  PROVE  /\ DOMAIN Merge(step, value) = KeptBy(step) \cup SetBy(step, value)
         /\ \A p \in KeptBy(step) \cup SetBy(step, value) :
              Merge(step, value)[p] = IF p \in Ends(step) THEN Written(step, value, p)
                                      ELSE IF p \in DOMAIN msg THEN msg[p] ELSE Present
         /\ Ends(step) \subseteq Along(step)
<1>1. Merge(step, value) =
        [p \in KeptBy(step) \cup SetBy(step, value) |->
           IF p \in Ends(step) THEN Written(step, value, p)
           ELSE IF p \in DOMAIN msg THEN msg[p] ELSE Present]
  BY DEF Merge, KeptBy, SetBy, Written
<1>2. Ends(step) \subseteq Along(step)
  BY DEF Ends
<1>3. QED
  BY <1>1, <1>2

(* Merging leaves alone what the step does not contend for.                *)
LEMMA MergeKeeps ==
  ASSUME NEW step \in StepType, NEW value, ~Skipped(step),
         NEW p \in DOMAIN msg, ~Contends(step, p)
  PROVE  p \in DOMAIN Merge(step, value) /\ Merge(step, value)[p] = msg[p]
<1>1. /\ \A q \in Ends(step) : ~IsPrefix(q, p)
      /\ \A q \in Along(step) : ~Rival(rpc.in, q, p)
  BY DEF Contends
<1>2. p \notin Ends(step)
  BY <1>1, AlongPrefixes, MergeIs
<1>3. p \in KeptBy(step) \cup SetBy(step, value)
  BY <1>1, <1>2 DEF KeptBy, SetBy
<1>4. QED
  BY <1>2, <1>3, MergeIs

LEMMA MergeAdds ==
  ASSUME NEW step, NEW value, NEW p \in DOMAIN Merge(step, value) \ DOMAIN msg
  PROVE  p \in Along(step)
<1>1. p \in KeptBy(step) \cup SetBy(step, value) /\ p \notin DOMAIN msg
  BY MergeIs
<1>2. QED
  BY <1>1 DEF KeptBy, SetBy

LEMMA InitMerged == Init => Merged
BY DEF Init, Merged

LEMMA StepMerged == Progress /\ Merged /\ [Next]_vars => Merged'
<1> SUFFICES ASSUME Progress, Merged, [Next]_vars PROVE Merged'
  OBVIOUS
<1>1. call' = call
  BY DEF Next, ReadBody, RefuseBody, MergeParam, Return, vars
<1>2. /\ steps' = steps /\ Body' = Body
      /\ \A i, p : Contends(steps[i], p)' = Contends(steps[i], p)
      /\ \A i : Skipped(steps[i])' = Skipped(steps[i])
      /\ \A i : PathOf(steps[i])' = PathOf(steps[i])
  BY <1>1, CallStays
<1>3. at \in Nat /\ steps \in Seq(StepType) /\ DOMAIN steps = 1..Len(steps)
  BY StepsAreSteps DEF Progress
<1>4. ASSUME UNCHANGED <<msg, at>> PROVE Merged'
  BY <1>2, <1>4 DEF Merged, KeptBefore, AddedBefore
<1> DEFINE Kept == \A p \in DOMAIN Body :
                     (\A i \in DOMAIN steps : i < at + 1 => ~Contends(steps[i], p))
                       => p \in DOMAIN msg' /\ msg'[p] = Body[p]
           Added == \A p \in DOMAIN msg' \ DOMAIN Body :
                      \E i \in DOMAIN steps :
                        i < at + 1 /\ ~Skipped(steps[i]) /\ IsPrefix(p, PathOf(steps[i]))
<1>4a. ASSUME Kept, Added, at' = at + 1 PROVE Merged'
  <2>1. at' # 0
    BY <1>3, <1>4a
  <2>2. QED
    BY <1>2, <1>4a, <2>1 DEF Merged, KeptBefore, AddedBefore
<1>5. CASE ReadBody
  <2>1. msg' = Body /\ at' = 1
    BY <1>5 DEF ReadBody, Body, Merged
  <2>2. QED
    BY <1>2, <2>1 DEF Merged, KeptBefore, AddedBefore
<1>6. CASE RefuseBody
  BY <1>4, <1>6 DEF RefuseBody
<1>7. CASE MergeParam
  <2> DEFINE step == steps[at]
             value == Convert(step.conv, TextOf(step))
  <2>1. /\ at \in DOMAIN steps /\ at > 0 /\ step \in StepType
        /\ KeptBefore(at) /\ AddedBefore(at)
    BY <1>3, <1>7 DEF MergeParam, Merged
  <2>2. CASE msg' = msg /\ at' = at + 1
    <3>1. \A i \in DOMAIN steps : i < at => i < at + 1
      BY <1>3
    <3>2. Kept /\ Added
      BY <2>1, <2>2, <3>1 DEF KeptBefore, AddedBefore
    <3>3. QED
      BY <1>4a, <2>2, <3>2
  <2>3. CASE ~Skipped(step) /\ msg' = Merge(step, value[1]) /\ at' = at + 1
    <3>1. ASSUME NEW p \in DOMAIN Body,
                 \A i \in DOMAIN steps : i < at + 1 => ~Contends(steps[i], p)
          PROVE  p \in DOMAIN msg' /\ msg'[p] = Body[p]
      <4>1. \A i \in DOMAIN steps : i < at => ~Contends(steps[i], p)
        BY <1>3, <3>1
      <4>2. p \in DOMAIN msg /\ msg[p] = Body[p]
        BY <2>1, <4>1 DEF KeptBefore
      <4>3. ~Contends(step, p)
        BY <1>3, <2>1, <3>1
      <4>4. QED
        BY <2>1, <2>3, <4>2, <4>3, MergeKeeps
    <3>2. ASSUME NEW p \in DOMAIN msg' \ DOMAIN Body
          PROVE  \E i \in DOMAIN steps :
                   i < at + 1 /\ ~Skipped(steps[i]) /\ IsPrefix(p, PathOf(steps[i]))
      <4>1. CASE p \in DOMAIN msg
        BY <1>3, <2>1, <3>2, <4>1 DEF AddedBefore
      <4>2. CASE p \notin DOMAIN msg
        <5>1. p \in Along(step)
          BY <2>1, <2>3, <3>2, <4>2, MergeAdds
        <5>2. IsPrefix(p, PathOf(step))
          BY <2>1, <5>1, AlongIsPrefix
        <5>3. QED
          BY <1>3, <2>1, <2>3, <5>2
      <4>3. QED
        BY <4>1, <4>2
    <3>3. Kept /\ Added
      BY <3>1, <3>2
    <3>4. QED
      BY <1>4a, <2>3, <3>3
  <2>4. CASE msg' = msg /\ at' = at
    BY <1>4, <2>4
  <2>5. QED
    BY <1>7, <2>2, <2>3, <2>4 DEF MergeParam
<1>8. CASE Return
  BY <1>4, <1>8 DEF Return
<1>9. CASE UNCHANGED vars
  BY <1>4, <1>9 DEF vars
<1>10. QED
  BY <1>5, <1>6, <1>7, <1>8, <1>9 DEF Next

LEMMA AlwaysMerged == Spec => []Merged
<1>1. QED
  BY InitMerged, StepMerged, AlwaysProgress, PTL DEF Spec

(* BodyKept: whatever the body, and whatever the parameters write, a field *)
(* that no parameter and no rival in a oneof of its names is the service's *)
(* as the client sent it, and nothing else appears.                        *)
THEOREM BodySurvives == Spec => []BodyKept
<1>1. Progress /\ Merged => BodyKept
  <2> SUFFICES ASSUME Progress, Merged, outcome = "ok" PROVE BodyKept
    BY DEF BodyKept
  <2>1. Len(steps) \in Nat /\ DOMAIN steps = 1..Len(steps)
    BY StepsAreSteps DEF Progress
  <2>2. at = Len(steps) + 1
    <3>1. "ok" \notin FaultsAt(at)
      BY FaultNames
    <3>2. QED
      BY <3>1 DEF Progress
  <2>3. KeptBefore(at) /\ AddedBefore(at)
    BY <2>1, <2>2 DEF Merged
  <2>4. \A i \in DOMAIN steps : i < at
    BY <2>1, <2>2
  <2>5. QED
    BY <2>3, <2>4 DEF KeptBefore, AddedBefore, BodyKept
<1>2. QED
  BY <1>1, AlwaysProgress, AlwaysMerged, PTL

-----------------------------------------------------------------------------
(* The texts the decoder reads.                                            *)

(* A path parameter has the number of its place among the parameters of    *)
(* the route, and its wildcard is bound to the segment where the route     *)
(* names it.                                                               *)
LEMMA PathStep ==
  ASSUME NEW name \in DOMAIN Rpcs
  PROVE  LET r == Rpcs[name]
             tkn == ParseRoute(r.route)
         IN /\ DOMAIN PathSteps(r) = 1..Cardinality(ParamsAt(tkn))
            /\ Cardinality(ParamsAt(tkn)) \in Nat
            /\ \A n \in DOMAIN PathSteps(r) :
                 LET i == Nth(ParamsAt(tkn), n) IN
                 /\ i \in ParamsAt(tkn) /\ tkn[i].ParamIndex = n - 1
                 /\ PathSteps(r)[n] = Step("path", "", n - 1, r.in, Parts[tkn[i].Name])
                 /\ BoundPosition(Registered[name], n - 1) = i
                 /\ i \in DOMAIN Registered[name]
<1> DEFINE r == Rpcs[name]
           tkn == ParseRoute(r.route)
           I == ParamsAt(tkn)
           p == ConvertRoute(r.route)
<1>1. r.route \in RouteSet
  BY RpcsAssumption
<1>2. /\ tkn \in Seq(Parsed)
      /\ \A i \in I : tkn[i].ParamIndex = Rank(I, i)
  BY <1>1, ParsedRoute
<1>3. \A i \in I : /\ i \in DOMAIN p /\ p[i] = Wild(tkn[i].ParamIndex)
                   /\ \A j \in DOMAIN p : p[j] = Wild(tkn[i].ParamIndex) => j = i
  BY <1>1, PatternOfRoute
<1>4. Params(tkn) = Selected(tkn, I)
  BY DEF Params, ParamsAt
<1>5. PathSteps(r) = [n \in DOMAIN Params(tkn) |->
                        Step("path", "", Params(tkn)[n].ParamIndex, r.in, Parts[Params(tkn)[n].Name])]
  BY DEF PathSteps
<1>6. Registered[name] = p
  BY DEF Registered
<1> HIDE DEF tkn, p
<1>7. I \in SUBSET DOMAIN tkn
  BY DEF ParamsAt
<1> HIDE DEF I
<1>8. /\ DOMAIN Selected(tkn, I) = 1..Cardinality(I)
      /\ \A n \in 1..Cardinality(I) : Nth(I, n) \in I /\ Selected(tkn, I)[n] = tkn[Nth(I, n)]
  BY <1>2, <1>7, SelectedType, SelectedElements
<1>9. I \in SUBSET Nat /\ IsFiniteSet(I) /\ Cardinality(I) \in Nat
  BY <1>2, <1>7, Positions
<1>10. ASSUME NEW n \in DOMAIN PathSteps(r)
       PROVE  LET i == Nth(I, n) IN
              /\ i \in I /\ tkn[i].ParamIndex = n - 1
              /\ PathSteps(r)[n] = Step("path", "", n - 1, r.in, Parts[tkn[i].Name])
              /\ BoundPosition(p, n - 1) = i
              /\ i \in DOMAIN p
  <2> DEFINE i == Nth(I, n)
  <2>1. n \in 1..Cardinality(I)
    BY <1>4, <1>5, <1>8
  <2>2. i \in I /\ Params(tkn)[n] = tkn[i]
    BY <1>4, <1>8, <2>1
  <2>3. Rank(I, i) = n - 1
    BY <1>9, <2>1, NthInSet
  <2> HIDE DEF i
  <2>4. tkn[i].ParamIndex = n - 1
    BY <1>2, <2>2, <2>3
  <2>5. PathSteps(r)[n] = Step("path", "", n - 1, r.in, Parts[tkn[i].Name])
    BY <1>5, <2>2, <2>4
  <2>6. i \in DOMAIN p /\ p[i] = Wild(n - 1) /\ \A j \in DOMAIN p : p[j] = Wild(n - 1) => j = i
    BY <1>3, <2>2, <2>4
  <2>7. DOMAIN p = DOMAIN tkn
    BY DEF p, tkn, ConvertRoute, Pattern
  <2>8. BoundPosition(p, n - 1) = i
    <3>1. i \in Nat /\ \A j \in 1..(i - 1) : j \in DOMAIN p /\ j # i
      BY <1>2, <2>6, <2>7
    <3>2. \A j \in 1..(i - 1) : p[j] # Wild(n - 1)
      BY <2>6, <3>1
    <3>3. QED
      BY <2>6, <3>2 DEF BoundPosition
  <2>9. QED
    BY <2>2, <2>4, <2>5, <2>6, <2>8 DEF i
<1>11. QED
  BY <1>4, <1>5, <1>6, <1>8, <1>9, <1>10 DEF tkn, I

(* The query first, then the path.                                         *)
LEMMA StepsSplit ==
  ASSUME NEW name \in DOMAIN Rpcs
  PROVE  LET r == Rpcs[name]
             a == Len(QuerySteps(r))
             b == Len(PathSteps(r))
         IN /\ a \in Nat /\ b \in Nat
            /\ DOMAIN QuerySteps(r) = 1..a /\ DOMAIN PathSteps(r) = 1..b
            /\ DOMAIN Steps(r) = 1..(a + b) /\ Len(Steps(r)) = a + b
            /\ \A k \in 1..a : Steps(r)[k] = QuerySteps(r)[k]
            /\ \A k \in 1..b : Steps(r)[a + k] = PathSteps(r)[k]
            /\ \A k \in 1..(a + b) : k \in 1..a \/ k - a \in 1..b
            /\ \A k \in 1..a : /\ QueryNames(r)[k] \in DOMAIN r.query
                               /\ QuerySteps(r)[k] = Step("query", QueryNames(r)[k], 0, r.in,
                                                          <<r.query[QueryNames(r)[k]]>>)
<1> DEFINE r == Rpcs[name]
           I == {i \in DOMAIN ParamOrder : ParamOrder[i] \in DOMAIN r.query}
           N == Cardinality(I)
           M == Cardinality(ParamsAt(ParseRoute(r.route)))
           qs == QuerySteps(r)
           ps == PathSteps(r)
           names == QueryNames(r)
<1>1. ParamOrder \in Seq(STRING) /\ I \in SUBSET DOMAIN ParamOrder
  BY OrderAssumption
<1>2. names = Selected(ParamOrder, I)
  BY DEF QueryNames
<1>3. qs = [k \in DOMAIN names |-> Step("query", names[k], 0, r.in, <<r.query[names[k]]>>)]
  BY DEF QuerySteps
<1> HIDE DEF names
<1>4. /\ N \in Nat /\ DOMAIN names = 1..N
      /\ \A k \in 1..N : names[k] \in DOMAIN r.query
  <2>1. /\ DOMAIN names = 1..N
        /\ \A k \in 1..N : Nth(I, k) \in I /\ names[k] = ParamOrder[Nth(I, k)]
    BY <1>1, <1>2, SelectedType, SelectedElements
  <2>2. N \in Nat
    BY <1>1, Positions
  <2>3. QED
    BY <2>1, <2>2
<1> HIDE DEF N, I
<1>5. M \in Nat /\ DOMAIN ps = 1..M
  BY PathStep
<1>6. Steps(r) = qs \o ps
  BY DEF Steps
<1>7. ps = [k \in 1..M |-> ps[k]]
  BY <1>5 DEF PathSteps
<1> HIDE DEF M, ps
<1>8. qs = [k \in 1..N |-> qs[k]]
  BY <1>3, <1>4
<1>9. \A k \in 1..N : qs[k] = Step("query", names[k], 0, r.in, <<r.query[names[k]]>>)
  BY <1>3, <1>4
<1>10. Len(qs) = N /\ DOMAIN qs = 1..N /\ Len(ps) = M
  BY <1>3, <1>4, <1>5, <1>7, <1>8
<1> HIDE DEF qs
<1>11. /\ DOMAIN (qs \o ps) = 1..(N + M) /\ Len(qs \o ps) = N + M
       /\ \A k \in 1..N : (qs \o ps)[k] = qs[k]
       /\ \A k \in 1..M : (qs \o ps)[N + k] = ps[k]
  <2> DEFINE S == Range(qs) \cup Range(ps)
  <2>1. (\A k \in 1..N : qs[k] \in S) /\ (\A k \in 1..M : ps[k] \in S)
    BY <1>5, <1>10 DEF Range
  <2> HIDE DEF S
  <2>2. qs \in Seq(S)
    BY <1>4, <1>8, <2>1
  <2>3. ps \in Seq(S)
    BY <1>5, <1>7, <2>1
  <2>4. QED
    BY <1>4, <1>5, <1>10, <2>2, <2>3
<1>12. \A k \in 1..(N + M) : k \in 1..N \/ k - N \in 1..M
  BY <1>4, <1>5
<1>13. QED
  BY <1>4, <1>5, <1>6, <1>9, <1>10, <1>11, <1>12 DEF qs, ps, names

LEMMA StepFields ==
  ASSUME NEW source, NEW key, NEW index, NEW m, NEW path
  PROVE  /\ Step(source, key, index, m, path).source = source
         /\ Step(source, key, index, m, path).key = key
         /\ Step(source, key, index, m, path).index = index
<1> DEFINE nums == Numbers[<<m, path>>]
           conv == IF Len(nums) = 1 THEN Converter(FieldOf[<<m, path>>]) ELSE "string"
<1>1. Step(source, key, index, m, path)
        = [source |-> source, key |-> key, index |-> index, nums |-> nums, conv |-> conv]
  BY DEF Step
<1> HIDE DEF nums, conv
<1>2. QED
  BY <1>1

LEMMA StepHas ==
  ASSUME NEW s, NEW source, NEW index,
         \E key, m, path : s = Step(source, key, index, m, path)
  PROVE  s.source = source /\ s.index = index
<1>1. QED
  BY StepFields

(* Each step reads a text, and a path parameter always has one.            *)
LEMMA TextRead ==
  ASSUME call \in Calls, NEW k \in DOMAIN steps
  PROVE  /\ IsText(TextOf(steps[k]))
         /\ steps[k].source = "path" => TextOf(steps[k]) # Absent
<1> DEFINE name == call.rpc
           r == Rpcs[name]
           a == Len(QuerySteps(r))
           b == Len(PathSteps(r))
<1>1. /\ name \in DOMAIN Rpcs
      /\ DOMAIN call.path = DOMAIN Registered[name]
      /\ \A i \in DOMAIN call.path : IsText(call.path[i]) /\ call.path[i] # Absent
      /\ \A key \in DOMAIN call.query : IsText(call.query[key])
  BY CallsAssumption
<1>2. steps = Steps(r)
  BY <1>1 DEF steps, Generated
<1>3. IsText(Absent)
  BY DEF IsText, Absent, Present, Text
<1>4. CASE k \in 1..a
  <2>1. steps[k] = Step("query", QueryNames(r)[k], 0, r.in, <<r.query[QueryNames(r)[k]]>>)
    BY <1>1, <1>2, <1>4, StepsSplit
  <2>2. steps[k].source = "query"
    BY <2>1, StepHas
  <2>3. QED
    BY <1>1, <1>3, <2>2 DEF TextOf
<1>5. CASE k - a \in 1..b
  <2> DEFINE n == k - a
             i == Nth(ParamsAt(ParseRoute(r.route)), n)
  <2>1. a \in Nat /\ k \in Nat /\ n \in DOMAIN PathSteps(r) /\ steps[a + n] = PathSteps(r)[n]
    BY <1>1, <1>2, <1>5, StepsSplit
  <2>2. /\ PathSteps(r)[n] = Step("path", "", n - 1, r.in, Parts[ParseRoute(r.route)[i].Name])
        /\ BoundPosition(Registered[name], n - 1) = i
        /\ i \in DOMAIN Registered[name]
    BY <1>1, <2>1, PathStep
  <2> HIDE DEF i
  <2>3. a + n = k
    BY <2>1
  <2>4. steps[k].source = "path" /\ steps[k].index = n - 1
    <3>1. steps[k] = Step("path", "", n - 1, r.in, Parts[ParseRoute(r.route)[i].Name])
      BY <2>1, <2>2, <2>3
    <3>2. PICK index : index = n - 1
      OBVIOUS
    <3>3. steps[k] = Step("path", "", index, r.in, Parts[ParseRoute(r.route)[i].Name])
      BY <3>1, <3>2
    <3>4. \E key, m, path : steps[k] = Step("path", key, index, m, path)
      BY <3>3, Zenon
    <3>5. steps[k].source = "path" /\ steps[k].index = index
      BY <3>4, StepHas
    <3>6. QED
      BY <3>2, <3>5
  <2>5. TextOf(steps[k]) = call.path[i]
    BY <2>2, <2>4 DEF TextOf
  <2>6. QED
    BY <1>1, <2>2, <2>5
<1>6. QED
  BY <1>1, <1>2, <1>4, <1>5, StepsSplit

-----------------------------------------------------------------------------
(* A template makes a text of a text, and so does the field it is stored   *)
(* in.                                                                     *)
LEMMA Texts ==
  /\ IsText(Present) /\ IsText(Empty) /\ IsText(Packed) /\ IsText(Opaque)
  /\ \A n \in Int : IsText(Num(n)) /\ Num(n).num = n
BY DEF IsText, Present, Empty, Packed, Opaque, Word, Num, Text

LEMMA ConvertText ==
  ASSUME NEW conv \in {"string", "int", "uint", "bool"}, NEW t, IsText(t),
         Convert(conv, t) # <<>>
  PROVE  IsText(Convert(conv, t)[1])
<1>1. CASE conv = "string"
  BY <1>1, Texts DEF Convert
<1>2. CASE conv = "int"
  <2>1. Convert(conv, t) = <<Num(0)>> \/ Convert(conv, t) = <<t>>
    BY <1>2 DEF Convert
  <2>2. QED
    BY <2>1, Texts
<1>3. CASE conv = "uint"
  BY <1>3 DEF Convert
<1>4. CASE conv = "bool"
  <2>1. Convert(conv, t) = <<Num(0)>> \/ Convert(conv, t) = <<Num(1)>>
    BY <1>4 DEF Convert, ParseBool
  <2>2. QED
    BY <2>1, Texts
<1>5. QED
  BY <1>1, <1>2, <1>3, <1>4

LEMMA StoredText ==
  ASSUME NEW f, NEW v, IsText(v)
  PROVE  IsText(Stored(f, v))
<1> DEFINE wide == v.num % Power(Wide)
           narrow == v.num % Power(Narrow)
<1>1. Power(Wide) \in Nat \ {0} /\ Power(Narrow) \in Nat \ {0}
  BY PowersAssumption
<1>2. v.num \in Int
  BY DEF IsText
<1>3. wide \in Int /\ narrow \in Int
  BY <1>1, <1>2
<1>4. Power(Wide - 1) \in Int /\ Power(Narrow - 1) \in Int
  BY PowersAssumption
<1>5. ASSUME NEW u \in Int
      PROVE  ZigZag(u) \in Int /\ AsSigned(u, Wide) \in Int /\ AsSigned(u, Narrow) \in Int
  BY <1>1, <1>4 DEF ZigZag, AsSigned
<1>6. Stored(f, v) = v \/ Stored(f, v) = Opaque \/ \E n \in Int : Stored(f, v) = Num(n)
  <2>1. CASE f.label # "one" \/ f.kind = "message"
    BY <2>1 DEF Stored
  <2>2. CASE ~(f.label # "one" \/ f.kind = "message")
    <3>1. CASE f.kind \in {"string", "bytes"}
      BY <2>2, <3>1 DEF Stored
    <3>2. CASE f.kind \notin {"string", "bytes"}
      <4>1. \/ Stored(f, v) = Num(AsSigned(wide, Wide))
            \/ Stored(f, v) = Num(AsSigned(narrow, Narrow))
            \/ Stored(f, v) = Num(narrow)
            \/ Stored(f, v) = Num(ZigZag(wide))
            \/ Stored(f, v) = Num(ZigZag(narrow))
            \/ Stored(f, v) = Num(wide)
        BY <2>2, <3>2 DEF Stored
      <4> HIDE DEF wide, narrow
      <4>2. QED
        BY <1>3, <1>5, <4>1
    <3>3. QED
      BY <3>1, <3>2
  <2>3. QED
    BY <2>1, <2>2
<1>7. QED
  BY <1>6, Texts

LEMMA WrittenText ==
  ASSUME NEW step, NEW p, NEW value, IsText(value)
  PROVE  IsText(Written(step, value, p))
<1>1. IsText(Bytes(step, p, value))
  BY Texts DEF Bytes
<1>2. QED
  BY <1>1, StoredText DEF Written

-----------------------------------------------------------------------------
(* A message that can be stays one, whatever is merged into it.            *)
LEMMA MergeHoldable ==
  ASSUME NEW step \in StepType, NEW value, IsText(value), Holdable(rpc.in, msg)
  PROVE  Holdable(rpc.in, Merge(step, value))
<1> DEFINE path == PathOf(step)
           along == Along(step)
           ends == Ends(step)
           kept == KeptBy(step)
           set == SetBy(step, value)
           M == Merge(step, value)
<1>1. /\ DOMAIN M = kept \cup set
      /\ \A p \in kept \cup set :
           M[p] = IF p \in ends THEN Written(step, value, p)
                  ELSE IF p \in DOMAIN msg THEN msg[p] ELSE Present
      /\ ends \subseteq along
  BY MergeIs
<1>2. \A p : IsText(Written(step, value, p))
  BY WrittenText
<1>3. \A p \in along :
        /\ p \in NumberPath /\ FieldAt[<<rpc.in, p>>] # NoField
        /\ \A n \in 1..Len(p) : SubSeq(p, 1, n) \in along
        /\ \A n \in 1..(Len(p) - 1) :
             SubSeq(p, 1, n) \notin ends /\ IsEmbed(FieldAt[<<rpc.in, SubSeq(p, 1, n)>>])
  BY AlongPrefixes DEF Field
<1>4. \A p \in DOMAIN msg :
        /\ p \in NumberPath /\ FieldAt[<<rpc.in, p>>] # NoField /\ IsText(msg[p])
        /\ \A n \in 1..(Len(p) - 1) :
             SubSeq(p, 1, n) \in DOMAIN msg /\ IsEmbed(FieldAt[<<rpc.in, SubSeq(p, 1, n)>>])
        /\ \A q \in DOMAIN msg : ~Rival(rpc.in, p, q)
  BY DEF Holdable, NumberPath
<1>5. kept \subseteq DOMAIN msg /\ set \subseteq along
  BY DEF KeptBy, SetBy
<1>6. \A p \in kept : /\ p \notin along /\ \A q \in along : ~Rival(rpc.in, q, p)
                      /\ \A q \in ends : ~IsPrefix(q, p)
  BY DEF KeptBy
<1>7. ASSUME NEW p \in along, p \notin ends PROVE p \in set
  BY <1>7 DEF SetBy
<1>8. ASSUME NEW p \in DOMAIN msg, p \notin along, \A q \in along : ~Rival(rpc.in, q, p),
             \A q \in ends : ~IsPrefix(q, p)
      PROVE  p \in kept
  BY <1>8 DEF KeptBy
<1>9. \A p \in along : \E k \in 1..Len(path) : p = SubSeq(path, 1, k)
  BY AlongFacts
<1>10. along # {} => path \in Seq(Nat)
  BY AlongFacts
<1> HIDE DEF path, along, ends, kept, set, M
<1>11. ASSUME NEW p \in kept, NEW n \in 1..(Len(p) - 1)
       PROVE  SubSeq(p, 1, n) \in kept \cup set /\ IsEmbed(FieldAt[<<rpc.in, SubSeq(p, 1, n)>>])
  <2> DEFINE q == SubSeq(p, 1, n)
  <2>1. q \in DOMAIN msg /\ IsEmbed(FieldAt[<<rpc.in, q>>]) /\ q \in NumberPath /\ p \in NumberPath
    BY <1>4, <1>5
  <2>2. n \in 1..Len(p) /\ p \in Seq(Nat)
    BY <2>1 DEF NumberPath
  <2>3. CASE q \in along
    <3>1. IsPrefix(q, p)
      BY <2>2, PathPrefixes
    <3>2. q \notin ends
      BY <1>6, <3>1
    <3>3. QED
      BY <1>7, <2>1, <2>3, <3>2
  <2>4. CASE q \notin along
    <3>1. \A r \in along : Rival(rpc.in, r, q) => Rival(rpc.in, r, p)
      BY <1>3, <2>1, <2>2, RivalBelow
    <3>2. ASSUME NEW r \in ends, IsPrefix(r, q) PROVE FALSE
      <4>1. r \in Seq(Nat)
        BY <1>1, <1>3 DEF NumberPath
      <4>2. IsPrefix(r, p)
        BY <2>2, <3>2, <4>1, PathPrefixes
      <4>3. QED
        BY <1>6, <4>2
    <3>3. QED
      BY <1>6, <1>8, <2>1, <2>4, <3>1, <3>2
  <2>5. QED
    BY <2>1, <2>3, <2>4
<1>12. ASSUME NEW p \in set, NEW n \in 1..(Len(p) - 1)
       PROVE  SubSeq(p, 1, n) \in kept \cup set /\ IsEmbed(FieldAt[<<rpc.in, SubSeq(p, 1, n)>>])
  <2>1. p \in along /\ n \in 1..Len(p)
    BY <1>3, <1>5 DEF NumberPath
  <2>2. SubSeq(p, 1, n) \in along /\ SubSeq(p, 1, n) \notin ends
    BY <1>3, <2>1
  <2>3. QED
    BY <1>3, <1>7, <2>1, <2>2
<1>13. ASSUME NEW p \in kept \cup set, NEW q \in kept \cup set
       PROVE  ~Rival(rpc.in, p, q)
  <2>1. CASE p \in kept /\ q \in kept
    BY <1>4, <1>5, <2>1
  <2>2. CASE p \in set /\ q \in kept
    BY <1>5, <1>6, <2>2
  <2>3. CASE p \in kept /\ q \in set
    <3>1. p \in NumberPath /\ q \in NumberPath /\ q \in along
      BY <1>3, <1>4, <1>5, <2>3
    <3>2. Rival(rpc.in, p, q) => Len(p) \in 1..Len(q) /\ Rival(rpc.in, SubSeq(q, 1, Len(p)), p)
      BY <3>1, RivalBack
    <3>3. Len(p) \in 1..Len(q) => SubSeq(q, 1, Len(p)) \in along
      BY <1>3, <3>1
    <3>4. QED
      BY <1>6, <2>3, <3>2, <3>3
  <2>4. CASE p \in set /\ q \in set
    <3>1. p \in along /\ q \in along
      BY <1>5, <2>4
    <3>2. PICK j \in 1..Len(path) : p = SubSeq(path, 1, j)
      BY <1>9, <3>1
    <3>3. PICK k \in 1..Len(path) : q = SubSeq(path, 1, k)
      BY <1>9, <3>1
    <3>4. path \in Seq(Nat)
      BY <1>10, <3>1
    <3>5. QED
      BY <3>2, <3>3, <3>4, NoRivalAlong
  <2>5. QED
    BY <2>1, <2>2, <2>3, <2>4
<1>14. ASSUME NEW p \in kept \cup set
       PROVE  p \in NumberPath /\ FieldAt[<<rpc.in, p>>] # NoField /\ IsText(M[p])
  <2>1. p \in NumberPath /\ FieldAt[<<rpc.in, p>>] # NoField
    BY <1>3, <1>4, <1>5
  <2>2. IsText(M[p])
    BY <1>1, <1>2, <1>4, Texts
  <2>3. QED
    BY <2>1, <2>2
<1>15. \A p \in kept \cup set : \A n \in 1..(Len(p) - 1) :
         SubSeq(p, 1, n) \in kept \cup set /\ IsEmbed(FieldAt[<<rpc.in, SubSeq(p, 1, n)>>])
  BY <1>11, <1>12
<1>16. Holdable(rpc.in, M)
  BY <1>1, <1>13, <1>14, <1>15 DEF Holdable, NumberPath
<1>17. QED
  BY <1>16 DEF M

(* The request is one of those there are, and the message one that can be. *)
Fit == call \in Calls /\ Holdable(rpc.in, msg)

LEMMA InitFit == Init => Fit
BY DEF Init, Fit, Holdable

LEMMA StepFit == Progress /\ Fit /\ [Next]_vars => Fit'
<1> SUFFICES ASSUME Progress, Fit, [Next]_vars PROVE Fit'
  OBVIOUS
<1>1. call' = call
  BY DEF Next, ReadBody, RefuseBody, MergeParam, Return, vars
<1>2. rpc' = rpc /\ call' \in Calls
  BY <1>1 DEF rpc, Fit
<1>3. Holdable(rpc.in, msg')
  <2>1. CASE msg' = msg
    BY <2>1 DEF Fit
  <2>2. CASE ReadBody
    <3>1. Holdable(rpc.in, call.body.fields)
      BY CallsAssumption DEF Fit, rpc
    <3>2. msg' = call.body.fields \/ msg' = msg
      BY <2>2 DEF ReadBody
    <3>3. QED
      BY <2>1, <3>1, <3>2
  <2>3. CASE MergeParam
    <3> DEFINE step == steps[at]
               value == Convert(step.conv, TextOf(step))
    <3>1. at \in DOMAIN steps /\ step \in StepType
      BY <2>3, StepsAreSteps DEF MergeParam, Progress
    <3>2. step.conv \in {"string", "int", "uint", "bool"}
      BY <3>1 DEF StepType
    <3>3. IsText(TextOf(step))
      BY <3>1, TextRead DEF Fit
    <3>4. value # <<>> => IsText(value[1])
      BY <3>2, <3>3, ConvertText
    <3>5. msg' = msg \/ (value # <<>> /\ msg' = Merge(step, value[1]))
      BY <2>3 DEF MergeParam
    <3> HIDE DEF value, step
    <3>6. value # <<>> => Holdable(rpc.in, Merge(step, value[1]))
      BY <3>1, <3>4, MergeHoldable DEF Fit
    <3>7. QED
      BY <2>1, <3>5, <3>6
  <2>4. QED
    BY <2>1, <2>2, <2>3 DEF Next, RefuseBody, Return, vars
<1>4. QED
  BY <1>2, <1>3 DEF Fit, Holdable

(* TypeOK: whatever the methods, the messages and the requests, a message  *)
(* into which body, query and path are merged is one that proto could      *)
(* hold: no field without the message it is in, no two members of a oneof. *)
THEOREM DecoderTypeCorrect == Spec => []TypeOK
<1>1. Progress /\ Fit => TypeOK
  <2> SUFFICES ASSUME Progress, Fit PROVE TypeOK
    OBVIOUS
  <2>1. outcome \in {"decoding", "ok", "InvalidArgument", "error"}
    BY FaultNames DEF Progress
  <2>2. QED
    BY <2>1 DEF Progress, Fit, TypeOK
<1>2. QED
  BY <1>1, InitFit, StepFit, AlwaysProgress, PTL DEF Spec

-----------------------------------------------------------------------------
(* What the generator knew of a step when it rendered it: a path of names  *)
(* from the request, its numbers, and, if there is one number, the field.  *)
LEMMA StepPath ==
  ASSUME call.rpc \in DOMAIN Rpcs, NEW k \in DOMAIN steps
  PROVE  \E source, key, index, path :
           /\ <<rpc.in, path>> \in NamePaths /\ path # <<>>
           /\ steps[k] = Step(source, key, index, rpc.in, path)
<1> DEFINE r == Rpcs[call.rpc]
           a == Len(QuerySteps(r))
           b == Len(PathSteps(r))
<1>1. steps = Steps(r) /\ rpc = r /\ r.in \in Messages /\ r.route \in RouteSet
  BY RpcsAssumption DEF steps, Generated, rpc
<1>2. ASSUME NEW path \in Seq(STRING) PROVE <<r.in, path>> \in NamePaths
  BY <1>1 DEF NamePaths
<1>3. CASE k \in 1..a
  <2> DEFINE name == QueryNames(r)[k]
             path == <<r.query[name]>>
  <2>1. name \in DOMAIN r.query /\ steps[k] = Step("query", name, 0, r.in, path)
    BY <1>1, <1>3, StepsSplit
  <2>2. r.query[name] \in STRING
    BY <2>1, RpcsAssumption
  <2>3. path \in Seq(STRING) /\ path # <<>>
    <3>1. PICK s \in STRING : s = r.query[name]
      BY <2>2
    <3>2. <<s>> \in Seq(STRING) /\ <<s>> # <<>>
      OBVIOUS
    <3>3. QED
      BY <3>1, <3>2
  <2> HIDE DEF path, name
  <2>4. QED
    BY <1>1, <1>2, <2>1, <2>3
<1>4. CASE k - a \in 1..b
  <2> DEFINE n == k - a
             tkn == ParseRoute(r.route)
             i == Nth(ParamsAt(tkn), n)
             path == Parts[tkn[i].Name]
  <2>1. a \in Nat /\ k \in Nat /\ n \in DOMAIN PathSteps(r) /\ steps[a + n] = PathSteps(r)[n]
    BY <1>1, <1>4, StepsSplit
  <2>2. i \in ParamsAt(tkn) /\ PathSteps(r)[n] = Step("path", "", n - 1, r.in, path)
    BY <2>1, PathStep
  <2>3. tkn[i].Name \in ParamNames
    BY <1>1, <2>2, ParsedRoute
  <2>4. path \in Seq(STRING) /\ path # <<>>
    BY <2>3, OrderAssumption
  <2>5. a + n = k
    BY <2>1
  <2> HIDE DEF path, i, tkn
  <2>6. PICK index : index = n - 1
    OBVIOUS
  <2>7. steps[k] = Step("path", "", index, r.in, path)
    BY <2>1, <2>2, <2>5, <2>6
  <2>8. <<rpc.in, path>> \in NamePaths
    BY <1>1, <1>2, <2>4
  <2>9. QED
    BY <1>1, <2>4, <2>7, <2>8
<1>5. QED
  BY <1>1, <1>3, <1>4, StepsSplit

LEMMA StepNums ==
  ASSUME NEW source, NEW key, NEW index, NEW m, NEW path
  PROVE  LET s == Step(source, key, index, m, path) IN
         /\ s.nums = Numbers[<<m, path>>]
         /\ Len(s.nums) = 1 => s.conv = Converter(FieldOf[<<m, path>>])
         /\ Len(s.nums) # 1 => s.conv = "string"
<1> DEFINE nums == Numbers[<<m, path>>]
           conv == IF Len(nums) = 1 THEN Converter(FieldOf[<<m, path>>]) ELSE "string"
<1>1. Step(source, key, index, m, path)
        = [source |-> source, key |-> key, index |-> index, nums |-> nums, conv |-> conv]
  BY DEF Step
<1>2. (Len(nums) = 1 => conv = Converter(FieldOf[<<m, path>>])) /\ (Len(nums) # 1 => conv = "string")
  OBVIOUS
<1> HIDE DEF nums, conv
<1>3. Step(source, key, index, m, path).nums = nums /\ Step(source, key, index, m, path).conv = conv
  BY <1>1
<1>4. QED
  BY <1>2, <1>3 DEF nums

(* A template other than that of strings is that of the field the decoder  *)
(* will fill.                                                              *)
LEMMA StepField ==
  ASSUME call.rpc \in DOMAIN Rpcs, NEW k \in DOMAIN steps, steps[k].conv # "string"
  PROVE  /\ Leaf(steps[k]) \in FieldType /\ Leaf(steps[k]).label = "one"
         /\ steps[k].conv = Converter(Leaf(steps[k]))
<1> DEFINE s == steps[k]
<1>1. s \in StepType
  BY StepsAreSteps
<1>2. PICK source, key, index, path :
        /\ <<rpc.in, path>> \in NamePaths
        /\ s = Step(source, key, index, rpc.in, path)
  BY StepPath
<1> DEFINE w == <<rpc.in, path>>
<1>3. /\ s.nums = Numbers[w]
      /\ Len(s.nums) = 1 => s.conv = Converter(FieldOf[w])
      /\ Len(s.nums) # 1 => s.conv = "string"
  BY <1>2, StepNums
<1>4. s.nums \in Seq(Nat \ {0}) /\ s.conv \in {"string", "int", "uint", "bool"} /\ s.conv # "string"
  BY <1>1 DEF StepType
<1>5. w \in NamePaths /\ w[1] = rpc.in
  BY <1>2
<1> HIDE DEF w, s
<1>6. Len(Numbers[w]) = 1 /\ Numbers[w] \in Seq(Nat \ {0}) /\ s.conv = Converter(FieldOf[w])
  BY <1>3, <1>4
<1>7. /\ FieldOf[w] \in FieldType
      /\ Reverse(Numbers[w]) = Numbers[w]
      /\ FieldAt[<<w[1], Numbers[w]>>] = FieldOf[w]
  BY <1>5, <1>6, SingleNumber
<1>8. Leaf(s) = FieldOf[w]
  BY <1>3, <1>5, <1>7 DEF Leaf, PathOf, Field
<1>9. FieldOf[w].label = "one"
  BY <1>4, <1>6 DEF Converter
<1>10. QED
  BY <1>6, <1>7, <1>8, <1>9 DEF s

-----------------------------------------------------------------------------
(* Ranges, and the schemas of the scalars a parameter can be.              *)
LEMMA Ranges ==
  /\ SignedRange(Narrow) \subseteq SignedRange(Wide)
  /\ 0..(Power(Narrow) - 1) \subseteq 0..(Power(Wide) - 1)
<1> DEFINE n == Power(Narrow - 1)
           w == Power(Wide - 1)
<1>1. /\ n \in Nat \ {0} /\ w \in Nat \ {0}
      /\ Power(Narrow) = 2 * n /\ Power(Wide) = 2 * w /\ Power(Narrow) <= w
  BY PowersAssumption
<1>2. SignedRange(Narrow) = -n..(n - 1) /\ SignedRange(Wide) = -w..(w - 1)
  BY DEF SignedRange
<1> HIDE DEF n, w
<1>3. QED
  BY <1>1, <1>2

OfScalar(f, s) == Annotated(f, applyNullable(f, s))

LEMMA NotBoolean ==
  ASSUME NEW types, NEW oneof
  PROVE  /\ "boolean" \notin types
              => "boolean" \notin IF oneof # "" THEN types \cup {"null"} ELSE types
         /\ "boolean" \in types
              => "boolean" \in IF oneof # "" THEN types \cup {"null"} ELSE types
OBVIOUS

LEMMA AnnotatedKeeps ==
  ASSUME NEW f, NEW s, s = OfScalar(f, schemaForScalar(f.kind))
  PROVE  /\ f.kind \in {"int64", "sfixed64", "sint64"} => s.format = "int64"
         /\ f.kind \in {"int32", "sfixed32", "sint32"} => s.format = "int32"
         /\ f.kind \in {"uint64", "fixed64"} => s.format = "uint64"
         /\ f.kind \in {"uint32", "fixed32"} => s.format = "uint32"
         /\ f.kind = "bool" => s.format = "" /\ "boolean" \in s.types
         /\ f.kind \in (IntKinds \cup UintKinds) \ {"enum"} => "boolean" \notin s.types
         /\ f.kind = "string" => s.format = "" /\ "boolean" \notin s.types
         /\ f.kind \in (IntKinds \cup UintKinds \cup {"bool", "string"}) \ {"enum"} => ~s.enum
<1>1. ASSUME NEW types, NEW format, schemaForScalar(f.kind) = Formatted(types, format)
      PROVE  /\ s.format = format /\ ~s.enum
             /\ "boolean" \notin types => "boolean" \notin s.types
  <2>1. /\ s.format = format /\ ~s.enum
        /\ s.types = IF f.oneof # "" THEN types \cup {"null"} ELSE types
    BY <1>1 DEF OfScalar, Annotated, applyNullable, Null, Formatted, Schema
  <2>2. QED
    BY <2>1, NotBoolean
<1>2. ASSUME NEW types, schemaForScalar(f.kind) = Schema(types)
      PROVE  /\ s.format = "" /\ ~s.enum
             /\ "boolean" \notin types => "boolean" \notin s.types
             /\ "boolean" \in types => "boolean" \in s.types
  <2>1. /\ s.format = "" /\ ~s.enum
        /\ s.types = IF f.oneof # "" THEN types \cup {"null"} ELSE types
    <3> DEFINE n == applyNullable(f, Schema(types))
    <3>1. n.format = "" /\ ~n.enum /\ n.types = IF f.oneof # "" THEN types \cup {"null"} ELSE types
      BY DEF applyNullable, Null, Schema
    <3>2. DOMAIN n = DOMAIN Schema(types)
      BY DEF applyNullable, Null, Schema
    <3> HIDE DEF n
    <3>3. /\ Annotated(f, n).format = n.format /\ Annotated(f, n).types = n.types
          /\ Annotated(f, n).enum = n.enum
      BY <3>2 DEF Annotated, Schema
    <3>4. s = Annotated(f, n)
      BY <1>2 DEF OfScalar, n
    <3>5. QED
      BY <3>1, <3>3, <3>4
  <2>2. QED
    BY <2>1, NotBoolean
<1>3. "boolean" \notin {"string"} /\ "boolean" \notin {"integer"} /\ "boolean" \in {"boolean"}
  OBVIOUS
<1>4. CASE f.kind \in {"int64", "sfixed64", "sint64"}
  <2>1. schemaForScalar(f.kind) = Formatted({"string"}, "int64")
    BY <1>4 DEF schemaForScalar
  <2>2. s.format = "int64" /\ "boolean" \notin s.types /\ ~s.enum
    BY <1>1, <1>3, <2>1
  <2>3. QED
    BY <1>4, <2>2
<1>5. CASE f.kind \in {"int32", "sfixed32", "sint32"}
  <2>1. schemaForScalar(f.kind) = Formatted({"integer"}, "int32")
    BY <1>5 DEF schemaForScalar
  <2>2. s.format = "int32" /\ "boolean" \notin s.types /\ ~s.enum
    BY <1>1, <1>3, <2>1
  <2>3. QED
    BY <1>5, <2>2
<1>6. CASE f.kind \in {"uint64", "fixed64"}
  <2>1. schemaForScalar(f.kind) = Formatted({"string"}, "uint64")
    BY <1>6 DEF schemaForScalar
  <2>2. s.format = "uint64" /\ "boolean" \notin s.types /\ ~s.enum
    BY <1>1, <1>3, <2>1
  <2>3. QED
    BY <1>6, <2>2
<1>7. CASE f.kind \in {"uint32", "fixed32"}
  <2>1. schemaForScalar(f.kind) = Formatted({"integer"}, "uint32")
    BY <1>7 DEF schemaForScalar
  <2>2. s.format = "uint32" /\ "boolean" \notin s.types /\ ~s.enum
    BY <1>1, <1>3, <2>1
  <2>3. QED
    BY <1>7, <2>2
<1>8. CASE f.kind = "bool"
  <2>1. schemaForScalar(f.kind) = Schema({"boolean"})
    BY <1>8 DEF schemaForScalar
  <2>2. s.format = "" /\ "boolean" \in s.types /\ ~s.enum
    BY <1>2, <1>3, <2>1
  <2>3. QED
    BY <1>8, <2>2 DEF IntKinds, UintKinds
<1>9. CASE f.kind = "string"
  <2>1. schemaForScalar(f.kind) = Schema({"string"})
    BY <1>9 DEF schemaForScalar
  <2>2. s.format = "" /\ "boolean" \notin s.types /\ ~s.enum
    BY <1>2, <1>3, <2>1
  <2>3. QED
    BY <1>9, <2>2
<1>10. QED
  BY <1>4, <1>5, <1>6, <1>7, <1>8, <1>9 DEF IntKinds, UintKinds

LEMMA TextsAdmitted ==
  ASSUME NEW s, NEW t, AdmittedText(s, t), ~s.enum,
         s.format # "" => "boolean" \notin s.types
  PROVE  /\ s.format \in {"int64", "int32"} => t.sort = "num" /\ t.num \in SignedRange(Wide)
         /\ s.format \in {"uint64", "uint32"} => t.sort = "num" /\ t.num \in 0..(Power(Wide) - 1)
         /\ s.format = "" /\ "boolean" \in s.types => t \in {Word("true"), Word("false")}
         /\ s.format = "" /\ "boolean" \notin s.types => t.sort \in {"word", "num"}
<1>1. CASE s.format = "int64"
  BY <1>1 DEF AdmittedText
<1>2. CASE s.format = "int32"
  <2>1. t.sort = "num" /\ t.num \in SignedRange(Narrow)
    BY <1>2 DEF AdmittedText
  <2>2. QED
    BY <1>2, <2>1, Ranges
<1>3. CASE s.format = "uint64"
  BY <1>3 DEF AdmittedText
<1>4. CASE s.format = "uint32"
  <2>1. t.sort = "num" /\ t.num \in 0..(Power(Narrow) - 1)
    BY <1>4 DEF AdmittedText
  <2>2. t.num \in 0..(Power(Wide) - 1)
    BY <2>1, Ranges
  <2>3. QED
    BY <1>4, <2>1, <2>2
<1>5. CASE s.format = ""
  BY <1>5 DEF AdmittedText
<1>6. QED
  BY <1>1, <1>2, <1>3, <1>4, <1>5

LEMMA Sorts ==
  /\ Absent.sort = "absent" /\ Empty.sort = "word" /\ Empty.sort # "num"
  /\ Garbled.sort \notin {"word", "num"} /\ Packed.sort \notin {"word", "num"}
  /\ \A t : t.sort = "num" => ~Blank(t)
<1>1. /\ Absent.sort = "absent" /\ Empty.sort = "word" /\ Garbled.sort = "garbled"
      /\ Packed.sort = "packed"
  BY DEF Absent, Empty, Word, Garbled, Packed, Text
<1>2. QED
  BY <1>1 DEF Blank

(* A text a string's schema admits is one a message can have; an enum's    *)
(* schema admits the names of its values only.                             *)
LEMMA StringAdmits ==
  ASSUME NEW f, f.kind = "string", f.label = "one", NEW t, AdmittedText(SchemaOfField(f), t)
  PROVE  t # Garbled /\ t # Packed
<1> DEFINE s == SchemaOfField(f)
<1>1. s.format = "" /\ "boolean" \notin s.types /\ ~s.enum
  <2>1. s = OfScalar(f, schemaForScalar(f.kind))
    BY DEF SchemaOfField, OfScalar
  <2>2. QED
    BY <2>1, AnnotatedKeeps
<1> HIDE DEF s
<1>2. t.sort \in {"word", "num"}
  BY <1>1, TextsAdmitted DEF s
<1>3. QED
  BY <1>2, Sorts

LEMMA EnumAdmits ==
  ASSUME NEW f, f.kind = "enum", f.label = "one", NEW t, AdmittedText(SchemaOfField(f), t)
  PROVE  Convert("int", t) = <<>>
<1> DEFINE n == applyNullable(f, Enum)
<1>1. SchemaOfField(f) = Annotated(f, n)
  BY DEF SchemaOfField
<1>2. n.enum = TRUE /\ "enum" \in DOMAIN n
  BY DEF applyNullable, Null, Enum, Schema
<1> HIDE DEF n
<1>3. Annotated(f, n).enum = TRUE
  BY <1>2 DEF Annotated
<1>4. t.sort = "word" /\ t # Empty
  BY <1>1, <1>3 DEF AdmittedText
<1>5. ~Blank(t) /\ t.sort # "num"
  BY <1>4, Sorts DEF Blank
<1>6. QED
  BY <1>5 DEF Convert

(* What the schema of a field admits, its template can convert.            *)
LEMMA ScalarAdmits ==
  ASSUME NEW f \in FieldType, f.label = "one", f.kind # "enum",
         NEW t, IsText(t), AdmittedText(SchemaOfField(f), t),
         Converter(f) \in {"int", "uint", "bool"}
  PROVE  Convert(Converter(f), t) # <<>>
<1> DEFINE s == SchemaOfField(f)
<1>1. /\ Converter(f) = "int" => f.kind \in IntKinds
      /\ Converter(f) = "uint" => f.kind \in UintKinds
      /\ Converter(f) = "bool" => f.kind = "bool"
  BY DEF Converter
<1>2. f.kind \notin {"enum", "message"}
  BY <1>1 DEF IntKinds, UintKinds
<1>3. s = OfScalar(f, schemaForScalar(f.kind))
  BY <1>2 DEF SchemaOfField, OfScalar
<1>4. /\ f.kind \in {"int64", "sfixed64", "sint64"} => s.format = "int64"
      /\ f.kind \in {"int32", "sfixed32", "sint32"} => s.format = "int32"
      /\ f.kind \in {"uint64", "fixed64"} => s.format = "uint64"
      /\ f.kind \in {"uint32", "fixed32"} => s.format = "uint32"
      /\ f.kind = "bool" => s.format = "" /\ "boolean" \in s.types
      /\ f.kind \in (IntKinds \cup UintKinds) \ {"enum"} => "boolean" \notin s.types
      /\ ~s.enum
  BY <1>1, <1>2, <1>3, AnnotatedKeeps
<1> HIDE DEF s
<1>5. CASE Converter(f) = "int"
  <2>1. s.format = "int64" \/ s.format = "int32"
    BY <1>1, <1>2, <1>4, <1>5 DEF IntKinds
  <2>1a. "boolean" \notin s.types /\ ~s.enum
    BY <1>1, <1>2, <1>4, <1>5
  <2>2. t.sort = "num" /\ t.num \in SignedRange(Wide)
    BY <2>1, <2>1a, TextsAdmitted DEF s
  <2>3. Convert("int", t) \in {<<Num(0)>>, <<t>>}
    BY <2>2 DEF Convert
  <2>4. QED
    BY <1>5, <2>3
<1>6. CASE Converter(f) = "uint"
  <2>1. s.format = "uint64" \/ s.format = "uint32"
    BY <1>1, <1>4, <1>6 DEF UintKinds
  <2>1a. "boolean" \notin s.types /\ ~s.enum
    BY <1>1, <1>2, <1>4, <1>6
  <2>2. t.sort = "num" /\ t.num \in 0..(Power(Wide) - 1)
    BY <2>1, <2>1a, TextsAdmitted DEF s
  <2>3. Convert("uint", t) = <<t>>
    BY <2>2 DEF Convert
  <2>4. QED
    BY <1>6, <2>3
<1>7. CASE Converter(f) = "bool"
  <2>1. t \in {Word("true"), Word("false")}
    BY <1>1, <1>4, <1>7, TextsAdmitted DEF s
  <2>2. Convert("bool", t) \in {<<Num(1)>>, <<Num(0)>>}
    BY <2>1 DEF Convert, ParseBool
  <2>3. QED
    BY <1>7, <2>2
<1>8. QED
  BY <1>5, <1>6, <1>7

(* The bytes of a step of one or two numbers end in the field it is for.   *)
LEMMA EndsAtLeaf ==
  ASSUME call.rpc \in DOMAIN Rpcs, NEW k \in DOMAIN steps, Len(steps[k].nums) <= 2,
         NEW p \in Ends(steps[k])
  PROVE  p = PathOf(steps[k])
<1> DEFINE s == steps[k]
           path == PathOf(s)
<1>1. s \in StepType
  BY StepsAreSteps
<1>2. s.nums \in Seq(Nat \ {0})
  BY <1>1 DEF StepType
<1>3. p \in Along(s) /\ (p = path \/ ~IsEmbed(Field(p)))
  BY DEF Ends
<1>4. path \in Seq(Nat) /\ \E j \in 1..Len(path) : p = SubSeq(path, 1, j)
  BY <1>1, <1>3, AlongFacts
<1>5. PICK j \in 1..Len(path) : p = SubSeq(path, 1, j)
  BY <1>4
<1>6. Len(path) = Len(s.nums) /\ Len(s.nums) \in Nat
  <2>1. DOMAIN path = 1..Len(s.nums) /\ Len(s.nums) \in Nat
    BY <1>2 DEF PathOf, Reverse
  <2>2. DOMAIN path = 1..Len(path) /\ Len(path) \in Nat
    BY <1>4
  <2>3. PICK m \in Nat, n \in Nat : m = Len(path) /\ n = Len(s.nums)
    BY <2>1, <2>2
  <2>4. 1..m = 1..n => m = n
    OBVIOUS
  <2>5. QED
    BY <2>1, <2>2, <2>3, <2>4
<1>7. CASE j = Len(path)
  BY <1>4, <1>5, <1>7, SubSeqPrefixes
<1>8. CASE j # Len(path)
  <2>1. j = 1 /\ Len(s.nums) = 2
    <3>1. PICK n \in Nat : n = Len(path)
      BY <1>6
    <3>2. n = Len(s.nums) /\ n <= 2
      BY <1>6, <3>1
    <3>3. j \in 1..n /\ j # n
      BY <1>5, <1>8, <3>1
    <3> HIDE DEF path, s
    <3>4. j = 1 /\ n = 2
      <4>1. \A i \in 1..n : n <= 2 /\ i # n => i = 1 /\ n = 2
        BY SMT
      <4>2. QED
        BY <3>2, <3>3, <4>1
    <3>5. QED
      BY <3>2, <3>4
  <2>2. PICK source, key, index, names :
          /\ <<rpc.in, names>> \in NamePaths
          /\ s = Step(source, key, index, rpc.in, names)
    BY StepPath
  <2> DEFINE w == <<rpc.in, names>>
  <2>3. s.nums = Numbers[w] /\ w \in NamePaths /\ w[1] = rpc.in
    BY <2>2, StepNums
  <2> HIDE DEF w
  <2>4. Numbers[w] \in Seq(Nat \ {0}) /\ Len(Numbers[w]) = 2
    BY <1>2, <2>1, <2>3
  <2>5. Len(w[2]) = 2
    BY <2>3, <2>4, TwoNumbersTwoNames
  <2>6. /\ Reverse(Numbers[w]) = PathNumbers[w]
        /\ IsEmbed(FieldAt[<<w[1], SubSeq(PathNumbers[w], 1, 1)>>])
    BY <2>3, <2>4, <2>5, TwoNumbers
  <2>7. path = PathNumbers[w]
    BY <2>3, <2>6 DEF PathOf
  <2>8. IsEmbed(Field(p))
    BY <1>5, <2>1, <2>3, <2>6, <2>7 DEF Field
  <2>9. QED
    BY <1>3, <2>8
<1>9. QED
  BY <1>7, <1>8

(* A value in its field is taken, unless it is a text that is not UTF-8,   *)
(* or the field a message or a list.                                       *)
LEMMA LeafTakes ==
  ASSUME NEW s, \A p \in Ends(s) : p = PathOf(s), NEW v,
         Leaf(s).label = "one", Leaf(s).kind # "message",
         Leaf(s).kind = "string" => v # Garbled /\ v # Packed
  PROVE  CanTake(s, v) /\ ~CanRefuse(s, v)
<1>1. Leaf(s) = Field(PathOf(s))
  BY DEF Leaf
<1>2. Bytes(s, PathOf(s), v) = v
  BY DEF Bytes
<1>3. ~MustRefuse(Leaf(s), v) /\ ~MayRefuse(Leaf(s), v)
  BY DEF MustRefuse, MayRefuse
<1>4. QED
  BY <1>1, <1>2, <1>3 DEF CanTake, CanRefuse

LEMMA DocumentedFaults ==
  ASSUME call \in Calls, NEW k \in DOMAIN steps, Documented(steps[k])
  PROVE  FaultsOf(steps[k]) = IF RefusedThough(steps[k]) THEN {"InvalidArgument"} ELSE {"no"}
<1> DEFINE s == steps[k]
           f == Leaf(s)
           t == TextOf(s)
           value == Convert(s.conv, t)
<1>1. call.rpc \in DOMAIN Rpcs
  BY CallsAssumption
<1>2. s \in StepType
  BY <1>1, StepsAreSteps
<1>3. IsText(t) /\ (s.source = "path" => t # Absent)
  BY TextRead
<1>4. s.conv \in {"string", "int", "uint", "bool"} /\ s.source \in {"path", "query"}
  BY <1>2 DEF StepType
<1>5. /\ Len(s.nums) <= 2 /\ f.label = "one" /\ f.kind # "message"
      /\ t = Absent \/ AdmittedText(SchemaOfField(f), t)
  BY DEF Documented
<1>6. \A p \in Ends(s) : p = PathOf(s)
  BY <1>1, <1>5, EndsAtLeaf
<1>7. ASSUME s.conv # "string"
      PROVE  f \in FieldType /\ s.conv = Converter(f) /\ f.kind # "string"
  <2>1. f \in FieldType /\ s.conv = Converter(f)
    BY <1>1, <1>7, StepField
  <2>2. QED
    BY <1>5, <1>7, <2>1 DEF Converter, IntKinds, UintKinds
<1>8. Skipped(s) <=> s.conv = "bool" /\ t = IF s.source = "query" THEN Absent ELSE Empty
  BY DEF Skipped
<1>9. FaultsOf(s) = IF Skipped(s) THEN {"no"}
                    ELSE IF value = <<>> THEN {"InvalidArgument"}
                    ELSE {fault \in {"no", "error"} :
                            IF fault = "no" THEN CanTake(s, value[1])
                            ELSE CanRefuse(s, value[1])}
  BY DEF FaultsOf
<1>10. RefusedThough(s) <=> \/ s.conv = "int" /\ f.kind = "enum" /\ t # Absent
                            \/ s.conv = "uint" /\ t = Absent
  BY DEF RefusedThough
<1>11. f.kind # "string" => CanTake(s, value[1]) /\ ~CanRefuse(s, value[1])
  BY <1>5, <1>6, LeafTakes
<1>12. CASE s.conv = "string"
  <2>1. value = <<IF t = Absent THEN Empty ELSE t>>
    BY <1>12 DEF Convert
  <2>2. f.kind = "string" => value[1] # Garbled /\ value[1] # Packed
    <3>1. Empty # Garbled /\ Empty # Packed
      BY DEF Empty, Word, Garbled, Packed, Text
    <3>2. f.kind = "string" /\ t # Absent => t # Garbled /\ t # Packed
      BY <1>5, StringAdmits
    <3>3. value[1] = IF t = Absent THEN Empty ELSE t
      BY <2>1
    <3>4. QED
      BY <3>1, <3>2, <3>3
  <2>3. CanTake(s, value[1]) /\ ~CanRefuse(s, value[1]) /\ value # <<>>
    BY <1>5, <1>6, <2>1, <2>2, LeafTakes
  <2> HIDE DEF s, f, t, value
  <2>4. FaultsOf(s) = {"no"}
    BY <1>9, <2>3
  <2>5. QED
    BY <1>10, <1>12, <2>4 DEF s
<1>13. CASE s.conv # "string" /\ t # Absent
  <2>1. CASE f.kind = "enum"
    <3>1. s.conv = "int"
      BY <1>5, <1>7, <1>13, <2>1 DEF Converter, IntKinds
    <3>2. value = <<>>
      BY <1>5, <1>13, <2>1, <3>1, EnumAdmits
    <3> HIDE DEF s, f, t, value
    <3>3. QED
      BY <1>8, <1>9, <1>10, <1>13, <2>1, <3>1, <3>2 DEF s
  <2>2. CASE f.kind # "enum"
    <3>1. value # <<>>
      BY <1>3, <1>4, <1>5, <1>7, <1>13, <2>2, ScalarAdmits
    <3>2. CanTake(s, value[1]) /\ ~CanRefuse(s, value[1])
      BY <1>7, <1>11, <1>13
    <3> HIDE DEF s, f, t, value
    <3>3. FaultsOf(s) = {"no"}
      BY <1>9, <3>1, <3>2
    <3>4. QED
      BY <1>10, <1>13, <2>2, <3>3 DEF s
  <2>3. QED
    BY <2>1, <2>2
<1>14. CASE s.conv # "string" /\ t = Absent
  <2>1. Absent.sort # "num"
    BY DEF Absent, Text
  <2>2. CASE s.conv = "int"
    <3>1. value # <<>>
      BY <1>14, <2>2 DEF Convert, Blank
    <3>2. CanTake(s, value[1]) /\ ~CanRefuse(s, value[1])
      BY <1>7, <1>11, <1>14
    <3> HIDE DEF s, f, t, value
    <3>3. FaultsOf(s) = {"no"}
      BY <1>9, <3>1, <3>2
    <3>4. QED
      BY <1>10, <1>14, <2>2, <3>3 DEF s
  <2>3. CASE s.conv = "uint"
    <3>1. value = <<>>
      BY <1>14, <2>1, <2>3 DEF Convert
    <3> HIDE DEF s, f, t, value
    <3>2. QED
      BY <1>8, <1>9, <1>10, <1>14, <2>3, <3>1 DEF s
  <2>4. CASE s.conv = "bool"
    <3> HIDE DEF s, f, t, value
    <3>1. QED
      BY <1>3, <1>4, <1>8, <1>9, <1>10, <1>14, <2>4 DEF s
  <2>5. QED
    BY <1>4, <1>14, <2>2, <2>3, <2>4
<1>15. QED
  BY <1>12, <1>13, <1>14

(* DocumentedRequestsDecode: whatever the methods and their messages, of   *)
(* the requests the document admits the decoder refuses just those that    *)
(* name an enum's value or do without an unsigned integer.                 *)
THEOREM DocumentedDecode == Spec => []DocumentedRequestsDecode
<1>1. Progress /\ Fit => DocumentedRequestsDecode
  <2> SUFFICES ASSUME Progress, Fit, outcome # "decoding", BodyFault = "no",
                      \A i \in DOMAIN steps : Documented(steps[i])
               PROVE  outcome = "ok" <=> \A i \in DOMAIN steps : ~RefusedThough(steps[i])
    BY DEF DocumentedRequestsDecode
  <2>1. DOMAIN steps = 1..Len(steps) /\ Len(steps) \in Nat /\ at \in 0..(Len(steps) + 1)
    BY StepsAreSteps DEF Progress
  <2>2. \A i \in DOMAIN steps :
          FaultsAt(i) = IF RefusedThough(steps[i]) THEN {"InvalidArgument"} ELSE {"no"}
    <3>1. SUFFICES ASSUME NEW i \in DOMAIN steps
                   PROVE  FaultsAt(i) = IF RefusedThough(steps[i]) THEN {"InvalidArgument"} ELSE {"no"}
      OBVIOUS
    <3>2. i # 0
      BY <2>1
    <3>3. QED
      BY <3>2, DocumentedFaults DEF FaultsAt, Fit
  <2>3. CASE outcome = "ok" /\ at = Len(steps) + 1
    <3>1. \A i \in DOMAIN steps : "no" \in FaultsAt(i)
      BY <2>1, <2>3 DEF Progress
    <3>2. QED
      BY <2>2, <2>3, <3>1
  <2>4. CASE outcome \in FaultsAt(at) \ {"no"} /\ at <= Len(steps)
    <3>1. at # 0
      BY <2>4 DEF FaultsAt
    <3>2. at \in DOMAIN steps
      BY <2>1, <2>4, <3>1
    <3>3. RefusedThough(steps[at]) /\ outcome = "InvalidArgument"
      BY <2>2, <2>4, <3>2
    <3>4. QED
      BY <3>2, <3>3
  <2>5. QED
    BY <2>3, <2>4 DEF Progress
<1>2. QED
  BY <1>1, InitFit, StepFit, AlwaysProgress, PTL DEF Spec

-----------------------------------------------------------------------------
(* ParametersDelivered: the parameters a request gives, and the steps that *)
(* read them.                                                              *)
LEMMA PathStepAt ==
  ASSUME NEW name \in DOMAIN Rpcs, NEW i \in ParamsAt(ParseRoute(Rpcs[name].route))
  PROVE  LET r == Rpcs[name]
             n == ParseRoute(r.route)[i].ParamIndex + 1
         IN /\ n \in DOMAIN PathSteps(r) /\ n \in Nat
            /\ Nth(ParamsAt(ParseRoute(r.route)), n) = i
<1> DEFINE r == Rpcs[name]
           tkn == ParseRoute(r.route)
           I == ParamsAt(tkn)
           n == tkn[i].ParamIndex + 1
<1>1. r.route \in RouteSet
  BY RpcsAssumption
<1>2. tkn \in Seq(Parsed) /\ tkn[i].ParamIndex = Rank(I, i)
  BY <1>1, ParsedRoute
<1>3. DOMAIN PathSteps(r) = 1..Cardinality(I)
  BY PathStep
<1> HIDE DEF tkn
<1>4. I \in SUBSET DOMAIN tkn
  BY DEF ParamsAt
<1>5. I \in SUBSET Nat /\ IsFiniteSet(I) /\ i \in I
  BY <1>2, <1>4, Positions DEF tkn
<1> HIDE DEF I
<1>6. Rank(I, i) + 1 \in 1..Cardinality(I) /\ Rank(I, i) \in Nat
  BY <1>5, RankBelow, RankType
<1>7. Nth(I, Rank(I, i) + 1) = i
  BY <1>5, NthOfRank
<1>8. n = Rank(I, i) + 1
  BY <1>2
<1>9. QED
  BY <1>3, <1>6, <1>7, <1>8 DEF I, tkn

(* A given parameter's step reads its text, and was made of its path.      *)
IsGivenBy(g, s, path) ==
  /\ <<rpc.in, path>> \in NamePaths
  /\ \E source, key, index : s = Step(source, key, index, rpc.in, path)
  /\ g.path = PathNumbers[<<rpc.in, path>>]
  /\ g.text = TextOf(s) /\ IsText(g.text)

LEMMA GivenByPath ==
  ASSUME call \in Calls,
         NEW i \in ParamsAt(ParseRoute(rpc.route)),
         NEW g, g = [path |-> PathNumbers[<<rpc.in, Parts[ParseRoute(rpc.route)[i].Name]>>],
                     text |-> call.path[i],
                     at |-> Len(QuerySteps(rpc)) + ParseRoute(rpc.route)[i].ParamIndex + 1]
  PROVE  /\ g.at \in DOMAIN steps
         /\ IsGivenBy(g, steps[g.at], Parts[ParseRoute(rpc.route)[i].Name])
<1> DEFINE name == call.rpc
           tkn == ParseRoute(rpc.route)
           path == Parts[tkn[i].Name]
           n == tkn[i].ParamIndex + 1
           a == Len(QuerySteps(rpc))
           b == Len(PathSteps(rpc))
<1>1. /\ name \in DOMAIN Rpcs /\ rpc = Rpcs[name] /\ steps = Steps(rpc)
      /\ \A j \in DOMAIN Registered[name] : IsText(call.path[j])
  BY CallsAssumption DEF rpc, steps, Generated
<1>2. rpc.route \in RouteSet /\ rpc.in \in Messages
  BY <1>1, RpcsAssumption
<1>3. n \in DOMAIN PathSteps(rpc) /\ n \in Nat /\ Nth(ParamsAt(tkn), n) = i
  BY <1>1, PathStepAt
<1>4. /\ PathSteps(rpc)[n] = Step("path", "", n - 1, rpc.in, path)
      /\ BoundPosition(Registered[name], n - 1) = i
      /\ i \in DOMAIN Registered[name]
  BY <1>1, <1>3, PathStep
<1>5. a \in Nat /\ n \in 1..b /\ b \in Nat /\ DOMAIN steps = 1..(a + b) /\ steps[a + n] = PathSteps(rpc)[n]
  <2> DEFINE r == Rpcs[name]
  <2>1. /\ Len(QuerySteps(r)) \in Nat /\ Len(PathSteps(r)) \in Nat
        /\ DOMAIN PathSteps(r) = 1..Len(PathSteps(r))
        /\ DOMAIN Steps(r) = 1..(Len(QuerySteps(r)) + Len(PathSteps(r)))
        /\ \A k \in 1..Len(PathSteps(r)) : Steps(r)[Len(QuerySteps(r)) + k] = PathSteps(r)[k]
    BY <1>1, StepsSplit
  <2>2. r = rpc
    BY <1>1
  <2> HIDE DEF r, n
  <2>3. QED
    BY <1>1, <1>3, <2>1, <2>2
<1>6. tkn[i].Name \in ParamNames /\ tkn[i].ParamIndex \in Nat
  <2>1. tkn \in Seq(Parsed) /\ tkn[i].Name \in ParamNames
    BY <1>2, ParsedRoute
  <2>2. i \in DOMAIN tkn
    BY DEF ParamsAt
  <2> HIDE DEF tkn
  <2>3. tkn[i] \in Parsed
    BY <2>1, <2>2
  <2>4. QED
    BY <2>1, <2>3 DEF Parsed
<1>7. path \in Seq(STRING) \ {<<>>}
  BY <1>6, OrderAssumption
<1>8. <<rpc.in, path>> \in NamePaths
  BY <1>2, <1>7 DEF NamePaths
<1>9. g.at = a + n /\ g.text = call.path[i] /\ g.path = PathNumbers[<<rpc.in, path>>]
  BY <1>5, <1>6
<1> HIDE DEF path, tkn, a, b, n
<1>10. g.at \in DOMAIN steps /\ steps[g.at] = PathSteps(rpc)[n]
  BY <1>3, <1>5, <1>9
<1>11. PICK index : index = n - 1
  OBVIOUS
<1>12. steps[g.at] = Step("path", "", index, rpc.in, path)
  BY <1>4, <1>10, <1>11
<1>13. steps[g.at].source = "path" /\ steps[g.at].index = index
  <2>1. \E key, m, ps : steps[g.at] = Step("path", key, index, m, ps)
    BY <1>12
  <2>2. QED
    BY <2>1, StepHas
<1>14. TextOf(steps[g.at]) = call.path[i]
  BY <1>4, <1>11, <1>13 DEF TextOf
<1>15. \E source, key, ind : steps[g.at] = Step(source, key, ind, rpc.in, path)
  BY <1>12
<1>16. IsGivenBy(g, steps[g.at], path)
  BY <1>1, <1>4, <1>8, <1>9, <1>14, <1>15 DEF IsGivenBy
<1>17. QED
  BY <1>10, <1>16 DEF path, tkn

LEMMA GivenByQuery ==
  ASSUME call \in Calls,
         NEW k \in DOMAIN QuerySteps(rpc),
         NEW g, g = [path |-> PathNumbers[<<rpc.in, <<rpc.query[steps[k].key]>> >>],
                     text |-> IF steps[k].key \in DOMAIN call.query
                              THEN call.query[steps[k].key] ELSE Absent,
                     at |-> k]
  PROVE  /\ g.at \in DOMAIN steps
         /\ IsGivenBy(g, steps[g.at], <<rpc.query[steps[k].key]>>)
<1> DEFINE name == QueryNames(rpc)[k]
           path == <<rpc.query[name]>>
<1>1. /\ call.rpc \in DOMAIN Rpcs /\ rpc = Rpcs[call.rpc] /\ steps = Steps(rpc)
      /\ \A key \in DOMAIN call.query : IsText(call.query[key])
  BY CallsAssumption DEF rpc, steps, Generated
<1>2. /\ k \in DOMAIN steps /\ name \in DOMAIN rpc.query
      /\ steps[k] = Step("query", name, 0, rpc.in, path)
  <2> DEFINE r == Rpcs[call.rpc]
             A == Len(QuerySteps(r))
             B == Len(PathSteps(r))
  <2>1. /\ A \in Nat /\ B \in Nat /\ DOMAIN QuerySteps(r) = 1..A
        /\ DOMAIN Steps(r) = 1..(A + B)
        /\ \A j \in 1..A : /\ QueryNames(r)[j] \in DOMAIN r.query
                           /\ Steps(r)[j] = Step("query", QueryNames(r)[j], 0, r.in,
                                                 <<r.query[QueryNames(r)[j]]>>)
    BY <1>1, StepsSplit
  <2>2. r = rpc
    BY <1>1
  <2> HIDE DEF r
  <2>3. k \in 1..A /\ k \in 1..(A + B)
    BY <2>1, <2>2
  <2> HIDE DEF A, B
  <2>4. QED
    BY <1>1, <2>1, <2>2, <2>3
<1>3. rpc.query[name] \in STRING /\ rpc.in \in Messages
  BY <1>1, <1>2, RpcsAssumption
<1>4. path \in Seq(STRING)
  <2>1. PICK s \in STRING : s = rpc.query[name]
    BY <1>3
  <2>2. <<s>> \in Seq(STRING)
    OBVIOUS
  <2>3. QED
    BY <2>1, <2>2
<1>5. <<rpc.in, path>> \in NamePaths
  BY <1>3, <1>4 DEF NamePaths
<1>6. steps[k].source = "query" /\ steps[k].key = name
  BY <1>2, StepFields
<1>7. TextOf(steps[k]) = IF name \in DOMAIN call.query THEN call.query[name] ELSE Absent
  BY <1>6 DEF TextOf
<1>8. g.path = PathNumbers[<<rpc.in, path>>] /\ g.text = TextOf(steps[k]) /\ g.at = k
  BY <1>6, <1>7
<1>9. path = <<rpc.query[steps[k].key]>>
  BY <1>6
<1> HIDE DEF path, name
<1>10. \E source, key, ind : steps[k] = Step(source, key, ind, rpc.in, path)
  BY <1>2
<1>11. IsText(TextOf(steps[k]))
  BY <1>2, TextRead
<1>12. IsGivenBy(g, steps[k], path)
  BY <1>5, <1>8, <1>10, <1>11 DEF IsGivenBy
<1>13. QED
  BY <1>2, <1>8, <1>9, <1>12

LEMMA GivenStep ==
  ASSUME call \in Calls, NEW g \in Given
  PROVE  g.at \in DOMAIN steps /\ \E path : IsGivenBy(g, steps[g.at], path)
<1> DEFINE tkn == ParseRoute(rpc.route)
<1>1. \/ \E i \in ParamsAt(tkn) :
           g = [path |-> PathNumbers[<<rpc.in, Parts[tkn[i].Name]>>], text |-> call.path[i],
                at |-> Len(QuerySteps(rpc)) + tkn[i].ParamIndex + 1]
      \/ \E k \in DOMAIN QuerySteps(rpc) :
           g = [path |-> PathNumbers[<<rpc.in, <<rpc.query[steps[k].key]>> >>],
                text |-> IF steps[k].key \in DOMAIN call.query
                         THEN call.query[steps[k].key] ELSE Absent,
                at |-> k]
  BY DEF Given, ParamsAt
<1>2. QED
  BY <1>1, GivenByPath, GivenByQuery

(* A parameter the decoder's numbers reach: its path has at most two names,*)
(* and so as many numbers.                                                 *)
Near(g) == Len(g.path) <= 2

LEMMA GivenNear ==
  ASSUME NEW g, NEW s \in StepType, NEW path, IsGivenBy(g, s, path)
  PROVE  Near(g) <=> Len(path) <= 2
<1> DEFINE w == <<rpc.in, path>>
<1>1. PICK source, key, index : s = Step(source, key, index, rpc.in, path)
  BY DEF IsGivenBy
<1>2. s.nums = Numbers[w]
  BY <1>1, StepNums
<1>3. Numbers[w] \in Seq(Nat \ {0})
  BY <1>2 DEF StepType
<1>4. w \in NamePaths /\ g.path = PathNumbers[w] /\ w[2] = path
  BY DEF IsGivenBy
<1> HIDE DEF w
<1>5. QED
  BY <1>3, <1>4, ShortPath DEF Near

LEMMA GivenField ==
  ASSUME NEW g, NEW s \in StepType, NEW path, IsGivenBy(g, s, path), Near(g)
  PROVE  /\ PathOf(s) = g.path /\ Leaf(s) = FieldAt[<<rpc.in, g.path>>] /\ Leaf(s) \in FieldType
         /\ Len(g.path) \in 1..2
         /\ Len(g.path) = 1 => s.conv = Converter(Leaf(s))
         /\ Len(g.path) = 2 => s.conv = "string"
         /\ Accepts(Leaf(s), WireOf(s.conv)) => g.path \in Ends(s)
<1> DEFINE w == <<rpc.in, path>>
           p == g.path
<1>1. PICK source, key, index : s = Step(source, key, index, rpc.in, path)
  BY DEF IsGivenBy
<1>2. /\ s.nums = Numbers[w]
      /\ Len(s.nums) = 1 => s.conv = Converter(FieldOf[w])
      /\ Len(s.nums) # 1 => s.conv = "string"
  BY <1>1, StepNums
<1>3. s.nums \in Seq(Nat \ {0})
  BY DEF StepType
<1>4. w \in NamePaths /\ Len(w[2]) <= 2 /\ p = PathNumbers[w] /\ w[1] = rpc.in
  BY GivenNear DEF IsGivenBy
<1> HIDE DEF w, p
<1>5. Len(w[2]) \in Nat
  BY <1>4, NameStep
<1>6. /\ Reverse(s.nums) = p /\ Len(s.nums) = Len(p) /\ Len(p) \in 1..2
      /\ FieldAt[<<rpc.in, p>>] = FieldOf[w] /\ FieldOf[w] \in FieldType
      /\ Len(p) = 2 => IsEmbed(FieldAt[<<rpc.in, SubSeq(p, 1, 1)>>])
  <2>1. CASE Len(w[2]) <= 1
    <3>1. p = Numbers[w] /\ Len(Numbers[w]) = 1
      BY <1>4, <2>1, OneName
    <3>2. /\ FieldOf[w] \in FieldType /\ Reverse(Numbers[w]) = Numbers[w]
          /\ FieldAt[<<w[1], Numbers[w]>>] = FieldOf[w]
      BY <1>2, <1>3, <1>4, <3>1, SingleNumber
    <3>3. QED
      BY <1>2, <1>4, <3>1, <3>2
  <2>2. CASE ~(Len(w[2]) <= 1)
    <3>1. Len(w[2]) = 2
      <4>1. PICK n : n = Len(w[2])
        OBVIOUS
      <4>2. n \in Nat /\ n <= 2 /\ ~(n <= 1)
        BY <1>4, <1>5, <2>2, <4>1
      <4>3. n = 2
        BY <4>2
      <4>4. QED
        BY <4>1, <4>3
    <3>2. /\ FieldOf[w] \in FieldType
          /\ Len(Numbers[w]) = 2 /\ Len(PathNumbers[w]) = 2
          /\ Reverse(Numbers[w]) = PathNumbers[w]
          /\ FieldAt[<<w[1], PathNumbers[w]>>] = FieldOf[w]
          /\ IsEmbed(FieldAt[<<w[1], SubSeq(PathNumbers[w], 1, 1)>>])
      BY <1>2, <1>3, <1>4, <3>1, TwoNumbers
    <3>3. QED
      BY <1>2, <1>4, <3>2
  <2>3. QED
    BY <2>1, <2>2
<1>7. PathOf(s) = p /\ Leaf(s) = FieldAt[<<rpc.in, p>>]
  BY <1>6 DEF PathOf, Leaf, Field
<1>8. p \in Seq(Nat)
  <2>1. PathOf(s) \in Seq(Nat)
    BY <1>3 DEF PathOf, Reverse
  <2>2. QED
    BY <1>7, <2>1
<1>9. ASSUME Accepts(Leaf(s), WireOf(s.conv)) PROVE p \in Along(s)
  <2> DEFINE L == Len(p)
             Wire(n) == IF n = L THEN WireOf(s.conv) ELSE "bytes"
             Taken(n) == /\ Accepts(Field(SubSeq(p, 1, n)), Wire(n))
                         /\ \A j \in 1..(n - 1) : IsEmbed(Field(SubSeq(p, 1, j)))
             K == {n \in DOMAIN p : Taken(n)}
  <2>1. Along(s) = {SubSeq(p, 1, k) : k \in K}
    BY <1>7 DEF Along
  <2>2. L \in 1..2 /\ DOMAIN p = 1..L
    BY <1>6, <1>8
  <2>3. SubSeq(p, 1, L) = p
    BY <1>8, <2>2, SubSeqPrefixes
  <2>4. Accepts(Field(SubSeq(p, 1, L)), Wire(L))
    BY <1>7, <1>9, <2>3 DEF Field
  <2>5. L = 2 => IsEmbed(Field(SubSeq(p, 1, 1)))
    BY <1>6 DEF Field
  <2> HIDE DEF Wire, L
  <2>6. \A j \in 1..(L - 1) : L = 2 /\ j = 1
    BY <2>2
  <2>7. Taken(L)
    BY <2>4, <2>5, <2>6
  <2>8. L \in K
    BY <2>2, <2>7
  <2> HIDE DEF K
  <2>9. QED
    BY <2>1, <2>3, <2>8
<1>10. Accepts(Leaf(s), WireOf(s.conv)) => p \in Ends(s)
  BY <1>7, <1>9 DEF Ends
<1>11. QED
  BY <1>2, <1>6, <1>7, <1>10 DEF p

-----------------------------------------------------------------------------
(* A number a field can hold comes back from the wire as it was.           *)
LEMMA Remainders ==
  ASSUME NEW m \in Nat \ {0}, NEW n \in Int
  PROVE  /\ n \in 0..(2 * m - 1) => n % (2 * m) = n
         /\ n \in -m..(-1) => n % (2 * m) = n + 2 * m
BY Z3

LEMMA HeldNumbers ==
  ASSUME NEW bits \in {Narrow, Wide}, NEW n \in Int
  PROVE  /\ n \in SignedRange(bits) => AsSigned(n % Power(bits), bits) = n
         /\ n \in 0..(Power(bits) - 1) => n % Power(bits) = n
         /\ n \in {0, 1} => n % Power(bits) = n
<1> DEFINE m == Power(bits - 1)
<1>1. m \in Nat \ {0} /\ Power(bits) = 2 * m
  BY PowersAssumption
<1>2. SignedRange(bits) = -m..(m - 1)
  BY DEF SignedRange
<1>3. AsSigned(n % Power(bits), bits)
        = IF n % Power(bits) >= m THEN (n % Power(bits)) - Power(bits) ELSE n % Power(bits)
  BY DEF AsSigned
<1> HIDE DEF m
<1>4. /\ n \in 0..(2 * m - 1) => n % Power(bits) = n
      /\ n \in -m..(-1) => n % Power(bits) = n + 2 * m
  BY <1>1, Remainders
<1>5. n \in SignedRange(bits) => AsSigned(n % Power(bits), bits) = n
  <2>1. CASE n \in 0..(m - 1)
    <3>1. n \in 0..(2 * m - 1) /\ ~(n >= m)
      BY <1>1, <2>1
    <3>2. QED
      BY <1>3, <1>4, <3>1
  <2>2. CASE n \in -m..(-1)
    <3>1. n + 2 * m >= m /\ (n + 2 * m) - 2 * m = n
      BY <1>1, <2>2
    <3>2. QED
      BY <1>1, <1>3, <1>4, <2>2, <3>1
  <2>3. n \in SignedRange(bits) => n \in 0..(m - 1) \/ n \in -m..(-1)
    BY <1>1, <1>2
  <2>4. QED
    BY <2>1, <2>2, <2>3
<1>6. n \in {0, 1} => n \in 0..(2 * m - 1)
  BY <1>1
<1>7. QED
  BY <1>1, <1>4, <1>5, <1>6

(* What a template writes, the field reads as the text meant.              *)
LEMMA StoredMeans ==
  ASSUME NEW f \in FieldType, NEW conv \in {"string", "int", "uint", "bool"},
         conv = Converter(f) \/ (conv = "string" /\ f.kind = "string"),
         f.label = "one",
         NEW t, IsText(t), Convert(conv, t) # <<>>,
         Holds(f, Means(f, t))
  PROVE  Accepts(f, WireOf(conv)) /\ Stored(f, Convert(conv, t)[1]) = Means(f, t)
<1>1. f.kind \in {"string", "bool", "int64", "int32", "enum", "uint64", "uint32"}
  BY DEF Holds
<1>2. /\ f.kind = "string" => conv = "string"
      /\ f.kind = "bool" => conv = "bool"
      /\ f.kind \in {"int64", "int32", "enum"} => conv = "int"
      /\ f.kind \in {"uint64", "uint32"} => conv = "uint"
  BY DEF Converter, IntKinds, UintKinds
<1>3. Accepts(f, WireOf(conv))
  <2>1. CASE conv = "string"
    <3>1. f.kind = "string"
      BY <1>1, <1>2, <2>1
    <3>2. WireOf(conv) = "bytes"
      BY <2>1 DEF WireOf
    <3>3. QED
      BY <3>1, <3>2 DEF Accepts
  <2>2. CASE conv # "string"
    <3>1. f.kind \in {"bool", "int64", "int32", "enum", "uint64", "uint32"}
      BY <1>1, <1>2, <2>2
    <3>2. WireOf(conv) = "varint" /\ "varint" # "bytes"
      BY <2>2 DEF WireOf
    <3>3. QED
      BY <3>1, <3>2 DEF Accepts
  <2>3. QED
    BY <2>1, <2>2
<1>4. \A n \in Int : Num(n).num = n
  BY Texts
<1>5. CASE f.kind = "string"
  <2>1. Convert(conv, t)[1] = IF t = Absent THEN Empty ELSE t
    BY <1>2, <1>5 DEF Convert
  <2>2. Means(f, t) = IF t = Absent THEN Empty ELSE t
    BY <1>5 DEF Means, Blank
  <2>3. \A v : Stored(f, v) = v
    BY <1>5 DEF Stored
  <2>4. QED
    BY <1>3, <2>1, <2>2, <2>3
<1>6. CASE f.kind = "bool"
  <2>1. /\ Word("true") # Word("false") /\ Word("true") # Num(0)
        /\ Num(1) # Word("false") /\ Num(1) # Num(0)
    <3>1. \A w : Word(w).sort = "word" /\ Word(w).word = w
      BY DEF Word, Text
    <3>2. \A n : Num(n).sort = "num" /\ Num(n).num = n
      BY DEF Num, Text
    <3>3. "true" # "false" /\ "word" # "num" /\ 1 # 0
      OBVIOUS
    <3>4. Word("true") # Word("false")
      BY <3>1, <3>3
    <3>5. Num(1) # Num(0)
      BY <3>2, <3>3
    <3>6. \A w, n : Word(w) # Num(n)
      BY <3>1, <3>2, <3>3
    <3>7. QED
      BY <3>4, <3>5, <3>6
  <2>2. Convert(conv, t) = ParseBool(t)
    BY <1>2, <1>6 DEF Convert
  <2>3. Convert(conv, t)[1] = IF t \in {Word("true"), Num(1)} THEN Num(1) ELSE Num(0)
    <3>1. CASE t \in {Word("true"), Num(1)}
      <4>1. ParseBool(t) = <<Num(1)>>
        BY <2>1, <3>1 DEF ParseBool
      <4>2. QED
        BY <2>2, <3>1, <4>1
    <3>2. CASE t \notin {Word("true"), Num(1)}
      <4>1. ParseBool(t) # <<>>
        BY <2>2
      <4>2. ParseBool(t) = <<Num(0)>>
        BY <3>2, <4>1 DEF ParseBool
      <4>3. QED
        BY <2>2, <3>2, <4>2
    <3>3. QED
      BY <3>1, <3>2
  <2>4. Means(f, t) = Convert(conv, t)[1]
    BY <1>6, <2>3 DEF Means
  <2>5. ASSUME NEW n \in {0, 1} PROVE Stored(f, Num(n)) = Num(n)
    <3>1. Stored(f, Num(n)) = Num(Num(n).num % Power(Wide))
      BY <1>6 DEF Stored
    <3>2. Num(n).num = n /\ n % Power(Wide) = n
      BY <1>4, HeldNumbers
    <3>3. QED
      BY <3>1, <3>2
  <2>6. QED
    BY <1>3, <2>3, <2>4, <2>5
<1>7. CASE f.kind \in {"int64", "int32", "enum", "uint64", "uint32"}
  <2>1. Convert(conv, t)[1] = Means(f, t) /\ \E n \in Int : Means(f, t) = Num(n)
    <3>1. t.sort = "num" => t = Num(t.num) /\ t.num \in Int
      BY DEF IsText
    <3>2. CASE conv = "int"
      <4>1. f.kind \in IntKinds /\ f.kind # "bool"
        BY <1>2, <1>7, <3>2 DEF IntKinds
      <4>2. Means(f, t) = IF Blank(t) THEN Num(0) ELSE t
        BY <1>7, <4>1 DEF Means
      <4>3. CASE Blank(t)
        BY <3>2, <4>2, <4>3 DEF Convert
      <4>4. CASE ~Blank(t)
        <5>1. Convert(conv, t) = <<t>> /\ t.sort = "num"
          BY <3>2, <4>4 DEF Convert
        <5>2. QED
          BY <3>1, <4>2, <4>4, <5>1
      <4>5. QED
        BY <4>3, <4>4
    <3>3. CASE conv = "uint"
      <4>1. f.kind \notin IntKinds /\ f.kind # "bool"
        BY <1>2, <1>7, <3>3 DEF IntKinds
      <4>2. Convert(conv, t) = <<t>> /\ t.sort = "num"
        BY <3>3 DEF Convert
      <4>3. Means(f, t) = t
        <5>1. ~Blank(t)
          BY <4>2, Sorts
        <5>2. QED
          BY <4>1, <5>1 DEF Means
      <4>4. QED
        BY <3>1, <4>2, <4>3
    <3>4. QED
      BY <1>2, <1>7, <3>2, <3>3
  <2>2. PICK n \in Int : Means(f, t) = Num(n)
    BY <2>1
  <2>3. Num(n).num = n
    BY <1>4
  <2>4. Holds(f, Num(n))
    BY <2>2
  <2>5. Stored(f, Num(n)) = Num(n)
    <3>1. CASE f.kind = "int64"
      <4>1. n \in SignedRange(Wide)
        BY <2>3, <2>4, <3>1 DEF Holds
      <4>2. Stored(f, Num(n)) = Num(AsSigned(n % Power(Wide), Wide))
        BY <2>3, <3>1 DEF Stored
      <4>3. QED
        BY <4>1, <4>2, HeldNumbers
    <3>2. CASE f.kind \in {"int32", "enum"}
      <4>1. n \in SignedRange(Narrow)
        BY <2>3, <2>4, <3>2 DEF Holds
      <4>2. Stored(f, Num(n)) = Num(AsSigned(n % Power(Narrow), Narrow))
        BY <2>3, <3>2 DEF Stored
      <4>3. QED
        BY <4>1, <4>2, HeldNumbers
    <3>3. CASE f.kind = "uint64"
      <4>1. n \in 0..(Power(Wide) - 1)
        BY <2>3, <2>4, <3>3 DEF Holds
      <4>2. Stored(f, Num(n)) = Num(n % Power(Wide))
        BY <2>3, <3>3 DEF Stored
      <4>3. QED
        BY <4>1, <4>2, HeldNumbers
    <3>4. CASE f.kind = "uint32"
      <4>1. n \in 0..(Power(Narrow) - 1)
        BY <2>3, <2>4, <3>4 DEF Holds
      <4>2. Stored(f, Num(n)) = Num(n % Power(Narrow))
        BY <2>3, <3>4 DEF Stored
      <4>3. QED
        BY <4>1, <4>2, HeldNumbers
    <3>5. QED
      BY <1>7, <3>1, <3>2, <3>3, <3>4
  <2>6. QED
    BY <1>3, <2>1, <2>2, <2>5
<1>8. QED
  BY <1>1, <1>5, <1>6, <1>7

-----------------------------------------------------------------------------
(* What ParametersDelivered is not about.                                  *)
Exempt(g) ==
  LET f == FieldAt[<<rpc.in, g.path>>] IN
  \/ ~Holds(f, Means(f, g.text))
  \/ Len(g.path) > 1 /\ (f.kind # "string" \/ f.label # "one")
  \/ f.kind = "bool" /\ Blank(g.text)

(* The near parameters of the steps so far have arrived, or have been      *)
(* written over since.                                                     *)
DeliveredBefore ==
  \A g \in Given : Near(g) /\ g.at < at =>
    \/ Delivered(g)
    \/ Exempt(g)
    \/ \E j \in DOMAIN steps : j > g.at /\ j < at /\ Contends(steps[j], g.path)

LEMMA GivenStays ==
  ASSUME call' = call
  PROVE  Given' = Given /\ \A g : Exempt(g)' = Exempt(g)
<1>1. steps' = steps /\ rpc' = rpc
  BY DEF steps, rpc
<1>2. QED
  BY <1>1 DEF Given, Exempt

LEMMA SkippedGiven ==
  ASSUME NEW g, NEW s \in StepType, NEW path, IsGivenBy(g, s, path), Near(g), Skipped(s)
  PROVE  Exempt(g)
<1>1. /\ Leaf(s) = FieldAt[<<rpc.in, g.path>>]
      /\ Len(g.path) \in 1..2
      /\ Len(g.path) = 1 => s.conv = Converter(Leaf(s))
      /\ Len(g.path) = 2 => s.conv = "string"
  BY GivenField
<1>2. g.text = TextOf(s)
  BY DEF IsGivenBy
<1>3. s.conv = "bool" /\ Blank(g.text)
  BY <1>2 DEF Skipped, Blank
<1>4. s.conv = Converter(Leaf(s))
  BY <1>1, <1>3
<1>5. Leaf(s).kind = "bool"
  BY <1>3, <1>4 DEF Converter
<1>6. QED
  BY <1>1, <1>3, <1>5 DEF Exempt

LEMMA MergeDelivers ==
  ASSUME NEW g, NEW s \in StepType, NEW path, IsGivenBy(g, s, path), Near(g), ~Exempt(g),
         Convert(s.conv, TextOf(s)) # <<>>
  PROVE  LET f == FieldAt[<<rpc.in, g.path>>]
             v == Means(f, g.text)
             M == Merge(s, Convert(s.conv, TextOf(s))[1])
         IN IF g.path \in DOMAIN M THEN M[g.path] = v ELSE Unset(f, v)
<1> DEFINE f == Leaf(s)
           v == Means(f, g.text)
           value == Convert(s.conv, TextOf(s))[1]
           M == Merge(s, value)
<1>1. /\ PathOf(s) = g.path /\ f = FieldAt[<<rpc.in, g.path>>] /\ f \in FieldType
      /\ Len(g.path) \in 1..2
      /\ Len(g.path) = 1 => s.conv = Converter(f)
      /\ Len(g.path) = 2 => s.conv = "string"
      /\ Accepts(f, WireOf(s.conv)) => g.path \in Ends(s)
  BY GivenField
<1>2. g.text = TextOf(s) /\ IsText(g.text)
  BY DEF IsGivenBy
<1>3. Holds(f, v) /\ (Len(g.path) > 1 => f.kind = "string" /\ f.label = "one")
  BY <1>1 DEF Exempt
<1>4. s.conv \in {"string", "int", "uint", "bool"}
  BY DEF StepType
<1>5. (s.conv = Converter(f) \/ (s.conv = "string" /\ f.kind = "string")) /\ f.label = "one"
  <2>1. CASE Len(g.path) = 1
    BY <1>1, <1>4, <2>1 DEF Converter
  <2>2. CASE Len(g.path) = 2
    <3>1. Len(g.path) > 1
      BY <2>2
    <3>2. QED
      BY <1>1, <1>3, <2>2, <3>1
  <2>3. QED
    BY <1>1, <2>1, <2>2
<1>6. Accepts(f, WireOf(s.conv)) /\ Stored(f, value) = v
  BY <1>1, <1>2, <1>3, <1>4, <1>5, StoredMeans
<1>7. Written(s, value, g.path) = v
  BY <1>1, <1>6 DEF Written, Bytes, Leaf
<1>8. g.path \in Ends(s) /\ g.path \in Along(s) /\ g.path \notin KeptBy(s)
  BY <1>1, <1>6, MergeIs DEF KeptBy
<1>9. g.path \in SetBy(s, value) <=> ~Unset(f, v)
  BY <1>1, <1>7, <1>8 DEF SetBy, Field
<1> HIDE DEF f, v, value, M
<1>10. DOMAIN M = KeptBy(s) \cup SetBy(s, value) /\ (g.path \in SetBy(s, value) => M[g.path] = v)
  BY <1>7, <1>8, MergeIs DEF M
<1>11. IF g.path \in DOMAIN M THEN M[g.path] = v ELSE Unset(f, v)
  BY <1>8, <1>9, <1>10
<1>12. QED
  BY <1>1, <1>11 DEF M, v, value

(* What a step adds it contends for, if it can hold what a text means.     *)
LEMMA AddsContends ==
  ASSUME NEW g, ~Exempt(g), NEW step \in StepType, ~Skipped(step), g.path \in Along(step)
  PROVE  Contends(step, g.path)
<1>1. ~IsEmbed(Field(g.path))
  BY DEF Exempt, Holds, IsEmbed, Field
<1>2. g.path \in Ends(step) /\ IsPrefix(g.path, g.path)
  BY <1>1, AlongPrefixes DEF Ends
<1>3. QED
  BY <1>2 DEF Contends

LEMMA StepDelivered == Progress /\ Fit /\ DeliveredBefore /\ [Next]_vars => DeliveredBefore'
<1> SUFFICES ASSUME Progress, Fit, DeliveredBefore, [Next]_vars,
                    NEW g \in Given, Near(g), g.at < at'
             PROVE  \/ Delivered(g)'
                    \/ Exempt(g)
                    \/ \E j \in DOMAIN steps : j > g.at /\ j < at' /\ Contends(steps[j], g.path)
  <2>1. SUFFICES ASSUME Progress, Fit, DeliveredBefore, [Next]_vars PROVE DeliveredBefore'
    OBVIOUS
  <2>2. call' = call
    BY <2>1 DEF Next, ReadBody, RefuseBody, MergeParam, Return, vars
  <2>3. /\ Given' = Given /\ steps' = steps
        /\ \A g : Exempt(g)' = Exempt(g)
        /\ \A i, p : Contends(steps[i], p)' = Contends(steps[i], p)
    BY <2>2, GivenStays, CallStays
  <2>4. QED
    BY <2>1, <2>3 DEF DeliveredBefore, Near
<1>1. call' = call
  BY DEF Next, ReadBody, RefuseBody, MergeParam, Return, vars
<1>2. rpc' = rpc
  BY <1>1 DEF rpc
<1>3. /\ at \in Nat /\ steps \in Seq(StepType) /\ DOMAIN steps = 1..Len(steps) /\ Len(steps) \in Nat
      /\ call \in Calls
  BY StepsAreSteps DEF Progress, Fit
<1>4. PICK path : g.at \in DOMAIN steps /\ IsGivenBy(g, steps[g.at], path)
  BY <1>3, GivenStep
<1>5. g.at \in Nat \ {0} /\ steps[g.at] \in StepType
  BY <1>3, <1>4
<1>6. ASSUME UNCHANGED <<msg, at>>
      PROVE  \/ Delivered(g)'
             \/ Exempt(g)
             \/ \E j \in DOMAIN steps : j > g.at /\ j < at' /\ Contends(steps[j], g.path)
  <2>1. Delivered(g)' = Delivered(g)
    BY <1>2, <1>6 DEF Delivered
  <2>2. QED
    BY <1>6, <2>1 DEF DeliveredBefore
<1>7. CASE ReadBody
  BY <1>5, <1>7 DEF ReadBody
<1>8. CASE MergeParam
  <2> DEFINE step == steps[at]
             value == Convert(step.conv, TextOf(step))
  <2>1. at \in DOMAIN steps /\ step \in StepType
    BY <1>3, <1>8 DEF MergeParam
  <2>2. \/ msg' = msg /\ at' = at
        \/ Skipped(step) /\ msg' = msg /\ at' = at + 1
        \/ ~Skipped(step) /\ value # <<>> /\ msg' = Merge(step, value[1]) /\ at' = at + 1
    BY <1>8 DEF MergeParam
  <2>3. CASE msg' = msg /\ at' = at
    BY <1>6, <2>3
  <2>4. CASE g.at = at
    <3>1. CASE Skipped(step)
      BY <1>4, <1>5, <2>4, <3>1, SkippedGiven
    <3>2. CASE ~Skipped(step) /\ value # <<>> /\ msg' = Merge(step, value[1])
      <4>1. ~Exempt(g) =>
              LET f == FieldAt[<<rpc.in, g.path>>]
                  v == Means(f, g.text)
              IN IF g.path \in DOMAIN msg' THEN msg'[g.path] = v ELSE Unset(f, v)
        BY <1>4, <1>5, <2>4, <3>2, MergeDelivers
      <4>2. QED
        BY <1>2, <4>1 DEF Delivered
    <3>3. QED
      BY <2>2, <2>3, <3>1, <3>2
  <2>5. CASE g.at # at /\ at' = at + 1
    <3>1. g.at < at
      BY <1>3, <1>5, <2>5
    <3>2. CASE Exempt(g)
      BY <3>2
    <3>3. CASE \E j \in DOMAIN steps : j > g.at /\ j < at /\ Contends(steps[j], g.path)
      <4>1. PICK j \in DOMAIN steps : j > g.at /\ j < at /\ Contends(steps[j], g.path)
        BY <3>3
      <4>2. j < at'
        BY <1>3, <2>5, <4>1
      <4>3. QED
        BY <4>1, <4>2
    <3>4. CASE Contends(step, g.path)
      <4>1. at > g.at /\ at < at'
        BY <1>3, <1>5, <2>5, <3>1
      <4>2. QED
        BY <2>1, <3>4, <4>1
    <3>5. CASE ~Exempt(g) /\ Delivered(g) /\ ~Contends(step, g.path)
      <4>1. CASE msg' = msg
        <5>1. Delivered(g)' = Delivered(g)
          BY <1>2, <4>1 DEF Delivered
        <5>2. QED
          BY <3>5, <5>1
      <4>2. CASE ~Skipped(step) /\ msg' = Merge(step, value[1])
        <5>1. g.path \in DOMAIN msg => g.path \in DOMAIN msg' /\ msg'[g.path] = msg[g.path]
          BY <2>1, <3>5, <4>2, MergeKeeps
        <5>2. g.path \notin DOMAIN msg => g.path \notin DOMAIN msg'
          <6>1. SUFFICES ASSUME g.path \in DOMAIN msg' \ DOMAIN msg PROVE FALSE
            OBVIOUS
          <6>2. g.path \in Along(step)
            BY <2>1, <4>2, <6>1, MergeAdds
          <6>3. QED
            BY <2>1, <3>5, <4>2, <6>2, AddsContends
        <5>3. QED
          BY <1>2, <3>5, <5>1, <5>2 DEF Delivered
      <4>3. QED
        BY <2>2, <4>1, <4>2
    <3>6. QED
      BY <3>1, <3>2, <3>3, <3>4, <3>5 DEF DeliveredBefore
  <2>6. QED
    BY <2>2, <2>3, <2>4, <2>5
<1>9. QED
  BY <1>6, <1>7, <1>8 DEF Next, RefuseBody, Return, vars

(* ParametersDelivered: whatever the messages, the methods and the         *)
(* requests, a field a query, or a route by at most two names, refers to   *)
(* is the service's with the value of the text that came in its place, or  *)
(* zero where the query has none.  Numbers out of the field's range, an    *)
(* absent bool and nested fields that are no strings are excepted, and     *)
(* what a later parameter writes: one of more than two names, too.         *)
THEOREM ParametersArrive == Spec => []ParametersDelivered
<1>1. Progress /\ DeliveredBefore /\ Fit => ParametersDelivered
  <2> SUFFICES ASSUME Progress, DeliveredBefore, Fit, outcome = "ok", NEW g \in Given
               PROVE  \/ Delivered(g)
                      \/ Exempt(g)
                      \/ Len(g.path) > 2
                      \/ \E j \in DOMAIN steps : j > g.at /\ Contends(steps[j], g.path)
    BY DEF ParametersDelivered, Exempt
  <2>1. Len(steps) \in Nat /\ DOMAIN steps = 1..Len(steps) /\ call \in Calls
    BY StepsAreSteps DEF Progress, Fit
  <2>2. at = Len(steps) + 1
    <3>1. "ok" \notin FaultsAt(at)
      BY FaultNames
    <3>2. QED
      BY <3>1 DEF Progress
  <2>3. PICK path : g.at \in DOMAIN steps /\ IsGivenBy(g, steps[g.at], path)
    BY <2>1, GivenStep
  <2>4. g.at < at
    BY <2>1, <2>2, <2>3
  <2>5. Near(g) \/ Len(g.path) > 2
    <3>1. Len(g.path) \in Nat
      <4>1. g.path \in Seq(Nat)
        BY <2>3, PathNumbersTyped DEF IsGivenBy
      <4>2. QED
        BY <4>1
    <3>2. QED
      BY <3>1 DEF Near
  <2>6. QED
    BY <2>4, <2>5 DEF DeliveredBefore
<1>2. Init => DeliveredBefore
  <2> SUFFICES ASSUME Init, NEW g \in Given, g.at < at PROVE FALSE
    BY DEF DeliveredBefore
  <2>1. call \in Calls /\ at = 0
    BY DEF Init
  <2>2. call.rpc \in DOMAIN Rpcs
    BY <2>1, CallsAssumption
  <2>3. g.at \in DOMAIN steps /\ DOMAIN steps = 1..Len(steps) /\ Len(steps) \in Nat
    BY <2>1, <2>2, GivenStep, StepsAreSteps
  <2>4. QED
    BY <2>1, <2>3
<1>3. Spec => [](Progress /\ Fit)
  BY InitFit, StepFit, AlwaysProgress, PTL DEF Spec
<1>4. Progress /\ Fit /\ DeliveredBefore /\ [Next]_vars => DeliveredBefore'
  BY StepDelivered
<1>5. QED
  BY <1>1, <1>2, <1>3, <1>4, PTL DEF Spec
=============================================================================
