---------------------- MODULE ReleasePublication_proofs ----------------------
(* Proofs about ReleasePublication: requests are on record, a freeze holds, a  *)
(* release becomes public only over its steps and COMPLETE over what lies     *)
(* there.                                                                     *)
EXTENDS ReleasePublication, FiniteSetTheorems, SequenceTheorems, TLAPS

(* The types.                                                                 *)
Value == {"ABSENT", "SAME", "DIFFERENT", "UNKNOWN"}
StepRecord ==
  [state : {"WAITING", "READY", "REQUEST_STARTED", "COMMITTED", "FROZEN"},
   attempts : Nat, open : BOOLEAN]
Ledger == [steps : [Step -> StepRecord], finalState : {"ACTIVE", "FROZEN", "COMPLETE"}]

Begins == {"begin", "begin_resumed"}
Sends == {"send", "act"}
Surveys == {"preflight", "preflight_resumed"}
Op == Begins \cup Sends \cup Surveys \cup {"resume", "reconcile", "finalize", "complete"}
CallRecord == [op : Op, step : 0..Len(Kinds)]
Calls == Seq(CallRecord)
Reading == {<<>>} \cup [Of(Release) -> Value]
Worker ==
  [at : {"call", "survey", "append"}, todo : Calls, base : Ledger, behind : 0..2,
   seen : Seq(Value), response : {"none", "TERMINAL"}, page : Reading]

PublicationTypeOK ==
  /\ remote \in [Step -> Value] /\ remote[Publish] \in {"ABSENT", "SAME"}
  /\ inflight \subseteq Step /\ sent \in BOOLEAN
  /\ journal \in Ledger
  /\ controller \in [Controller -> Worker]
  /\ tampered \subseteq Controller /\ meddling \in Nat
  /\ bounds \in Bounds /\ overlapped \in BOOLEAN

(* The order of the calls: a request is sent right after its begin and read   *)
(* back right after it, and only a survey is followed by "complete".          *)
Tied(t) == \A i \in DOMAIN t :
  /\ t[i].op \in Begins \cup Sends \cup {"reconcile"} => t[i].step \in Step
  /\ t[i].op = "act" => t[i].step \in Of({"attestation"})
  /\ t[i].op \in Sends => i < Len(t) /\ t[i + 1].op = "reconcile"
  /\ t[i].op \in Sends /\ i > 1 => t[i - 1].op \in Begins /\ t[i - 1].step = t[i].step
  /\ t[i].op = "complete" => i = Len(t) /\ (i > 1 => t[i - 1].op \in Surveys)
Armed(t) == \A i \in DOMAIN t : t[i].op \in Begins => i < Len(t) /\ t[i + 1].op \in Sends

\* A call that waits to append has already left out what it skips.
Ordered(w) ==
  /\ Tied(w.todo)
  /\ w.at # "append" => Armed(w.todo)
  /\ w.at # "call" => w.todo # <<>>
  /\ w.at = "call" => w.behind = 0
  /\ w.todo = <<>> => w.page = <<>>
  /\ w.at = "survey" =>
       /\ Head(w.todo).op \in Surveys
       /\ Len(w.seen) < Len(Kinds) /\ Conflicts(w.seen) = {}
  /\ w.at = "append" =>
       /\ Armed(Tail(w.todo)) /\ Head(w.todo).op \notin Sends \cup {"finalize"}
       /\ w.base.finalState = "FROZEN" => Tail(w.todo) = <<>>
OrderInv == \A c \in Controller : Ordered(controller[c])

-----------------------------------------------------------------------------
(* The constants, and the commands.                                           *)

LEMMA Steps ==
  /\ Len(Kinds) \in Nat /\ Publish \in Step /\ Draft \in Step /\ Draft # Publish
  /\ Of({"publish"}) = {Publish} /\ Of({"draft"}) = {Draft}
  /\ Of(Release) = {Draft, Publish} \cup Of({"asset"})
  /\ Kinds[Draft] = "draft" /\ Kinds[Publish] = "publish"
  /\ \A kinds : Of(kinds) \subseteq Step /\ IsFiniteSet(Of(kinds))
<1>1. Len(Kinds) \in Nat /\ Kinds # <<>> /\ Kinds[Len(Kinds)] = "publish"
  BY PublicationAssumption
<1>2. Publish \in Step
  BY <1>1, PublicationAssumption, EmptySeq DEF Publish, Step
<1>3. \A kinds : Of(kinds) \subseteq Step /\ IsFiniteSet(Of(kinds))
  <2>1. IsFiniteSet(Step)
    BY <1>1, FS_Interval DEF Step
  <2>2. \A kinds : Of(kinds) \subseteq Step
    BY DEF Of
  <2> QED BY <2>1, <2>2, FS_Subset
<1>4. PICK d : Of({"draft"}) = {d}
  BY <1>3, FS_Singleton, PublicationAssumption
<1>5. PICK p : Of({"publish"}) = {p}
  BY <1>3, FS_Singleton, PublicationAssumption
<1>6. Draft = d /\ d \in Step /\ Kinds[d] = "draft"
  BY <1>4 DEF Of, Draft
<1>7. p = Publish
  BY <1>1, <1>2, <1>5 DEF Of, Publish
<1>8. Of(Release) = {Draft, Publish} \cup Of({"asset"})
  BY <1>4, <1>5, <1>6, <1>7 DEF Of, Release
<1> QED BY <1>1, <1>2, <1>3, <1>4, <1>5, <1>6, <1>7, <1>8 DEF Publish

LEMMA InitialLedger ==
  /\ Initial \in Ledger /\ ValidateLedger(Initial) /\ Initial.finalState = "ACTIVE"
  /\ \A s \in Step : ~Committed(Initial, s)
<1>1. Initial \in Ledger /\ Initial.finalState = "ACTIVE" /\ \A s \in Step : ~Committed(Initial, s)
  BY DEF Initial, Ledger, StepRecord, Committed
<1>2. {s \in Step : Initial.steps[s].open} = {} /\ Started(Initial) = {}
  BY DEF Initial, Started
<1>3. \A s \in Step : ~Initial.steps[s].open /\ Initial.steps[s].state # "FROZEN"
  BY DEF Initial
<1>4. Cardinality({s \in Step : Initial.steps[s].open}) <= 1
  BY <1>2, FS_EmptySet
<1>5. ValidateLedger(Initial)
  BY <1>1, <1>2, <1>3, <1>4 DEF ValidateLedger
<1> QED BY <1>1, <1>5

LEMMA IdleIsWorker == Idle \in Worker /\ Ordered(Idle)
<1>1. Idle \in Worker
  BY InitialLedger, EmptySeq DEF Idle, Worker, Calls, Reading
<1>2. DOMAIN <<>> = {}
  OBVIOUS
<1> QED BY <1>1, <1>2 DEF Idle, Ordered, Tied, Armed

LEMMA CallParts ==
  ASSUME NEW op \in Op, NEW s \in 0..Len(Kinds)
  PROVE  Call(op, s) \in CallRecord /\ Call(op, s).op = op /\ Call(op, s).step = s
BY DEF Call, CallRecord

\* What is left of a legal sequence of calls.
LEMMA RestIsOrdered ==
  ASSUME NEW t \in Calls, t # <<>>, Tied(t)
  PROVE  /\ Tail(t) \in Calls /\ Head(t) \in CallRecord /\ Tied(Tail(t)) /\ Head(t) = t[1]
         /\ Len(t) > 0 /\ Len(Tail(t)) = Len(t) - 1
         /\ \A i \in 1..Len(Tail(t)) : Tail(t)[i] = t[i + 1]
         /\ Armed(t) => Armed(Tail(t))
         /\ Tail(t) # <<>> => Len(t) > 1 /\ Head(Tail(t)) = t[2]
         /\ Tail(t) # <<>> /\ Head(Tail(t)).op \in Sends =>
              Head(t).op \in Begins /\ Head(Tail(t)).step = Head(t).step
         /\ Tail(t) # <<>> /\ Head(Tail(t)).op = "complete" => Head(t).op \in Surveys
         /\ Armed(t) /\ Head(t).op \in Begins => Tail(t) # <<>> /\ Head(Tail(t)).op \in Sends
         /\ Head(t).op \in Sends => Tail(t) # <<>> /\ Head(Tail(t)).op = "reconcile"
<1>1. /\ Len(t) \in Nat /\ Len(t) > 0 /\ DOMAIN t = 1..Len(t) /\ Tail(t) \in Calls
      /\ Len(Tail(t)) = Len(t) - 1 /\ DOMAIN Tail(t) = 1..(Len(t) - 1)
      /\ \A i \in 1..Len(Tail(t)) : Tail(t)[i] = t[i + 1]
      /\ Head(t) \in CallRecord /\ Head(t) = t[1]
  BY DEF Calls
<1>2. Tied(Tail(t))
  <2> SUFFICES ASSUME NEW i \in 1..(Len(t) - 1)
      PROVE /\ Tail(t)[i].op \in Begins \cup Sends \cup {"reconcile"} => Tail(t)[i].step \in Step
            /\ Tail(t)[i].op = "act" => Tail(t)[i].step \in Of({"attestation"})
            /\ Tail(t)[i].op \in Sends => i < Len(Tail(t)) /\ Tail(t)[i + 1].op = "reconcile"
            /\ Tail(t)[i].op \in Sends /\ i > 1 =>
                 Tail(t)[i - 1].op \in Begins /\ Tail(t)[i - 1].step = Tail(t)[i].step
            /\ Tail(t)[i].op = "complete" =>
                 i = Len(Tail(t)) /\ (i > 1 => Tail(t)[i - 1].op \in Surveys)
    BY <1>1 DEF Tied
  <2>1. i + 1 \in DOMAIN t /\ Tail(t)[i] = t[i + 1]
    BY <1>1
  <2>2. i > 1 => i - 1 \in 1..Len(Tail(t)) /\ Tail(t)[i - 1] = t[i]
    BY <1>1
  <2>3. i < Len(Tail(t)) => i + 1 \in 1..Len(Tail(t)) /\ Tail(t)[i + 1] = t[i + 2]
    BY <1>1
  <2>4. PICK j \in DOMAIN t : j = i + 1
    BY <2>1
  <2>5. /\ t[j].op \in Begins \cup Sends \cup {"reconcile"} => t[j].step \in Step
        /\ t[j].op = "act" => t[j].step \in Of({"attestation"})
        /\ t[j].op \in Sends => j < Len(t) /\ t[j + 1].op = "reconcile"
        /\ t[j].op \in Sends /\ j > 1 => t[j - 1].op \in Begins /\ t[j - 1].step = t[j].step
        /\ t[j].op = "complete" => j = Len(t) /\ (j > 1 => t[j - 1].op \in Surveys)
    BY DEF Tied
  <2>6. j + 1 = i + 2 /\ j - 1 = i /\ j > 1 /\ (j < Len(t) <=> i < Len(Tail(t)))
        /\ (j = Len(t) <=> i = Len(Tail(t)))
    BY <1>1, <2>4
  <2>7. t[i + 1] = t[j] /\ t[i + 2] = t[j + 1] /\ t[i] = t[j - 1]
    BY <2>4, <2>6
  <2> QED BY <2>1, <2>2, <2>3, <2>5, <2>6, <2>7
<1>3. Armed(t) => Armed(Tail(t))
  <2> SUFFICES ASSUME Armed(t), NEW i \in 1..(Len(t) - 1), Tail(t)[i].op \in Begins
      PROVE i < Len(Tail(t)) /\ Tail(t)[i + 1].op \in Sends
    BY <1>1 DEF Armed
  <2>1. i + 1 \in DOMAIN t /\ Tail(t)[i] = t[i + 1]
    BY <1>1
  <2>2. i + 1 < Len(t) /\ t[i + 2].op \in Sends
    BY <2>1, <1>1 DEF Armed
  <2> QED BY <2>1, <2>2, <1>1
<1>4. Tail(t) # <<>> => Len(t) > 1 /\ Head(Tail(t)) = t[2] /\ 2 \in DOMAIN t
  <2> SUFFICES ASSUME Tail(t) # <<>> PROVE Len(t) > 1 /\ Head(Tail(t)) = t[2] /\ 2 \in DOMAIN t
    OBVIOUS
  <2>1. Len(Tail(t)) > 0 /\ Head(Tail(t)) = Tail(t)[1]
    BY <1>1, EmptySeq DEF Calls
  <2> QED BY <2>1, <1>1
<1>5. Tail(t) # <<>> /\ Head(Tail(t)).op \in Sends =>
        Head(t).op \in Begins /\ Head(Tail(t)).step = Head(t).step
  BY <1>1, <1>4 DEF Tied
<1>6. Tail(t) # <<>> /\ Head(Tail(t)).op = "complete" => Head(t).op \in Surveys
  BY <1>1, <1>4 DEF Tied
<1>7. Len(t) > 1 => Tail(t) # <<>>
  <2>1. ASSUME Tail(t) = <<>> PROVE Len(t) <= 1
    <3>0. Len(<<>>) = 0
      OBVIOUS
    <3>1. Len(Tail(t)) = 0
      BY <2>1, <3>0, Zenon
    <3>2. Len(t) \in Nat /\ Len(Tail(t)) = Len(t) - 1
      BY <1>1
    <3> QED BY <3>1, <3>2
  <2>2. Len(t) \in Nat
    BY <1>1
  <2> QED BY <2>1, <2>2
<1>8. Armed(t) /\ Head(t).op \in Begins => Tail(t) # <<>> /\ Head(Tail(t)).op \in Sends
  BY <1>1, <1>4, <1>7 DEF Armed
<1>9. Head(t).op \in Sends => Tail(t) # <<>> /\ Head(Tail(t)).op = "reconcile"
  BY <1>1, <1>4, <1>7 DEF Tied
<1> QED BY <1>1, <1>2, <1>3, <1>4, <1>5, <1>6, <1>8, <1>9

\* What is left after the begin, the request and the readback of a step.
LEMMA SkipIsOrdered ==
  ASSUME NEW t \in Calls, t # <<>>, Tied(t), Armed(t), Head(t).op \in Begins
  PROVE  LET u == Tail(Tail(Tail(t))) IN
         /\ u \in Calls /\ Tied(u) /\ Armed(u)
         /\ u # <<>> => Head(u).op \notin Sends \cup {"complete"}
<1>1. /\ Tail(t) \in Calls /\ Tail(t) # <<>> /\ Tied(Tail(t)) /\ Armed(Tail(t))
      /\ Head(Tail(t)).op \in Sends
  BY RestIsOrdered
<1>2. /\ Tail(Tail(t)) \in Calls /\ Tail(Tail(t)) # <<>>
      /\ Tied(Tail(Tail(t))) /\ Armed(Tail(Tail(t))) /\ Head(Tail(Tail(t))).op = "reconcile"
  BY <1>1, RestIsOrdered
<1>3. /\ Tail(Tail(Tail(t))) \in Calls /\ Tied(Tail(Tail(Tail(t)))) /\ Armed(Tail(Tail(Tail(t))))
      /\ Tail(Tail(Tail(t))) # <<>> /\ Head(Tail(Tail(Tail(t)))).op \in Sends =>
           "reconcile" \in Begins
      /\ Tail(Tail(Tail(t))) # <<>> /\ Head(Tail(Tail(Tail(t)))).op = "complete" =>
           "reconcile" \in Surveys
  BY <1>2, RestIsOrdered
<1> QED BY <1>3 DEF Begins, Surveys

\* One more call in front.
LEMMA JoinIsOrdered ==
  ASSUME NEW x \in CallRecord, NEW t \in Calls, Tied(t),
         x.op \notin Sends,
         x.op \in Begins \cup {"reconcile"} => x.step \in Step,
         x.op = "complete" => t = <<>>,
         t # <<>> /\ Head(t).op \in Sends => x.op \in Begins /\ x.step = Head(t).step,
         t # <<>> /\ Head(t).op = "complete" => x.op \in Surveys,
         NEW u, u = <<x>> \o t
  PROVE  /\ u \in Calls /\ u # <<>> /\ Head(u) = x /\ Tail(u) = t /\ Tied(u)
         /\ Len(u) = Len(t) + 1 /\ u[1] = x /\ \A i \in 1..Len(t) : u[i + 1] = t[i]
         /\ Armed(t) /\ (x.op \in Begins => t # <<>> /\ Head(t).op \in Sends) => Armed(u)
<1>1. <<x>> \in Calls /\ Len(<<x>>) = 1 /\ <<x>>[1] = x
  BY DEF Calls
<1>2. /\ u \in Calls /\ Len(u) = Len(t) + 1 /\ Len(t) \in Nat
      /\ \A i \in 1..(Len(t) + 1) : u[i] = IF i <= 1 THEN <<x>>[i] ELSE t[i - 1]
  BY <1>1, ConcatProperties DEF Calls
<1>3. u[1] = x /\ \A i \in 1..Len(t) : u[i + 1] = t[i]
  BY <1>1, <1>2
<1>4. u # <<>> /\ Head(u) = x /\ DOMAIN u = 1..(Len(t) + 1) /\ DOMAIN t = 1..Len(t)
  <2>1. Len(u) > 0
    BY <1>2
  <2>2. u # <<>>
    BY <2>1, EmptySeq DEF Calls
  <2> QED BY <1>2, <1>3, <2>2, HeadTailProperties DEF Calls
<1>5. Tail(u) = t
  <2>1. Tail(u) \in Calls /\ Len(Tail(u)) = Len(t)
    BY <1>2, <1>4, HeadTailProperties DEF Calls
  <2>2. \A i \in 1..Len(t) : Tail(u)[i] = t[i]
    BY <1>2, <1>3, <1>4, HeadTailProperties DEF Calls
  <2> QED BY <2>1, <2>2, SeqEqual DEF Calls
<1>6. t # <<>> => 1 \in DOMAIN t /\ t[1] = Head(t)
  BY <1>2, <1>4, EmptySeq DEF Calls
<1>7. ASSUME NEW i \in DOMAIN u, i > 1
      PROVE  \E j \in DOMAIN t : /\ i = j + 1 /\ j = i - 1 /\ u[i] = t[j]
                                 /\ u[i + 1] = u[j + 2] /\ (i < Len(u) <=> j < Len(t))
                                 /\ (i = Len(u) <=> j = Len(t))
                                 /\ (j < Len(t) => u[i + 1] = t[j + 1])
                                 /\ (j > 1 => u[i - 1] = t[j - 1])
  <2>1. PICK j \in DOMAIN t : i = j + 1 /\ j = i - 1
    BY <1>2, <1>4, <1>7
  <2>2. j < Len(t) => j + 1 \in 1..Len(t) /\ i + 1 = (j + 1) + 1
    BY <1>2, <1>4, <2>1
  <2>3. j > 1 => j - 1 \in 1..Len(t) /\ i - 1 = (j - 1) + 1
    BY <1>2, <1>4, <2>1
  <2>4. (i < Len(u) <=> j < Len(t)) /\ (i = Len(u) <=> j = Len(t)) /\ i + 1 = j + 2
    BY <1>2, <1>4, <2>1
  <2>5. u[i] = t[j]
    BY <1>3, <1>4, <2>1
  <2>6. j < Len(t) => u[i + 1] = t[j + 1]
    BY <1>3, <2>2
  <2>7. j > 1 => u[i - 1] = t[j - 1]
    BY <1>3, <2>3
  <2> QED BY <2>1, <2>4, <2>5, <2>6, <2>7
<1>8. ASSUME NEW i \in DOMAIN u
      PROVE  /\ u[i].op \in Begins \cup Sends \cup {"reconcile"} => u[i].step \in Step
             /\ u[i].op = "act" => u[i].step \in Of({"attestation"})
             /\ u[i].op \in Sends => i < Len(u) /\ u[i + 1].op = "reconcile"
             /\ u[i].op \in Sends /\ i > 1 => u[i - 1].op \in Begins /\ u[i - 1].step = u[i].step
             /\ u[i].op = "complete" => i = Len(u) /\ (i > 1 => u[i - 1].op \in Surveys)
  <2>1. CASE i = 1
    <3>1. u[i] = x
      BY <1>3, <2>1
    <3>2. x.op = "complete" => i = Len(u)
      <4>1. Len(<<>>) = 0
        OBVIOUS
      <4> QED BY <1>2, <2>1, <4>1
    <3> QED BY <2>1, <3>1, <3>2 DEF Sends
  <2>2. CASE i > 1
    <3>1. PICK j \in DOMAIN t : /\ i = j + 1 /\ j = i - 1 /\ u[i] = t[j]
                               /\ (i < Len(u) <=> j < Len(t))
                               /\ (i = Len(u) <=> j = Len(t))
                               /\ (j < Len(t) => u[i + 1] = t[j + 1])
                               /\ (j > 1 => u[i - 1] = t[j - 1])
      BY <1>7, <2>2
    <3>2. /\ t[j].op \in Begins \cup Sends \cup {"reconcile"} => t[j].step \in Step
          /\ t[j].op = "act" => t[j].step \in Of({"attestation"})
          /\ t[j].op \in Sends => j < Len(t) /\ t[j + 1].op = "reconcile"
          /\ t[j].op \in Sends /\ j > 1 => t[j - 1].op \in Begins /\ t[j - 1].step = t[j].step
          /\ t[j].op = "complete" => j = Len(t) /\ (j > 1 => t[j - 1].op \in Surveys)
      BY DEF Tied
    <3>z. j \in 1..Len(t) /\ Len(t) \in Nat
      BY <1>2, <1>4, Zenon
    <3>y. i = j + 1
      BY <3>1
    <3>a. j > 1 \/ (j = 1 /\ i - 1 = 1)
      BY <3>y, <3>z
    <3>3. j > 1 \/ (j = 1 /\ u[i - 1] = x)
      BY <1>3, <3>a
    <3>4. j = 1 => t # <<>> /\ t[1] = Head(t)
      <4>1. DOMAIN <<>> = {}
        OBVIOUS
      <4> QED BY <1>6, <4>1
    <3> QED BY <3>1, <3>2, <3>3, <3>4
  <2>3. i = 1 \/ i > 1
    BY <1>2, <1>4
  <2> QED BY <2>1, <2>2, <2>3
<1>9. Armed(t) /\ (x.op \in Begins => t # <<>> /\ Head(t).op \in Sends) => Armed(u)
  <2> SUFFICES ASSUME Armed(t), x.op \in Begins => t # <<>> /\ Head(t).op \in Sends,
                      NEW i \in DOMAIN u, u[i].op \in Begins
               PROVE  i < Len(u) /\ u[i + 1].op \in Sends
    BY DEF Armed
  <2>1. CASE i = 1
    <3>1. x.op \in Begins
      BY <1>3, <2>1
    <3>2. 1 \in DOMAIN t /\ t[1].op \in Sends
      BY <1>6, <3>1
    <3>3. u[1 + 1] = t[1]
      BY <1>3, <1>4, <3>2
    <3>4. Len(t) > 0 /\ i < Len(u)
      BY <1>2, <1>4, <2>1, <3>2
    <3>5. u[i + 1] = t[1]
      BY <2>1, <3>3
    <3> QED BY <3>2, <3>4, <3>5
  <2>2. CASE i > 1
    <3>1. PICK j \in DOMAIN t : /\ u[i] = t[j] /\ (i < Len(u) <=> j < Len(t))
                               /\ (j < Len(t) => u[i + 1] = t[j + 1])
      BY <1>7, <2>2
    <3>2. j < Len(t) /\ t[j + 1].op \in Sends
      BY <3>1 DEF Armed
    <3> QED BY <3>1, <3>2
  <2>3. i = 1 \/ i > 1
    BY <1>2, <1>4
  <2> QED BY <2>1, <2>2, <2>3
<1> QED BY <1>2, <1>3, <1>4, <1>5, <1>8, <1>9 DEF Tied

LEMMA CommandsAreOrdered ==
  ASSUME NEW t \in Commands
  PROVE  /\ t \in Calls /\ t # <<>> /\ Tied(t) /\ Armed(t)
         /\ Head(t).op \in {"resume", "preflight", "finalize"}
<1> USE DEF Begins, Sends, Surveys
<1>1. CASE t = Reconcile
  <2>1. t = <<[op |-> "resume", step |-> 0], [op |-> "preflight", step |-> 0]>>
    BY <1>1 DEF Reconcile, Call
  <2>2. t \in Calls /\ Len(t) = 2 /\ DOMAIN t = 1..2 /\ t # <<>> /\ Head(t) = t[1]
    <3>1. Len(Kinds) \in Nat
      BY Steps
    <3>2. t \in Calls
      BY <2>1, <3>1 DEF Calls, CallRecord, Op
    <3>3. Len(t) = 2
      BY <2>1
    <3>4. DOMAIN t = 1..2
      BY <2>1
    <3>5. t # <<>>
      BY <2>1
    <3>6. Head(t) = t[1]
      BY <2>1
    <3> QED BY <3>2, <3>3, <3>4, <3>5, <3>6
  <2>3. t[1].op = "resume" /\ t[2].op = "preflight"
    BY <2>1
  <2>4. \A i \in DOMAIN t : t[i].op \in {"resume", "preflight"}
    BY <2>2, <2>3
  <2> QED BY <2>2, <2>3, <2>4 DEF Tied, Armed
<1>2. CASE t = Finalize
  <2>1. t = <<[op |-> "finalize", step |-> 0], [op |-> "preflight", step |-> 0],
              [op |-> "complete", step |-> 0]>>
    BY <1>2 DEF Finalize, Call
  <2>2. t \in Calls /\ Len(t) = 3 /\ DOMAIN t = 1..3 /\ t # <<>> /\ Head(t) = t[1]
    <3>1. Len(Kinds) \in Nat
      BY Steps
    <3>2. t \in Calls
      BY <2>1, <3>1 DEF Calls, CallRecord, Op
    <3>3. Len(t) = 3
      BY <2>1
    <3>4. DOMAIN t = 1..3
      BY <2>1
    <3>5. t # <<>>
      BY <2>1
    <3>6. Head(t) = t[1]
      BY <2>1
    <3> QED BY <3>2, <3>3, <3>4, <3>5, <3>6
  <2>3. t[1].op = "finalize" /\ t[2].op = "preflight" /\ t[3].op = "complete"
    BY <2>1
  <2>4. ASSUME NEW i \in DOMAIN t
        PROVE  t[i].op \in {"finalize", "preflight"} \/ (i = 3 /\ t[i].op = "complete" /\ i - 1 = 2)
    <3>1. i \in 1..3
      BY <2>2, Zenon
    <3>2. i = 1 \/ i = 2 \/ (i = 3 /\ i - 1 = 2)
      BY <3>1
    <3> QED BY <2>3, <3>2, Zenon
  <2>5. \A i \in DOMAIN t : /\ t[i].op \notin Begins \cup Sends \cup {"reconcile"}
                            /\ t[i].op = "complete" => i = Len(t) /\ t[i - 1].op \in Surveys
    BY <2>2, <2>3, <2>4
  <2> QED BY <2>2, <2>3, <2>5 DEF Tied, Armed
<1>3. ASSUME NEW s \in Of({"attestation"}), t = External(s)
      PROVE  /\ t \in Calls /\ t # <<>> /\ Tied(t) /\ Armed(t)
             /\ Head(t).op \in {"resume", "preflight", "finalize"}
  <2>1. t = <<[op |-> "preflight", step |-> 0], [op |-> "begin", step |-> s],
              [op |-> "act", step |-> s], [op |-> "reconcile", step |-> s]>>
    BY <1>3 DEF External, Call
  <2>2. s \in Step /\ s \in 0..Len(Kinds)
    BY Steps DEF Step
  <2>3. t \in Calls /\ Len(t) = 4 /\ DOMAIN t = 1..4 /\ t # <<>> /\ Head(t) = t[1]
    <3>1. Len(Kinds) \in Nat
      BY Steps
    <3>2. t \in Calls
      BY <2>1, <2>2, <3>1 DEF Calls, CallRecord, Op
    <3>3. Len(t) = 4
      BY <2>1
    <3>4. DOMAIN t = 1..4
      BY <2>1
    <3>5. t # <<>>
      BY <2>1
    <3>6. Head(t) = t[1]
      BY <2>1
    <3> QED BY <3>2, <3>3, <3>4, <3>5, <3>6
  <2>4. /\ t[1].op = "preflight"
        /\ t[2] = [op |-> "begin", step |-> s] /\ t[3] = [op |-> "act", step |-> s]
        /\ t[4] = [op |-> "reconcile", step |-> s]
    BY <2>1
  <2>5. /\ t[1].op = "preflight" /\ t[2].op = "begin" /\ t[3].op = "act" /\ t[4].op = "reconcile"
        /\ t[2].step = s /\ t[3].step = s /\ t[4].step = s
    BY <2>4
  <2>6. ASSUME NEW i \in DOMAIN t
        PROVE /\ t[i].op \in Begins \cup Sends \cup {"reconcile"} => t[i].step \in Step
              /\ t[i].op = "act" => t[i].step \in Of({"attestation"})
              /\ t[i].op \in Sends => i < Len(t) /\ t[i + 1].op = "reconcile"
              /\ t[i].op \in Sends /\ i > 1 => t[i - 1].op \in Begins /\ t[i - 1].step = t[i].step
              /\ t[i].op # "complete"
              /\ t[i].op \in Begins => i < Len(t) /\ t[i + 1].op \in Sends
    <3>1. CASE i = 1
      BY <3>1, <2>5
    <3>2. CASE i = 2
      <4>1. i + 1 = 3 /\ i < Len(t)
        BY <3>2, <2>3
      <4> QED BY <3>2, <4>1, <2>2, <2>5
    <3>3. CASE i = 3
      <4>1. i + 1 = 4 /\ i - 1 = 2 /\ i < Len(t)
        BY <3>3, <2>3
      <4> QED BY <3>3, <4>1, <2>2, <2>5
    <3>4. CASE i = 4
      BY <3>4, <2>2, <2>5
    <3>5. i \in 1..4
      BY <2>3, Zenon
    <3>6. i = 1 \/ i = 2 \/ i = 3 \/ i = 4
      BY <3>5
    <3> QED BY <3>1, <3>2, <3>3, <3>4, <3>6
  <2>7. Tied(t)
    BY <2>6 DEF Tied
  <2>8. Armed(t)
    BY <2>6 DEF Armed
  <2> QED BY <2>3, <2>5, <2>7, <2>8
<1>4. ASSUME NEW phase \in SUBSET Step, NEW order \in InOrder(phase), t = Run(order)
      PROVE  /\ t \in Calls /\ t # <<>> /\ Tied(t) /\ Armed(t)
             /\ Head(t).op \in {"resume", "preflight", "finalize"}
  <2>1. PICK n \in Nat : order \in [1..n -> phase]
    <3>1. IsFiniteSet(phase)
      <4>1. Len(Kinds) \in Nat
        BY Steps
      <4>2. IsFiniteSet(Step)
        BY <4>1, FS_Interval DEF Step
      <4> QED BY <4>2, FS_Subset
    <3>2. Cardinality(phase) \in Nat
      BY <3>1, FS_CardinalityType
    <3> QED BY <3>2 DEF InOrder
  <2>2. Len(order) = n /\ order \in Seq(phase)
    BY <2>1
  <2>3. t = [i \in 1..(2 + 3 * n) |->
               IF i <= 2 THEN Reconcile[i] ELSE Advance(order[i \div 3])[1 + (i % 3)]]
    BY <1>4, <2>2 DEF Run
  <2>4. Reconcile[1] = [op |-> "resume", step |-> 0] /\ Reconcile[2] = [op |-> "preflight", step |-> 0]
    BY DEF Reconcile, Call
  <2>5. \A s : /\ Advance(s)[1] = [op |-> "begin", step |-> s]
               /\ Advance(s)[2] = [op |-> "send", step |-> s]
               /\ Advance(s)[3] = [op |-> "reconcile", step |-> s]
    BY DEF Advance, Call
  <2>6. \A k \in 1..n : order[k] \in Step /\ order[k] \in 0..Len(Kinds)
    <3>1. Len(Kinds) \in Nat
      BY Steps
    <3>2. \A k \in 1..n : order[k] \in Step
      BY <2>1
    <3> QED BY <3>1, <3>2 DEF Step
  <2>7. \A i \in 1..(2 + 3 * n) : i > 2 =>
          \E k \in 1..n : \/ i = 3 * k /\ t[i] = [op |-> "begin", step |-> order[k]]
                          \/ i = 3 * k + 1 /\ t[i] = [op |-> "send", step |-> order[k]]
                          \/ i = 3 * k + 2 /\ t[i] = [op |-> "reconcile", step |-> order[k]]
    <3> SUFFICES ASSUME NEW i \in 1..(2 + 3 * n), i > 2
        PROVE  \E k \in 1..n : \/ i = 3 * k /\ t[i] = [op |-> "begin", step |-> order[k]]
                               \/ i = 3 * k + 1 /\ t[i] = [op |-> "send", step |-> order[k]]
                               \/ i = 3 * k + 2 /\ t[i] = [op |-> "reconcile", step |-> order[k]]
      OBVIOUS
    <3>1. PICK k \in 1..n, r \in 0..2 : i = 3 * k + r /\ i \div 3 = k /\ i % 3 = r
      OBVIOUS
    <3>2. t[i] = Advance(order[k])[1 + r]
      BY <2>3, <3>1
    <3> QED BY <2>5, <3>1, <3>2
  <2>8. \A i \in 1..(2 + 3 * n) : t[i] \in CallRecord
    <3>1. Len(Kinds) \in Nat
      BY Steps
    <3>2. ASSUME NEW i \in 1..(2 + 3 * n), i <= 2 PROVE t[i] \in CallRecord
      <4>1. i = 1 \/ i = 2
        BY <3>2
      <4>2. t[i] = Reconcile[i]
        BY <2>3, <3>2
      <4>3. t[i] = [op |-> "resume", step |-> 0] \/ t[i] = [op |-> "preflight", step |-> 0]
        BY <4>1, <4>2, <2>4, Zenon
      <4>4. /\ [op |-> "resume", step |-> 0] \in CallRecord
            /\ [op |-> "preflight", step |-> 0] \in CallRecord
        BY <3>1 DEF CallRecord, Op
      <4> QED BY <4>3, <4>4, Zenon
    <3>3. ASSUME NEW i \in 1..(2 + 3 * n), i > 2 PROVE t[i] \in CallRecord
      <4>1. PICK k \in 1..n : \/ t[i] = [op |-> "begin", step |-> order[k]]
                              \/ t[i] = [op |-> "send", step |-> order[k]]
                              \/ t[i] = [op |-> "reconcile", step |-> order[k]]
        <5> HIDE DEF Begins, Sends, Surveys
        <5> QED BY <3>3, <2>7
      <4>2. /\ [op |-> "begin", step |-> order[k]] \in CallRecord
            /\ [op |-> "send", step |-> order[k]] \in CallRecord
            /\ [op |-> "reconcile", step |-> order[k]] \in CallRecord
        BY <2>6 DEF CallRecord, Op
      <4> QED BY <4>1, <4>2, Zenon
    <3> QED BY <3>2, <3>3
  <2>9. t \in Calls /\ Len(t) = 2 + 3 * n /\ DOMAIN t = 1..(2 + 3 * n) /\ t # <<>>
    <3>1. 2 + 3 * n \in Nat /\ 1 \in 1..(2 + 3 * n)
      OBVIOUS
    <3>2. DOMAIN t = 1..(2 + 3 * n)
      BY <2>3
    <3>3. t \in [1..(2 + 3 * n) -> CallRecord]
      BY <2>3, <2>8
    <3>4. t \in Calls /\ Len(t) = 2 + 3 * n
      BY <3>1, <3>3 DEF Calls
    <3>5. DOMAIN <<>> = {}
      OBVIOUS
    <3> QED BY <3>1, <3>2, <3>4, <3>5
  <2>10. t[1].op = "resume" /\ t[2].op = "preflight" /\ Head(t) = t[1]
    <3>1. t[1] = Reconcile[1] /\ t[2] = Reconcile[2]
      BY <2>3
    <3>2. Head(t) = t[1]
      BY <2>9 DEF Calls
    <3> QED BY <3>1, <3>2, <2>4
  <2>11. ASSUME NEW k \in 1..n
         PROVE  /\ t[3 * k] = [op |-> "begin", step |-> order[k]]
                /\ t[3 * k + 1] = [op |-> "send", step |-> order[k]]
                /\ t[3 * k + 2] = [op |-> "reconcile", step |-> order[k]]
    <3>1. /\ 3 * k \in 1..(2 + 3 * n) /\ 3 * k > 2
          /\ 3 * k + 1 \in 1..(2 + 3 * n) /\ 3 * k + 1 > 2
          /\ 3 * k + 2 \in 1..(2 + 3 * n) /\ 3 * k + 2 > 2
      OBVIOUS
    <3>2. t[3 * k] = [op |-> "begin", step |-> order[k]]
      <4>1. PICK i \in 1..(2 + 3 * n) : i = 3 * k /\ i > 2
        BY <3>1
      <4>2. PICK m \in 1..n : \/ i = 3 * m /\ t[i] = [op |-> "begin", step |-> order[m]]
                              \/ i = 3 * m + 1 /\ t[i] = [op |-> "send", step |-> order[m]]
                              \/ i = 3 * m + 2 /\ t[i] = [op |-> "reconcile", step |-> order[m]]
        BY <4>1, <2>7, Zenon
      <4>3. (i = 3 * m => m = k) /\ i # 3 * m + 1 /\ i # 3 * m + 2
        BY <4>1
      <4> QED BY <4>1, <4>2, <4>3, Zenon
    <3>3. t[3 * k + 1] = [op |-> "send", step |-> order[k]]
      <4>1. PICK i \in 1..(2 + 3 * n) : i = 3 * k + 1 /\ i > 2
        BY <3>1
      <4>2. PICK m \in 1..n : \/ i = 3 * m /\ t[i] = [op |-> "begin", step |-> order[m]]
                              \/ i = 3 * m + 1 /\ t[i] = [op |-> "send", step |-> order[m]]
                              \/ i = 3 * m + 2 /\ t[i] = [op |-> "reconcile", step |-> order[m]]
        BY <4>1, <2>7, Zenon
      <4>3. i # 3 * m /\ (i = 3 * m + 1 => m = k) /\ i # 3 * m + 2
        <5>1. k \in Int /\ m \in Int /\ i = 3 * k + 1
          BY <4>1
        <5>2. 3 * (k - m) # -1 /\ 3 * (k - m) # 1
          BY <5>1
        <5> QED BY <5>1, <5>2
      <4> QED BY <4>1, <4>2, <4>3, Zenon
    <3>4. t[3 * k + 2] = [op |-> "reconcile", step |-> order[k]]
      <4>1. PICK i \in 1..(2 + 3 * n) : i = 3 * k + 2 /\ i > 2
        BY <3>1
      <4>2. PICK m \in 1..n : \/ i = 3 * m /\ t[i] = [op |-> "begin", step |-> order[m]]
                              \/ i = 3 * m + 1 /\ t[i] = [op |-> "send", step |-> order[m]]
                              \/ i = 3 * m + 2 /\ t[i] = [op |-> "reconcile", step |-> order[m]]
        BY <4>1, <2>7, Zenon
      <4>3. i # 3 * m /\ i # 3 * m + 1 /\ (i = 3 * m + 2 => m = k)
        <5>1. k \in Int /\ m \in Int /\ i = 3 * k + 2
          BY <4>1
        <5>2. 3 * (k - m) # -2 /\ 3 * (k - m) # -1
          BY <5>1
        <5> QED BY <5>1, <5>2
      <4> QED BY <4>1, <4>2, <4>3, Zenon
    <3> QED BY <3>2, <3>3, <3>4
  <2>12. ASSUME NEW i \in 1..(2 + 3 * n)
         PROVE  /\ t[i].op \in Begins \cup Sends \cup {"reconcile"} => t[i].step \in Step
                /\ t[i].op \notin {"act", "complete"}
                /\ t[i].op \in Sends => i < Len(t) /\ t[i + 1].op = "reconcile"
                /\ t[i].op \in Sends => t[i - 1].op \in Begins /\ t[i - 1].step = t[i].step
                /\ t[i].op \in Begins => i < Len(t) /\ t[i + 1].op \in Sends
    <3>1. CASE i <= 2
      <4>1. i = 1 \/ i = 2
        BY <3>1
      <4> QED BY <4>1, <2>10
    <3>2. CASE i > 2
      <4>1. PICK k \in 1..n : i = 3 * k \/ i = 3 * k + 1 \/ i = 3 * k + 2
        BY <3>2, <2>7
      <4>2. order[k] \in Step
        BY <2>6
      <4>a. /\ t[3 * k] = [op |-> "begin", step |-> order[k]]
            /\ t[3 * k + 1] = [op |-> "send", step |-> order[k]]
            /\ t[3 * k + 2] = [op |-> "reconcile", step |-> order[k]]
        BY <2>11
      <4>3. CASE i = 3 * k
        <5>1. i < Len(t) /\ i + 1 = 3 * k + 1
          BY <4>3, <2>9
        <5>2. t[i].op = "begin" /\ t[i].step = order[k]
          BY <4>3, <4>a
        <5>3. t[i + 1].op = "send"
          BY <5>1, <4>a
        <5> QED BY <4>2, <5>1, <5>2, <5>3
      <4>4. CASE i = 3 * k + 1
        <5>1. i < Len(t) /\ i + 1 = 3 * k + 2 /\ i - 1 = 3 * k
          BY <4>4, <2>9
        <5>2. t[i].op = "send" /\ t[i].step = order[k]
          BY <4>4, <4>a
        <5>3. t[i + 1].op = "reconcile" /\ t[i - 1].op = "begin" /\ t[i - 1].step = order[k]
          BY <5>1, <4>a
        <5> QED BY <4>2, <5>1, <5>2, <5>3
      <4>5. CASE i = 3 * k + 2
        BY <4>2, <4>5, <4>a
      <4> QED BY <4>1, <4>3, <4>4, <4>5
    <3>3. i <= 2 \/ i > 2
      OBVIOUS
    <3> QED BY <3>1, <3>2, <3>3
  <2>13. Tied(t) /\ Armed(t)
    BY <2>9, <2>12 DEF Tied, Armed
  <2> QED BY <2>9, <2>10, <2>13
<1>5. Of({"registry"}) \in SUBSET Step /\ Of({"tag"} \cup Release) \in SUBSET Step
  BY Steps
<1> QED BY <1>1, <1>2, <1>3, <1>4, <1>5 DEF Commands

-----------------------------------------------------------------------------
(* What the operations on a snapshot do.                                      *)

LEMMA ChangedFacts ==
  ASSUME NEW l \in Ledger, NEW s, NEW state \in {"READY", "COMMITTED", "FROZEN"},
         NEW r, r = Changed(l, s, state)
  PROVE  /\ r \in Ledger /\ r.finalState = l.finalState
         /\ \A t \in Step : Committed(r, t) => Committed(l, t) \/ (t = s /\ state = "COMMITTED")
<1>1. r.finalState = l.finalState /\ r \in Ledger
  BY DEF Changed, Ledger, StepRecord
<1>2. \A t \in Step : r.steps[t].state = IF t = s THEN state ELSE l.steps[t].state
  BY DEF Changed, Ledger, StepRecord
<1> QED BY <1>1, <1>2 DEF Committed

LEMMA FreezeFacts ==
  ASSUME NEW l \in Ledger, NEW s, NEW r, r = Freeze(l, s)
  PROVE  /\ r \in Ledger /\ r.finalState = "FROZEN"
         /\ \A t \in Step : Committed(r, t) => Committed(l, t)
<1>1. PICK m : m = Changed(l, s, "FROZEN")
  OBVIOUS
<1>2. m \in Ledger /\ \A t \in Step : Committed(m, t) => Committed(l, t)
  BY <1>1, ChangedFacts
<1>3. r = [m EXCEPT !.finalState = "FROZEN"]
  BY <1>1 DEF Freeze
<1>4. r \in Ledger /\ r.finalState = "FROZEN" /\ r.steps = m.steps
  BY <1>2, <1>3 DEF Ledger
<1>5. \A t \in Step : Committed(r, t) => Committed(m, t)
  BY <1>4 DEF Committed
<1> QED BY <1>2, <1>4, <1>5

\* A snapshot made from another one: a finished one stays finished.
From(l, r) == r \in Ledger /\ r.finalState \in {l.finalState, "FROZEN"}

LEMMA ReadbackFacts ==
  ASSUME NEW l \in Ledger, NEW s \in Step, NEW response, NEW observation,
         NEW r, r = ApplyReadback(l, s, response, observation)
  PROVE  /\ From(l, r)
         /\ \A t \in Step : Committed(r, t) => Committed(l, t) \/ (t = s /\ observation = "SAME")
<1>1. PICK m : m = [l EXCEPT !.steps[s].open = FALSE]
  OBVIOUS
<1>2. m \in Ledger /\ m.finalState = l.finalState /\ \A t \in Step : m.steps[t].state = l.steps[t].state
  BY <1>1 DEF Ledger, StepRecord
<1>3. \A t \in Step : Committed(m, t) => Committed(l, t)
  BY <1>2 DEF Committed
<1>4. \/ r = Changed(m, s, "COMMITTED") /\ observation = "SAME"
      \/ r = Freeze(m, s)
      \/ r = Changed(m, s, "READY")
  BY <1>1 DEF ApplyReadback
<1>5. CASE r = Changed(m, s, "COMMITTED") /\ observation = "SAME"
  <2>1. r \in Ledger /\ r.finalState = m.finalState
        /\ \A t \in Step : Committed(r, t) => Committed(m, t) \/ t = s
    BY <1>2, <1>5, ChangedFacts
  <2> QED BY <2>1, <1>2, <1>3, <1>5 DEF From
<1>6. CASE r = Freeze(m, s)
  <2>1. r \in Ledger /\ r.finalState = "FROZEN" /\ \A t \in Step : Committed(r, t) => Committed(m, t)
    BY <1>2, <1>6, FreezeFacts
  <2> QED BY <2>1, <1>3 DEF From
<1>7. CASE r = Changed(m, s, "READY")
  <2>1. r \in Ledger /\ r.finalState = m.finalState
        /\ \A t \in Step : Committed(r, t) => Committed(m, t)
    BY <1>2, <1>7, ChangedFacts
  <2> QED BY <2>1, <1>2, <1>3 DEF From
<1> QED BY <1>4, <1>5, <1>6, <1>7

LEMMA PrestateFacts ==
  ASSUME NEW l \in Ledger, NEW s \in Step, NEW observation, NEW r, r = Prestate(l, s, observation)
  PROVE  /\ From(l, r)
         /\ \A t \in Step : Committed(r, t) => Committed(l, t) \/ (t = s /\ observation = "SAME")
         /\ observation # "SAME" /\ r.finalState # "FROZEN" => r.steps[s].state = "REQUEST_STARTED"
<1>1. PICK m : m = [l EXCEPT !.steps[s] =
        [state |-> "REQUEST_STARTED", attempts |-> l.steps[s].attempts + 1, open |-> TRUE]]
  OBVIOUS
<1>2. l.steps[s].attempts + 1 \in Nat
  BY DEF Ledger, StepRecord
<1>3. m \in Ledger /\ m.finalState = l.finalState /\ m.steps[s].state = "REQUEST_STARTED"
  BY <1>1, <1>2 DEF Ledger, StepRecord
<1>4. \A t \in Step : m.steps[t].state \in {l.steps[t].state, "REQUEST_STARTED"}
  BY <1>1, <1>2 DEF Ledger, StepRecord
<1>5. \/ r = Changed(l, s, "COMMITTED") /\ observation = "SAME"
      \/ r = Freeze(l, s) /\ observation # "SAME"
      \/ r = m /\ observation # "SAME"
  BY <1>1 DEF Prestate
<1>6. CASE r = Changed(l, s, "COMMITTED") /\ observation = "SAME"
  <2>1. r \in Ledger /\ r.finalState = l.finalState
        /\ \A t \in Step : Committed(r, t) => Committed(l, t) \/ t = s
    BY <1>6, ChangedFacts
  <2> QED BY <2>1, <1>6 DEF From
<1>7. CASE r = Freeze(l, s) /\ observation # "SAME"
  <2>1. r \in Ledger /\ r.finalState = "FROZEN" /\ \A t \in Step : Committed(r, t) => Committed(l, t)
    BY <1>7, FreezeFacts
  <2> QED BY <2>1 DEF From
<1>8. CASE r = m /\ observation # "SAME"
  <2>1. \A t \in Step : Committed(r, t) => Committed(l, t)
    BY <1>4, <1>8 DEF Committed
  <2> QED BY <2>1, <1>3, <1>8 DEF From
<1> QED BY <1>5, <1>6, <1>7, <1>8

LEMMA SurveyFacts ==
  ASSUME NEW l \in Ledger, NEW seen \in Seq(Value), NEW r, r = Surveyed(l, seen)
  PROVE  /\ From(l, r)
         /\ \A t \in Step : Committed(r, t) => Committed(l, t) \/ seen[t] = "SAME"
         /\ Conflicts(seen) # {} =>
              r.finalState = "FROZEN" /\ \A t \in Step : Committed(r, t) => Committed(l, t)
         /\ r.finalState # "FROZEN" => \A t \in Step : Committed(r, t) => seen[t] = "SAME"
<1>1. PICK g : g = [s \in Step |->
              [l.steps[s] EXCEPT !.state = IF seen[s] = "SAME" THEN "COMMITTED" ELSE "READY"]]
  OBVIOUS
<1>a. /\ g \in [Step -> StepRecord]
      /\ \A t \in Step : g[t].state = IF seen[t] = "SAME" THEN "COMMITTED" ELSE "READY"
  BY <1>1 DEF Ledger, StepRecord
<1>b. PICK m : m = [l EXCEPT !.steps = g]
  OBVIOUS
<1>2. m \in Ledger /\ m.finalState = l.finalState /\ m.steps = g
  BY <1>a, <1>b DEF Ledger
<1>3. \A t \in Step : Committed(m, t) => seen[t] = "SAME"
  BY <1>a, <1>2 DEF Committed
<1>4. (r = m /\ Conflicts(seen) = {}) \/ \E s : r = Freeze(l, s)
  BY <1>1, <1>b DEF Surveyed
<1>5. CASE r = m /\ Conflicts(seen) = {}
  BY <1>2, <1>3, <1>5 DEF From
<1>6. CASE \E s : r = Freeze(l, s)
  <2>1. r \in Ledger /\ r.finalState = "FROZEN" /\ \A t \in Step : Committed(r, t) => Committed(l, t)
    BY <1>6, FreezeFacts
  <2> QED BY <2>1 DEF From
<1> QED BY <1>4, <1>5, <1>6

-----------------------------------------------------------------------------
(* The ledger and the calls that are about to change it.                      *)

\* A snapshot that replaces l: what was ended stays ended, what was frozen frozen.
Lasts(l, r) ==
  /\ l.finalState # "ACTIVE" => r.finalState # "ACTIVE"
  /\ l.finalState = "FROZEN" => r.finalState = "FROZEN"

\* What a call holds that read the ledger as it still is.
Follows(w) == w.behind = 0 =>
  /\ w.at = "survey" => w.base = journal
  /\ w.at = "append" =>
       /\ Lasts(journal, w.base)
       /\ Head(w.todo).op = "complete" =>
            /\ \A s \in Step : Committed(journal, s)
            /\ w.base = [journal EXCEPT !.finalState = "COMPLETE"]
LedgerInv == ValidateLedger(journal) /\ \A c \in Controller : Follows(controller[c])

\* The only command that runs: it has missed nothing, its request is recorded
\* and not sent, and after a freeze it stops before it changes anything.
Minds(w) ==
  /\ w.behind = 0
  /\ w.at = "call" /\ Head(w.todo).op \in Sends =>
       journal.steps[Head(w.todo).step].state = "REQUEST_STARTED" /\ ~sent
  /\ w.at = "append" /\ Tail(w.todo) # <<>> /\ Head(Tail(w.todo)).op \in Sends =>
       w.base.steps[Head(Tail(w.todo)).step].state = "REQUEST_STARTED"
  /\ journal.finalState = "FROZEN" =>
       w.at = "call" /\ Head(w.todo).op \in {"resume", "preflight", "finalize"}
ApartInv ==
  ~overlapped => \A c \in Controller : controller[c].todo # <<>> =>
    Minds(controller[c]) /\ \A d \in Controller \ {c} : controller[d].todo = <<>>

CoreInv == PublicationTypeOK /\ OrderInv /\ LedgerInv /\ ApartInv

\* What lies under the keys, and what it lets a command claim: that the release
\* is public only if all of it is there, and, while nobody else has changed a
\* key, that what was ever seen in its place still is.
Placed(s) == remote[s] = "SAME"
Whole == Public /\ remote[Draft] \notin {"ABSENT", "UNKNOWN"} /\ \A s \in Of({"asset"}) : Placed(s)
Sound(s) == (s = Publish => Whole) /\ (meddling = 0 /\ s # Draft => Placed(s))
Fitted == \A s \in Step \ {Draft, Publish} : Placed(s)
ReadingOK(page) == page # <<>> =>
  /\ page[Publish] = "SAME" => page = Page
  /\ meddling = 0 => \A s \in Of(Release) \ {Draft} : page[s] = "SAME" => Placed(s)
Publishing(t) == t # <<>> /\ Head(t).op = "send" /\ Head(t).step = Publish

\* A command claims only what is so, and publishes only over the other steps.
Honest(w) ==
  /\ \A s \in Step : Committed(w.base, s) => Sound(s)
  /\ \A s \in Step \cap DOMAIN w.seen : w.seen[s] = "SAME" => Sound(s)
  /\ ReadingOK(w.page)
  /\ meddling = 0 /\ (Publishing(w.todo) \/ (w.at = "append" /\ Publishing(Tail(w.todo)))) => Fitted
HonestInv ==
  /\ Public => remote[Draft] # "ABSENT"
  /\ \A s \in Step : Committed(journal, s) => Sound(s)
  /\ meddling = 0 /\ (Publish \in inflight \/ Public) => Fitted
  /\ \A c \in Controller : Honest(controller[c])

\* What a finalizing command may count on that nobody has disturbed since it
\* began.  Elsewhere are the keys outside the release; the recorded ones are
\* committed, and a command that has missed no revision may yet record what it
\* claims.
Completing(t) == \E i \in DOMAIN t : t[i].op = "complete"
Sure(c) == Finalizing(c) /\ c \notin tampered
Elsewhere == Step \ Of(Release)
InPlace(steps) == \A s \in steps : Placed(s)
Clean == remote[Draft] # "DIFFERENT"
PageClean(page) == page # <<>> /\ page[Draft] # "DIFFERENT" => Clean
Recorded == {s \in Elsewhere : Committed(journal, s)}
Claims(w) ==
  {s \in Elsewhere : \/ w.at = "append" /\ Committed(w.base, s)
                     \/ w.at = "survey" /\ s \in DOMAIN w.seen /\ w.seen[s] = "SAME"}
Coming(c) ==
  {s \in Elsewhere : \E d \in Controller \ {c} :
                        controller[d].behind = 0 /\ s \in Claims(controller[d])}
Ready(c) == Clean /\ InPlace(Recorded) /\ InPlace(Coming(c))

\* Its survey is true; if another command overtakes it with the very same
\* snapshot, so is what the rest may record; and from its survey to its end
\* the ledger and everything on the way to it are.
Batched(c) == Sure(c) =>
  /\ PageClean(controller[c].page)
  /\ controller[c].at = "survey" =>
       InPlace(Claims(controller[c])) /\ (Draft \in DOMAIN controller[c].seen => Clean)
  /\ controller[c].at = "append" /\ Head(controller[c].todo).op \in Surveys =>
       Clean /\ InPlace(Claims(controller[c]))
  /\ controller[c].at # "call" /\ controller[c].behind = 1 => InPlace(Coming(c) \ Recorded)
  /\ Head(controller[c].todo).op = "complete" /\ journal.finalState = "ACTIVE" => Ready(c)
BatchInv == \A c \in Controller : Batched(c)

\* One command changes its place, and the ledger stays.
LEMMA Replace ==
  ASSUME CoreInv, NEW c \in Controller, controller[c].todo # <<>>,
         NEW v \in Worker, Ordered(v), controller' = [controller EXCEPT ![c] = v],
         UNCHANGED <<journal, meddling, bounds, overlapped>>,
         remote' \in [Step -> Value], remote'[Publish] \in {"ABSENT", "SAME"},
         inflight' \subseteq Step, sent' \in BOOLEAN, tampered' \subseteq Controller,
         Follows(v), ~overlapped /\ v.todo # <<>> => Minds(v)'
  PROVE  CoreInv'
<1>1. controller' \in [Controller -> Worker] /\ controller'[c] = v
      /\ \A d \in Controller \ {c} : controller'[d] = controller[d]
  BY DEF CoreInv, PublicationTypeOK
<1>2. PublicationTypeOK'
  BY <1>1 DEF CoreInv, PublicationTypeOK
<1>3. OrderInv'
  <2> SUFFICES ASSUME NEW d \in Controller PROVE Ordered(controller'[d])
    BY DEF OrderInv
  <2> QED BY <1>1 DEF CoreInv, OrderInv
<1>4. LedgerInv'
  <2>1. ASSUME NEW d \in Controller PROVE Follows(controller[d])'
    <3>1. Follows(controller'[d])
      BY <1>1 DEF CoreInv, LedgerInv
    <3> QED BY <3>1 DEF Follows
  <2> QED BY <2>1 DEF CoreInv, LedgerInv
<1>5. ApartInv'
  <2> SUFFICES ASSUME ~overlapped, NEW d \in Controller, controller'[d].todo # <<>>
               PROVE  /\ Minds(controller[d])'
                      /\ \A e \in Controller \ {d} : controller'[e].todo = <<>>
    BY DEF ApartInv
  <2>1. \A e \in Controller \ {c} : controller[e].todo = <<>>
    BY DEF CoreInv, ApartInv
  <2>2. d = c
    BY <1>1, <2>1
  <2>3. Minds(v)'
    BY <1>1, <2>2
  <2>4. Minds(controller[d])'
    BY <1>1, <2>2, <2>3 DEF Minds
  <2> QED BY <1>1, <2>1, <2>2, <2>4
<1> QED BY <1>2, <1>3, <1>4, <1>5 DEF CoreInv

LEMMA GoingFacts ==
  ASSUME NEW t \in Calls, Tied(t), Armed(t), NEW page \in Reading, NEW v, v = Going(t, page)
  PROVE  /\ v \in Worker /\ Ordered(v) /\ v.at = "call" /\ v.todo = t /\ v.behind = 0
         /\ v.base = Initial /\ v.seen = <<>> /\ v.response = "none"
         /\ v.page = IF t = <<>> THEN <<>> ELSE page
<1>1. CASE t = <<>>
  <2>1. v = Idle
    BY <1>1 DEF Going
  <2> QED BY <1>1, <2>1, IdleIsWorker DEF Idle
<1>2. CASE t # <<>>
  <2>1. v = [Idle EXCEPT !.todo = t, !.page = page]
    BY <1>2 DEF Going
  <2>2. Idle \in Worker
    BY IdleIsWorker
  <2>3. v = [at |-> "call", todo |-> t, base |-> Initial, behind |-> 0, seen |-> <<>>,
             response |-> "none", page |-> page]
    BY <2>1 DEF Idle
  <2>4. v \in Worker
    <3>1. <<>> \in Seq(Value)
      OBVIOUS
    <3> QED BY <2>3, <3>1, InitialLedger DEF Worker
  <2> QED BY <1>2, <2>3, <2>4 DEF Ordered
<1> QED BY <1>1, <1>2

\* The sequences a call may go on with.
MoveOK(c, t) ==
  /\ controller[c].todo # <<>>
  /\ t \in Calls /\ Tied(t) /\ Armed(t)
  /\ t # <<>> /\ Head(t).op \in Sends => overlapped
  /\ t # <<>> /\ ~overlapped => journal.finalState # "FROZEN"
  /\ HonestInv /\ meddling = 0 /\ Publishing(t) => Fitted
  /\ Completing(t) => Finalizing(c)
  /\ t # <<>> /\ Head(t).op = "complete" /\ journal.finalState = "ACTIVE" =>
       (BatchInv /\ Sure(c) => Ready(c))

LEMMA GoOnKeepsCore ==
  ASSUME CoreInv, NEW c \in Controller, NEW t, MoveOK(c, t), GoOn(c, t), OnRecord, UNCHANGED bounds
  PROVE  CoreInv'
<1>1. PICK v : v = Going(t, controller[c].page)
  OBVIOUS
<1>2. controller' = [controller EXCEPT ![c] = v]
  BY <1>1 DEF GoOn, CoreInv, PublicationTypeOK
<1>3. controller[c].page \in Reading
  BY DEF CoreInv, PublicationTypeOK, Worker
<1>4. v \in Worker /\ Ordered(v) /\ v.at = "call" /\ v.todo = t /\ v.behind = 0
  BY <1>1, <1>3, GoingFacts DEF MoveOK
<1>5. Follows(v)
  BY <1>4 DEF Follows
<1>6. ~overlapped /\ v.todo # <<>> => Minds(v)'
  BY <1>4 DEF MoveOK, Minds, OnRecord
<1>7. tampered' \subseteq Controller
  BY DEF GoOn, CoreInv, PublicationTypeOK
<1> QED BY <1>2, <1>4, <1>5, <1>6, <1>7, Replace
        DEF MoveOK, OnRecord, remoteVars, CoreInv, PublicationTypeOK

\* The snapshots a call may propose, and what it then goes on with.
ProposeOK(c, l, rest, page) ==
  /\ controller[c].todo # <<>> /\ controller[c].at # "append"
  /\ Current(c).op \notin Sends \cup {"finalize"}
  /\ rest \in {<<>>, Rest(c)} \/ (Current(c).op \in Begins /\ rest = Skip(c))
  /\ l.finalState = "FROZEN" => rest = <<>>
  /\ l \in Ledger /\ page \in Reading
  /\ Current(c).op \in Begins /\ rest = Rest(c) /\ rest # <<>> =>
       l.steps[Current(c).step].state = "REQUEST_STARTED"
  /\ controller[c].behind = 0 =>
       /\ Lasts(journal, l)
       /\ Current(c).op = "complete" =>
            /\ \A s \in Step : Committed(journal, s)
            /\ l = [journal EXCEPT !.finalState = "COMPLETE"]
  /\ ~overlapped => journal.finalState # "FROZEN"
  /\ HonestInv =>
       /\ \A s \in Step : Committed(l, s) => Sound(s)
       /\ ReadingOK(page)
       /\ meddling = 0 /\ Publishing(rest) => Fitted
  /\ controller[c].behind = 0 => \A s \in Elsewhere : Committed(l, s) =>
       Committed(journal, s) \/ Placed(s) \/ s \in Claims(controller[c])
  /\ BatchInv /\ Sure(c) =>
       /\ PageClean(page)
       /\ Current(c).op \in Surveys /\ l.finalState # "FROZEN" =>
            Clean /\ \A s \in Elsewhere : Committed(l, s) => Placed(s)

\* What the command is then.
Waiting(w, l, rest, page) ==
  [w EXCEPT !.at = "append", !.base = l, !.seen = <<>>, !.response = "none", !.page = page,
            !.todo = <<Head(w.todo)>> \o rest]

LEMMA CurrentFacts ==
  ASSUME CoreInv, NEW c \in Controller, controller[c].todo # <<>>
  PROVE  /\ controller[c] \in Worker /\ controller[c].todo \in Calls /\ Tied(controller[c].todo)
         /\ controller[c].at # "append" => Armed(controller[c].todo)
         /\ Current(c) = Head(controller[c].todo) /\ Current(c) \in CallRecord
         /\ Current(c) = controller[c].todo[1]
         /\ Rest(c) = Tail(controller[c].todo) /\ Rest(c) \in Calls /\ Tied(Rest(c)) /\ Armed(Rest(c))
         /\ Current(c).op \in Begins \cup Sends \cup {"reconcile"} => Current(c).step \in Step
         /\ Current(c).op = "act" => Current(c).step \in Of({"attestation"})
         /\ Current(c).op = "complete" => Rest(c) = <<>>
         /\ Rest(c) # <<>> /\ Head(Rest(c)).op \in Sends =>
              Current(c).op \in Begins /\ Head(Rest(c)).step = Current(c).step
         /\ Rest(c) # <<>> /\ Head(Rest(c)).op = "complete" => Current(c).op \in Surveys
<1>1. controller[c] \in Worker /\ Ordered(controller[c])
  BY DEF CoreInv, PublicationTypeOK, OrderInv
<1>2. PICK t : t = controller[c].todo
  OBVIOUS
<1>3. t \in Calls /\ t # <<>> /\ Tied(t) /\ (controller[c].at # "append" => Armed(t))
  BY <1>1, <1>2 DEF Worker, Ordered
<1>4. Current(c) = Head(t) /\ Rest(c) = Tail(t)
  BY <1>2 DEF Current, Rest
<1>5. /\ Tail(t) \in Calls /\ Head(t) \in CallRecord /\ Tied(Tail(t)) /\ Head(t) = t[1]
      /\ Len(t) > 0 /\ Len(Tail(t)) = Len(t) - 1 /\ (Armed(t) => Armed(Tail(t)))
      /\ Tail(t) # <<>> /\ Head(Tail(t)).op \in Sends =>
           Head(t).op \in Begins /\ Head(Tail(t)).step = Head(t).step
      /\ Tail(t) # <<>> /\ Head(Tail(t)).op = "complete" => Head(t).op \in Surveys
  BY <1>3, RestIsOrdered
<1>6. Armed(Tail(t))
  BY <1>1, <1>2, <1>3, <1>5 DEF Worker, Ordered
<1>7. 1 \in DOMAIN t
  BY <1>3, <1>5 DEF Calls
<1>8. /\ t[1].op \in Begins \cup Sends \cup {"reconcile"} => t[1].step \in Step
      /\ t[1].op = "act" => t[1].step \in Of({"attestation"})
      /\ t[1].op = "complete" => 1 = Len(t)
  BY <1>3, <1>7 DEF Tied
<1>9. Len(t) = 1 => Tail(t) = <<>>
  <2>1. Len(t) = 1 => Len(Tail(t)) = 0
    BY <1>5
  <2> QED BY <1>5, <2>1, EmptySeq DEF Calls
<1> QED BY <1>1, <1>2, <1>3, <1>4, <1>5, <1>6, <1>8, <1>9

LEMMA TailCompletes ==
  ASSUME NEW t \in Calls, t # <<>>
  PROVE  (Completing(Tail(t)) => Completing(t)) /\ (Head(t).op = "complete" => Completing(t))
<1>1. /\ Len(t) \in Nat /\ Len(t) > 0 /\ DOMAIN t = 1..Len(t) /\ Head(t) = t[1]
      /\ DOMAIN Tail(t) = 1..(Len(t) - 1) /\ \A i \in 1..(Len(t) - 1) : Tail(t)[i] = t[i + 1]
  BY DEF Calls
<1>2. \A i \in 1..(Len(t) - 1) : i + 1 \in DOMAIN t
  BY <1>1
<1>3. 1 \in DOMAIN t
  BY <1>1
<1> QED BY <1>1, <1>2, <1>3 DEF Completing

LEMMA JoinCompletes ==
  ASSUME NEW x \in CallRecord, NEW t \in Calls, NEW u, u = <<x>> \o t, Completing(u)
  PROVE  x.op = "complete" \/ Completing(t)
<1>1. <<x>> \in Calls /\ Len(<<x>>) = 1 /\ <<x>>[1] = x
  BY DEF Calls
<1>2. /\ Len(t) \in Nat /\ DOMAIN u = 1..(Len(t) + 1) /\ DOMAIN t = 1..Len(t)
      /\ \A i \in 1..(Len(t) + 1) : u[i] = IF i <= 1 THEN <<x>>[i] ELSE t[i - 1]
  BY <1>1, ConcatProperties DEF Calls
<1>3. PICK i \in DOMAIN u : u[i].op = "complete"
  BY DEF Completing
<1>4. CASE i = 1
  BY <1>1, <1>2, <1>3, <1>4
<1>5. CASE i # 1
  <2>1. i - 1 \in DOMAIN t /\ u[i] = t[i - 1]
    BY <1>2, <1>5
  <2> QED BY <1>3, <2>1 DEF Completing
<1> QED BY <1>4, <1>5

\* A command that is not finalizing does not become so on its way.
LEMMA FinalizingFacts ==
  ASSUME CoreInv, NEW c \in Controller, controller[c].todo # <<>>
  PROVE  /\ Finalizing(c) <=> Completing(controller[c].todo)
         /\ Current(c).op = "complete" => Finalizing(c)
         /\ Completing(Rest(c)) => Finalizing(c)
         /\ controller[c].at # "append" /\ Current(c).op \in Begins /\ Completing(Skip(c))
              => Finalizing(c)
<1>1. PICK t : t = controller[c].todo
  OBVIOUS
<1>2. /\ t \in Calls /\ t # <<>> /\ Tied(t) /\ (controller[c].at # "append" => Armed(t))
      /\ Current(c) = Head(t) /\ Rest(c) = Tail(t) /\ Tail(t) \in Calls
  BY <1>1, CurrentFacts
<1>3. Finalizing(c) <=> Completing(t)
  BY <1>1 DEF Finalizing, Completing
<1>4. /\ Completing(Tail(t)) => Completing(t)
      /\ Head(t).op = "complete" => Completing(t)
  BY <1>2, TailCompletes
<1>5. ASSUME Armed(t), Head(t).op \in Begins, Completing(Skip(c)) PROVE Completing(t)
  <2>1. Skip(c) = Tail(Tail(Tail(t)))
    BY <1>2 DEF Skip
  <2>2. Tail(t) # <<>> /\ Head(Tail(t)).op \in Sends /\ Tied(Tail(t))
    BY <1>2, <1>5, RestIsOrdered
  <2>3. Tail(Tail(t)) \in Calls /\ Tail(Tail(t)) # <<>>
    BY <1>2, <2>2, RestIsOrdered
  <2>4. Completing(Tail(Tail(t))) => Completing(Tail(t))
    BY <1>2, <2>2, TailCompletes
  <2>5. Completing(Tail(Tail(Tail(t)))) => Completing(Tail(Tail(t)))
    BY <2>3, TailCompletes
  <2> QED BY <1>4, <1>5, <2>1, <2>4, <2>5
<1> QED BY <1>1, <1>2, <1>3, <1>4, <1>5

LEMMA WaitingFacts ==
  ASSUME CoreInv, NEW c \in Controller, NEW l, NEW rest, NEW page, ProposeOK(c, l, rest, page),
         NEW v, v = Waiting(controller[c], l, rest, page)
  PROVE  /\ v \in Worker /\ Ordered(v) /\ v.at = "append" /\ v.base = l
         /\ v.behind = controller[c].behind /\ v.page = page /\ v.seen = <<>>
         /\ v.response = "none"
         /\ v.todo # <<>> /\ Head(v.todo) = Current(c) /\ Tail(v.todo) = rest
         /\ rest \in Calls /\ Tied(rest) /\ Armed(rest)
         /\ rest # <<>> /\ Head(rest).op \in Sends =>
              rest = Rest(c) /\ Current(c).op \in Begins /\ Head(rest).step = Current(c).step
         /\ rest # <<>> => Head(rest).op # "complete" \/ rest = Rest(c)
<1>0. controller[c].todo # <<>>
  BY DEF ProposeOK
<1>1. /\ controller[c] \in Worker /\ controller[c].todo \in Calls
      /\ Tied(controller[c].todo) /\ Armed(controller[c].todo)
      /\ Current(c) = Head(controller[c].todo) /\ Current(c) \in CallRecord
      /\ Rest(c) = Tail(controller[c].todo) /\ Rest(c) \in Calls /\ Tied(Rest(c)) /\ Armed(Rest(c))
      /\ Current(c).op \in Begins \cup Sends \cup {"reconcile"} => Current(c).step \in Step
      /\ Current(c).op = "complete" => Rest(c) = <<>>
      /\ Rest(c) # <<>> /\ Head(Rest(c)).op \in Sends =>
           Current(c).op \in Begins /\ Head(Rest(c)).step = Current(c).step
      /\ Rest(c) # <<>> /\ Head(Rest(c)).op = "complete" => Current(c).op \in Surveys
  BY <1>0, CurrentFacts DEF ProposeOK
<1>2. /\ rest \in Calls /\ Tied(rest) /\ Armed(rest)
      /\ Current(c).op = "complete" => rest = <<>>
      /\ rest # <<>> /\ Head(rest).op \in Sends =>
           rest = Rest(c) /\ Current(c).op \in Begins /\ Head(rest).step = Current(c).step
      /\ rest # <<>> /\ Head(rest).op = "complete" => rest = Rest(c) /\ Current(c).op \in Surveys
  <2>1. CASE rest = <<>>
    <3>1. DOMAIN <<>> = {}
      OBVIOUS
    <3>2. <<>> \in Calls /\ Tied(<<>>) /\ Armed(<<>>)
      BY <3>1, EmptySeq DEF Calls, Tied, Armed
    <3> QED BY <2>1, <3>2
  <2>2. CASE rest = Rest(c)
    BY <1>1, <2>2
  <2>3. CASE Current(c).op \in Begins /\ rest = Skip(c)
    <3>1. rest = Tail(Tail(Tail(controller[c].todo)))
      BY <1>1, <2>3 DEF Skip
    <3>2. /\ rest \in Calls /\ Tied(rest) /\ Armed(rest)
          /\ rest # <<>> => Head(rest).op \notin Sends \cup {"complete"}
      BY <1>0, <1>1, <2>3, <3>1, SkipIsOrdered
    <3> QED BY <2>3, <3>2 DEF Begins
  <2> QED BY <2>1, <2>2, <2>3 DEF ProposeOK
<1>3. PICK u : u = <<Current(c)>> \o rest
  OBVIOUS
<1>4. u \in Calls /\ u # <<>> /\ Head(u) = Current(c) /\ Tail(u) = rest /\ Tied(u)
  <2>1. PICK x : x = Current(c)
    OBVIOUS
  <2>2. /\ x \in CallRecord /\ x.op \notin Sends
        /\ x.op \in Begins \cup {"reconcile"} => x.step \in Step
        /\ x.op = "complete" => rest = <<>>
        /\ rest # <<>> /\ Head(rest).op \in Sends => x.op \in Begins /\ x.step = Head(rest).step
        /\ rest # <<>> /\ Head(rest).op = "complete" => x.op \in Surveys
    BY <1>1, <1>2, <2>1 DEF ProposeOK
  <2>3. u = <<x>> \o rest
    BY <1>3, <2>1
  <2> QED BY <1>2, <2>1, <2>2, <2>3, JoinIsOrdered
<1>5. v = [controller[c] EXCEPT !.at = "append", !.base = l, !.seen = <<>>, !.response = "none",
                               !.page = page, !.todo = u]
  BY <1>1, <1>3 DEF Waiting
<1>6. v = [at |-> "append", todo |-> u, base |-> l, behind |-> controller[c].behind, seen |-> <<>>,
           response |-> "none", page |-> page]
  BY <1>1, <1>5 DEF Worker
<1>7. v \in Worker
  <2>1. <<>> \in Seq(Value)
    OBVIOUS
  <2>2. controller[c].behind \in 0..2
    BY <1>1 DEF Worker
  <2> QED BY <1>4, <1>6, <2>1, <2>2 DEF Worker, ProposeOK
<1>8. Ordered(v)
  <2>1. /\ v.at = "append" /\ v.todo = u /\ v.base = l
        /\ l.finalState = "FROZEN" => rest = <<>>
        /\ Current(c).op \notin Sends \cup {"finalize"}
    BY <1>6 DEF ProposeOK
  <2> QED BY <1>2, <1>4, <2>1 DEF Ordered
<1> QED BY <1>2, <1>4, <1>6, <1>7, <1>8

LEMMA ProposeKeepsCore ==
  ASSUME CoreInv, NEW c \in Controller, NEW l, NEW rest, NEW page, ProposeOK(c, l, rest, page),
         controller' = [controller EXCEPT ![c] = Waiting(controller[c], l, rest, page)],
         UNCHANGED tampered, OnRecord, UNCHANGED bounds
  PROVE  CoreInv'
<1>1. PICK v : v = Waiting(controller[c], l, rest, page)
  OBVIOUS
<1>2. /\ v \in Worker /\ Ordered(v) /\ v.at = "append" /\ v.base = l
      /\ v.behind = controller[c].behind
      /\ v.todo # <<>> /\ Head(v.todo) = Current(c) /\ Tail(v.todo) = rest
      /\ rest # <<>> /\ Head(rest).op \in Sends =>
           rest = Rest(c) /\ Current(c).op \in Begins /\ Head(rest).step = Current(c).step
  BY <1>1, WaitingFacts
<1>3. Follows(v)
  BY <1>2 DEF Follows, ProposeOK
<1>4. ~overlapped /\ v.todo # <<>> => Minds(v)'
  <2> SUFFICES ASSUME ~overlapped PROVE Minds(v)'
    OBVIOUS
  <2>1. v.behind = 0
    BY <1>2 DEF CoreInv, ApartInv, Minds, ProposeOK
  <2>2. rest # <<>> /\ Head(rest).op \in Sends =>
          l.steps[Head(rest).step].state = "REQUEST_STARTED"
    BY <1>2 DEF ProposeOK
  <2>3. journal'.finalState # "FROZEN"
    BY DEF ProposeOK, OnRecord
  <2> QED BY <1>2, <2>1, <2>2, <2>3 DEF Minds
<1> QED BY <1>1, <1>2, <1>3, <1>4, Replace
        DEF ProposeOK, OnRecord, remoteVars, CoreInv, PublicationTypeOK

\* A survey that goes on with the next key.
SurveyOK(c, l, now, page) ==
  /\ controller[c].todo # <<>> /\ controller[c].at # "append" /\ Current(c).op \in Surveys
  /\ l \in Ledger /\ page \in Reading
  /\ now \in Seq(Value) /\ Len(now) < Len(Kinds) /\ Conflicts(now) = {}
  /\ controller[c].behind = 0 => l = journal
  /\ ~overlapped => journal.finalState # "FROZEN"
  /\ HonestInv =>
       /\ \A s \in Step : Committed(l, s) => Sound(s)
       /\ \A s \in Step \cap DOMAIN now : now[s] = "SAME" => Sound(s)
       /\ ReadingOK(page)
  /\ \A s \in Elsewhere \cap DOMAIN now : now[s] = "SAME" =>
       Placed(s) \/ s \in Claims(controller[c])
  /\ BatchInv /\ Sure(c) =>
       /\ PageClean(page) /\ (Draft \in DOMAIN now => Clean)
       /\ \A s \in Elsewhere \cap DOMAIN now : now[s] = "SAME" => Placed(s)
Surveying(w, l, now, page) ==
  [w EXCEPT !.at = "survey", !.base = l, !.seen = now, !.page = page]

LEMMA SurveyingFacts ==
  ASSUME CoreInv, NEW c \in Controller, NEW l, NEW now, NEW page, SurveyOK(c, l, now, page),
         NEW v, v = Surveying(controller[c], l, now, page)
  PROVE  /\ v \in Worker /\ Ordered(v) /\ v.at = "survey" /\ v.base = l /\ v.seen = now
         /\ v.behind = controller[c].behind /\ v.page = page
         /\ v.todo = controller[c].todo /\ v.todo # <<>> /\ Head(v.todo) = Current(c)
<1>1. /\ controller[c].todo # <<>> /\ controller[c] \in Worker /\ controller[c].todo \in Calls
      /\ Tied(controller[c].todo) /\ Armed(controller[c].todo)
      /\ Current(c) = Head(controller[c].todo)
  BY CurrentFacts DEF SurveyOK
<1>2. v = [at |-> "survey", todo |-> controller[c].todo, base |-> l, behind |-> controller[c].behind,
           seen |-> now, response |-> controller[c].response, page |-> page]
  BY <1>1 DEF Worker, Surveying
<1>3. v \in Worker
  BY <1>1, <1>2 DEF Worker, SurveyOK
<1>4. Ordered(v)
  BY <1>1, <1>2 DEF Ordered, SurveyOK
<1> QED BY <1>1, <1>2, <1>3, <1>4

LEMMA SurveyKeepsCore ==
  ASSUME CoreInv, NEW c \in Controller, NEW l, NEW now, NEW page, SurveyOK(c, l, now, page),
         controller' = [controller EXCEPT ![c] = Surveying(controller[c], l, now, page)],
         UNCHANGED tampered, OnRecord, UNCHANGED bounds
  PROVE  CoreInv'
<1>1. PICK v : v = Surveying(controller[c], l, now, page)
  OBVIOUS
<1>2. /\ v \in Worker /\ Ordered(v) /\ v.at = "survey" /\ v.base = l
      /\ v.behind = controller[c].behind /\ v.todo # <<>>
  BY <1>1, SurveyingFacts
<1>3. Follows(v)
  BY <1>2 DEF Follows, SurveyOK
<1>4. ~overlapped /\ v.todo # <<>> => Minds(v)'
  BY <1>2 DEF CoreInv, ApartInv, Minds, SurveyOK, OnRecord
<1> QED BY <1>1, <1>2, <1>3, <1>4, Replace
        DEF SurveyOK, OnRecord, remoteVars, CoreInv, PublicationTypeOK

-----------------------------------------------------------------------------
(* What a call of a command comes to: it goes on, proposes a snapshot, or      *)
(* looks at the next key.                                                     *)
Outcome(c) ==
  \/ \E t : MoveOK(c, t) /\ GoOn(c, t)
  \/ \E l, rest, page :
       /\ ProposeOK(c, l, rest, page) /\ UNCHANGED tampered
       /\ controller' = [controller EXCEPT ![c] = Waiting(controller[c], l, rest, page)]
  \/ \E l, now, page :
       /\ SurveyOK(c, l, now, page) /\ UNCHANGED tampered
       /\ controller' = [controller EXCEPT ![c] = Surveying(controller[c], l, now, page)]

LEMMA OutcomeKeepsCore ==
  ASSUME CoreInv, NEW c \in Controller, Outcome(c), OnRecord, UNCHANGED bounds
  PROVE  CoreInv'
<1>1. CASE \E t : MoveOK(c, t) /\ GoOn(c, t)
  BY <1>1, GoOnKeepsCore
<1>2. CASE \E l, rest, page :
       /\ ProposeOK(c, l, rest, page) /\ UNCHANGED tampered
       /\ controller' = [controller EXCEPT ![c] = Waiting(controller[c], l, rest, page)]
  BY <1>2, ProposeKeepsCore
<1>3. CASE \E l, now, page :
       /\ SurveyOK(c, l, now, page) /\ UNCHANGED tampered
       /\ controller' = [controller EXCEPT ![c] = Surveying(controller[c], l, now, page)]
  BY <1>3, SurveyKeepsCore
<1> QED BY <1>1, <1>2, <1>3 DEF Outcome

LEMMA StopOutcome ==
  ASSUME NEW c \in Controller, controller[c].todo # <<>>, Stop(c)
  PROVE  Outcome(c)
<1>1. DOMAIN <<>> = {}
  OBVIOUS
<1>2. MoveOK(c, <<>>)
  BY <1>1, EmptySeq DEF MoveOK, Calls, Tied, Armed, Publishing, Completing
<1> QED BY <1>2 DEF Outcome, Stop

LEMMA ProposeOutcome ==
  ASSUME CoreInv, NEW c \in Controller, NEW l, NEW calls, NEW page, Propose(c, l, calls, page),
         NEW rest, rest = IF l.finalState = "FROZEN" THEN <<>> ELSE calls,
         ProposeOK(c, l, rest, page)
  PROVE  Outcome(c)
<1>1. controller \in [Controller -> Worker]
  BY DEF CoreInv, PublicationTypeOK
<1>2. Current(c) = Head(controller[c].todo)
  BY DEF Current
<1>3. controller' = [controller EXCEPT ![c] =
        [[[[[[controller[c] EXCEPT !.at = "append"] EXCEPT !.base = l] EXCEPT !.seen = <<>>]
            EXCEPT !.response = "none"] EXCEPT !.page = page] EXCEPT !.todo = <<Current(c)>> \o rest]]
  BY <1>1 DEF Propose
<1>4. controller' = [controller EXCEPT ![c] = Waiting(controller[c], l, rest, page)]
  BY <1>1, <1>2, <1>3 DEF Waiting
<1>5. UNCHANGED tampered
  BY DEF Propose
<1> QED BY <1>4, <1>5, Zenon DEF Outcome

LEMMA LookFacts ==
  ASSUME CoreInv, NEW c \in Controller, NEW s \in Step, NEW page \in Pages(c, s),
         NEW observation \in Look(page, s)
  PROVE  page \in Reading /\ observation \in Value
<1>1. controller[c].page \in Reading /\ remote \in [Step -> Value]
  BY DEF CoreInv, PublicationTypeOK, Worker
<1>2. Page \in [Of(Release) -> Value] /\ Draft \in Of(Release) /\ Publish \in Of(Release)
  BY <1>1, Steps DEF Page
<1>3. CASE s \in Of(Release)
  <2>1. page \in [Of(Release) -> Value]
    BY <1>1, <1>2, <1>3 DEF Pages, Reading
  <2>2. PublishObserved(page) \in Value
    BY DEF PublishObserved, Value
  <2>3. Observed(page, s) \in Value
    BY <1>2, <1>3, <2>1, <2>2 DEF Observed, Value
  <2> QED BY <2>1, <2>3 DEF Look, Reading, Value
<1>4. CASE s \notin Of(Release)
  BY <1>1, <1>4 DEF Pages, Look, Observed, Value
<1> QED BY <1>3, <1>4

\* What a command sees in its place lies there.
LEMMA LookIsHonest ==
  ASSUME CoreInv, HonestInv, NEW c \in Controller, NEW s \in Step, NEW page \in Pages(c, s),
         NEW observation \in Look(page, s)
  PROVE  ReadingOK(page) /\ (observation = "SAME" => Sound(s))
<1>1. /\ controller[c].page \in Reading /\ remote \in [Step -> Value]
      /\ ReadingOK(controller[c].page)
  BY DEF CoreInv, PublicationTypeOK, Worker, HonestInv, Honest
<1>2. /\ Page \in [Of(Release) -> Value] /\ Draft \in Of(Release) /\ Publish \in Of(Release)
      /\ \A t \in Of(Release) : Page[t] = remote[t]
  BY <1>1, Steps DEF Page
<1>3. ReadingOK(Page)
  BY <1>2 DEF ReadingOK, Placed
<1>4. CASE s \in Of(Release)
  <2>1. page \in [Of(Release) -> Value] /\ ReadingOK(page) /\ page # <<>>
    <3>1. page = Page \/ (page = controller[c].page /\ page # <<>>)
      BY <1>4 DEF Pages
    <3>2. Page # <<>>
      <4>1. DOMAIN Page = Of(Release) /\ DOMAIN <<>> = {}
        BY DEF Page
      <4> QED BY <1>2, <4>1
    <3> QED BY <1>1, <1>2, <1>3, <3>1, <3>2 DEF Reading
  <2>2. SUFFICES ASSUME observation = "SAME" PROVE Sound(s)
    BY <2>1
  <2>3. Observed(page, s) = "SAME"
    BY <2>2 DEF Look
  <2>4. CASE s = Publish
    <3>1. page[Draft] # "UNKNOWN" /\ PublishObserved(page) = "SAME"
      <4>1. s \notin Of({"asset"})
        BY <2>4, Steps DEF Of
      <4> QED BY <1>4, <2>3, <2>4, <4>1 DEF Observed
    <3>2. /\ page[Draft] # "ABSENT" /\ page[Publish] = "SAME"
          /\ {page[t] : t \in Of({"asset"})} \subseteq {"SAME"}
      BY <3>1 DEF PublishObserved
    <3>3. page = Page
      BY <2>1, <3>2 DEF ReadingOK
    <3>4. remote[Draft] \notin {"ABSENT", "UNKNOWN"} /\ remote[Publish] = "SAME"
      BY <1>2, <3>1, <3>2, <3>3
    <3>5. \A t \in Of({"asset"}) : page[t] = "SAME" /\ t \in Of(Release)
      BY <3>2, Steps
    <3> QED BY <1>2, <2>4, <3>3, <3>4, <3>5 DEF Sound, Whole, Placed, Public
  <2>5. CASE s = Draft
    BY <2>5, Steps DEF Sound
  <2>6. CASE s \in Of({"asset"}) /\ s # Draft /\ s # Publish
    <3>1. page[s] = "SAME"
      BY <1>4, <2>3, <2>6 DEF Observed
    <3> QED BY <1>4, <2>1, <2>6, <3>1 DEF Sound, ReadingOK
  <2> QED BY <1>4, <2>4, <2>5, <2>6, Steps
<1>5. CASE s \notin Of(Release)
  <2>1. page = controller[c].page /\ Observed(page, s) = remote[s] /\ s # Publish
    BY <1>2, <1>5 DEF Pages, Observed
  <2> QED BY <1>1, <2>1 DEF Look, Sound, Placed
<1> QED BY <1>4, <1>5

\* A sure command sees no strange draft that is not there.
LEMMA LookIsBatch ==
  ASSUME CoreInv, NEW c \in Controller, NEW s \in Step, NEW page \in Pages(c, s),
         NEW observation \in Look(page, s)
  PROVE  /\ s \in Elsewhere /\ observation = "SAME" => Placed(s)
         /\ BatchInv /\ Sure(c) =>
              PageClean(page) /\ (s = Draft /\ observation \notin {"DIFFERENT", "UNKNOWN"} => Clean)
<1>1. Draft \in Of(Release) /\ Publish \in Of(Release) /\ Draft # Publish /\ Draft \notin Of({"asset"})
  BY Steps DEF Of
<1>2. s \in Elsewhere /\ observation = "SAME" => Placed(s)
  BY DEF Look, Observed, Elsewhere, Placed
<1>3. ASSUME BatchInv, Sure(c) PROVE PageClean(page)
  <2>1. PageClean(controller[c].page)
    BY <1>3 DEF BatchInv, Batched
  <2>2. PageClean(Page)
    BY <1>1 DEF PageClean, Page, Clean
  <2> QED BY <2>1, <2>2 DEF Pages
<1>4. ASSUME BatchInv, Sure(c), s = Draft, observation \notin {"DIFFERENT", "UNKNOWN"} PROVE Clean
  <2>1. observation = Observed(page, s)
    BY <1>4 DEF Look
  <2>2. observation = page[Draft]
    BY <1>1, <1>4, <2>1 DEF Observed
  <2>3. page # <<>>
    <3>1. Page # <<>>
      <4>1. DOMAIN Page = Of(Release) /\ DOMAIN <<>> = {}
        BY DEF Page
      <4> QED BY <1>1, <4>1
    <3> QED BY <1>1, <1>4, <3>1 DEF Pages
  <2> QED BY <1>3, <1>4, <2>2, <2>3 DEF PageClean
<1> QED BY <1>2, <1>3, <1>4

LEMMA PairIsJoined ==
  ASSUME NEW a \in CallRecord, NEW b \in CallRecord, NEW r \in Calls
  PROVE  <<a, b>> \o r = <<a>> \o (<<b>> \o r)
<1>1. <<a>> \in Calls /\ <<b>> \in Calls /\ <<a, b>> \in Calls
  BY DEF Calls
<1>2. (<<a>> \o <<b>>) \o r = <<a>> \o (<<b>> \o r)
  <2>1. \A S : \A p, q, u \in Seq(S) : (p \o q) \o u = p \o (q \o u)
    BY ConcatAssociative
  <2> QED BY <1>1, ConcatAssociative DEF Calls
<1>3. <<a>> \o <<b>> = <<a, b>>
  <2>1. Len(<<a>>) = 1 /\ Len(<<b>>) = 1 /\ Len(<<a, b>>) = 2
    OBVIOUS
  <2>2. /\ <<a>> \o <<b>> \in Calls /\ Len(<<a>> \o <<b>>) = 2
        /\ \A i \in 1..2 : (<<a>> \o <<b>>)[i] = IF i <= 1 THEN <<a>>[i] ELSE <<b>>[i - 1]
    BY <1>1, <2>1, ConcatProperties DEF Calls
  <2>3. \A i \in 1..2 : (<<a>> \o <<b>>)[i] = <<a, b>>[i]
    <3>1. <<a>>[1] = a /\ <<b>>[1] = b /\ <<a, b>>[1] = a /\ <<a, b>>[2] = b
      OBVIOUS
    <3>2. (<<a>> \o <<b>>)[1] = a
      BY <2>2, <3>1
    <3>3. (<<a>> \o <<b>>)[2] = b
      BY <2>2, <3>1
    <3>4. \A i \in 1..2 : i = 1 \/ i = 2
      OBVIOUS
    <3> QED BY <3>1, <3>2, <3>3, <3>4
  <2> QED BY <1>1, <2>1, <2>2, <2>3, SeqEqual DEF Calls
<1> QED BY <1>2, <1>3, Zenon

LEMMA CallRange ==
  ASSUME NEW x \in CallRecord
  PROVE  x.op \in Op /\ x.step \in 0..Len(Kinds)
BY DEF CallRecord

LEMMA ResumeIsOrdered ==
  ASSUME NEW a \in CallRecord, a.op = "resume", NEW v \in Calls, Tied(v), Armed(v),
         Head(v).op \notin Sends, Head(v).op # "complete",
         NEW w, w = <<a>> \o v
  PROVE  w \in Calls /\ w # <<>> /\ Head(w) = a /\ Tied(w) /\ Armed(w)
<1>1. a.op \notin Sends /\ a.op \notin Begins \cup {"reconcile"} /\ a.op # "complete"
  BY DEF Begins, Sends
<1>2. /\ w \in Calls /\ w # <<>> /\ Head(w) = a /\ Tied(w)
      /\ Armed(v) /\ (a.op \in Begins => v # <<>> /\ Head(v).op \in Sends) => Armed(w)
  BY <1>1, JoinIsOrdered
<1> QED BY <1>1, <1>2

\* A call that first resolves an open request: b is made again after a.
LEMMA ResolveIsOrdered ==
  ASSUME NEW a \in CallRecord, a.op = "resume",
         NEW b \in CallRecord, b.op \in {"preflight_resumed", "begin_resumed"},
         b.op \in Begins => b.step \in Step,
         NEW r \in Calls, Tied(r), Armed(r),
         r # <<>> /\ Head(r).op \in Sends => b.op \in Begins /\ b.step = Head(r).step,
         r # <<>> /\ Head(r).op = "complete" => b.op \in Surveys,
         b.op \in Begins => r # <<>> /\ Head(r).op \in Sends,
         NEW u, u = <<a, b>> \o r
  PROVE  u \in Calls /\ u # <<>> /\ Tied(u) /\ Armed(u) /\ Head(u).op = "resume"
<1>1. PICK v : v = <<b>> \o r
  OBVIOUS
<1>2. v \in Calls /\ v # <<>> /\ Head(v) = b /\ Tied(v) /\ Armed(v)
  <2>1. /\ b.op \notin Sends
        /\ b.op \in Begins \cup {"reconcile"} => b.step \in Step
        /\ b.op = "complete" => r = <<>>
    BY DEF Begins, Sends, Surveys
  <2>2. /\ v \in Calls /\ v # <<>> /\ Head(v) = b /\ Tied(v)
        /\ Armed(r) /\ (b.op \in Begins => r # <<>> /\ Head(r).op \in Sends) => Armed(v)
    BY <1>1, <2>1, JoinIsOrdered
  <2> QED BY <2>2
<1>3. PICK w : w = <<a>> \o v
  OBVIOUS
<1>4. w \in Calls /\ w # <<>> /\ Head(w) = a /\ Tied(w) /\ Armed(w)
  <2>1. Head(v).op \notin Sends /\ Head(v).op # "complete"
    BY <1>2 DEF Begins, Sends, Surveys
  <2> QED BY <1>2, <1>3, <2>1, ResumeIsOrdered
<1>5. u = w
  BY <1>1, <1>3, PairIsJoined
<1> QED BY <1>4, <1>5

LEMMA CallingFacts ==
  ASSUME CoreInv, NEW c \in Controller, NEW op, Calling(c, op)
  PROVE  /\ controller[c].todo # <<>> /\ controller[c].at = "call" /\ Current(c).op = op
         /\ ~overlapped /\ journal.finalState = "FROZEN" => op \in {"resume", "preflight", "finalize"}
<1>1. controller[c].todo # <<>> /\ controller[c].at = "call" /\ Current(c).op = op
  BY DEF Calling, At
<1>2. Current(c) = Head(controller[c].todo)
  BY DEF Current
<1> QED BY <1>1, <1>2 DEF CoreInv, ApartInv, Minds

LEMMA FromLasts == ASSUME NEW l, NEW r, From(l, r) PROVE Lasts(l, r) /\ r \in Ledger
BY DEF From, Lasts

LEMMA RestOutcome ==
  ASSUME CoreInv, NEW c \in Controller, controller[c].todo # <<>>, Current(c).op \notin Begins,
         Current(c).op \in Surveys => journal.finalState # "ACTIVE",
         ~overlapped => journal.finalState # "FROZEN", GoOn(c, Rest(c))
  PROVE  Outcome(c)
<1>1. MoveOK(c, Rest(c))
  BY CurrentFacts, FinalizingFacts DEF MoveOK, Publishing, Sends
<1> QED BY <1>1 DEF Outcome

LEMMA SkipOutcome ==
  ASSUME CoreInv, NEW c \in Controller, controller[c].todo # <<>>, controller[c].at = "call",
         Current(c).op \in Begins,
         ~overlapped => journal.finalState # "FROZEN", GoOn(c, Skip(c))
  PROVE  Outcome(c)
<1>1. /\ controller[c].todo \in Calls /\ Tied(controller[c].todo) /\ Armed(controller[c].todo)
      /\ Head(controller[c].todo).op \in Begins /\ Rest(c) = Tail(controller[c].todo)
  BY CurrentFacts
<1>2. Skip(c) = Tail(Tail(Tail(controller[c].todo)))
  BY <1>1 DEF Skip
<1>3. /\ Skip(c) \in Calls /\ Tied(Skip(c)) /\ Armed(Skip(c))
      /\ Skip(c) # <<>> => Head(Skip(c)).op \notin Sends \cup {"complete"}
  BY <1>1, <1>2, SkipIsOrdered
<1>4. Completing(Skip(c)) => Finalizing(c)
  BY FinalizingFacts
<1>5. MoveOK(c, Skip(c))
  BY <1>3, <1>4 DEF MoveOK, Publishing, Sends
<1> QED BY <1>5 DEF Outcome

LEMMA ResolveOutcome ==
  ASSUME CoreInv, NEW c \in Controller, NEW again,
         controller[c].todo # <<>>, controller[c].at = "call",
         \/ Current(c).op = "preflight" /\ again = "preflight_resumed"
         \/ Current(c).op = "begin" /\ again = "begin_resumed",
         journal.finalState # "FROZEN", Resolve(c, again)
  PROVE  Outcome(c)
<1>1. PICK x, r, a, b : /\ x = Current(c) /\ r = Rest(c)
                        /\ a = Call("resume", 0) /\ b = Call(again, x.step)
  OBVIOUS
<1>2. /\ x \in CallRecord /\ r \in Calls /\ Tied(r) /\ Armed(r)
      /\ x.op \in Begins => x.step \in Step
      /\ r # <<>> /\ Head(r).op \in Sends => x.op \in Begins /\ Head(r).step = x.step
      /\ r # <<>> /\ Head(r).op = "complete" => x.op \in Surveys
  BY <1>1, CurrentFacts
<1>3. x.op \in Begins => r # <<>> /\ Head(r).op \in Sends
  <2>1. /\ controller[c].todo \in Calls /\ Tied(controller[c].todo) /\ Armed(controller[c].todo)
        /\ Head(controller[c].todo) = x /\ r = Tail(controller[c].todo)
    BY <1>1, CurrentFacts
  <2> QED BY <2>1, RestIsOrdered
<1>4. /\ a \in CallRecord /\ a.op = "resume"
      /\ b \in CallRecord /\ b.op = again /\ b.step = x.step
  <2>1. Len(Kinds) \in Nat
    BY Steps
  <2>2. 0 \in 0..Len(Kinds)
    BY <2>1
  <2>3. x.step \in 0..Len(Kinds)
    BY <1>2, CallRange
  <2>4. again \in Op /\ "resume" \in Op
    BY DEF Op, Begins, Surveys
  <2> QED BY <1>1, <2>2, <2>3, <2>4, CallParts
<1>5. /\ b.op \in {"preflight_resumed", "begin_resumed"}
      /\ b.op \in Begins => b.step \in Step
      /\ r # <<>> /\ Head(r).op \in Sends => b.op \in Begins /\ b.step = Head(r).step
      /\ r # <<>> /\ Head(r).op = "complete" => b.op \in Surveys
      /\ b.op \in Begins => r # <<>> /\ Head(r).op \in Sends
  BY <1>1, <1>2, <1>3, <1>4 DEF Begins, Surveys
<1>6. PICK u : u = <<a, b>> \o r
  OBVIOUS
<1>7. u \in Calls /\ u # <<>> /\ Tied(u) /\ Armed(u) /\ Head(u).op = "resume"
  BY <1>2, <1>4, <1>5, <1>6, ResolveIsOrdered
<1>8. GoOn(c, u)
  BY <1>1, <1>6 DEF Resolve
<1>9. Completing(u) => Finalizing(c)
  <2> SUFFICES ASSUME Completing(u) PROVE Finalizing(c)
    OBVIOUS
  <2>1. PICK v : v = <<b>> \o r
    OBVIOUS
  <2>2. v \in Calls /\ u = <<a>> \o v
    <3>1. <<b>> \in Calls
      BY <1>4 DEF Calls
    <3>2. v \in Calls
      BY <1>2, <2>1, <3>1, ConcatProperties DEF Calls
    <3> QED BY <1>2, <1>4, <1>6, <2>1, <3>2, PairIsJoined
  <2>3. Completing(v)
    BY <1>4, <2>2, JoinCompletes
  <2>4. Completing(r)
    BY <1>2, <1>4, <2>1, <2>3, JoinCompletes
  <2> QED BY <1>1, <2>4, FinalizingFacts
<1>10. MoveOK(c, u)
  BY <1>7, <1>9 DEF MoveOK, Sends, Publishing
<1> QED BY <1>8, <1>10 DEF Outcome

LEMMA SurveyOutcome ==
  ASSUME CoreInv, NEW c \in Controller, NEW l \in Ledger, NEW seen \in Seq(Value),
         controller[c].todo # <<>>, controller[c].at # "append", Current(c).op \in Surveys,
         Len(seen) < Len(Kinds), Conflicts(seen) = {},
         controller[c].behind = 0 => l = journal,
         ~overlapped => journal.finalState # "FROZEN",
         HonestInv =>
           /\ \A s \in Step : Committed(l, s) => Sound(s)
           /\ \A s \in Step \cap DOMAIN seen : seen[s] = "SAME" => Sound(s),
         \A s \in Elsewhere \cap DOMAIN seen : seen[s] = "SAME" => s \in Claims(controller[c]),
         BatchInv /\ Sure(c) =>
           /\ Draft \in DOMAIN seen => Clean
           /\ \A s \in Elsewhere \cap DOMAIN seen : seen[s] = "SAME" => Placed(s),
         Survey(c, l, seen)
  PROVE  Outcome(c)
<1>1. PICK s : s = Len(seen) + 1
  OBVIOUS
<1>2. s \in Step /\ Len(Kinds) \in Nat
  BY <1>1, Steps DEF Step
<1>3. PICK page \in Pages(c, s) : \E observation \in Look(page, s) :
        LET now == Append(seen, observation)
        IN  IF s = Len(Kinds) \/ Conflicts(now) # {}
            THEN Propose(c, Surveyed(l, now), Rest(c), page)
            ELSE /\ controller' = [controller EXCEPT ![c].at = "survey", ![c].base = l,
                      ![c].seen = now, ![c].page = page]
                 /\ UNCHANGED tampered
  BY <1>1 DEF Survey
<1>4. PICK observation, now :
        /\ observation \in Look(page, s) /\ now = Append(seen, observation)
        /\ IF s = Len(Kinds) \/ Conflicts(now) # {}
            THEN Propose(c, Surveyed(l, now), Rest(c), page)
            ELSE /\ controller' = [controller EXCEPT ![c].at = "survey", ![c].base = l,
                      ![c].seen = now, ![c].page = page]
                 /\ UNCHANGED tampered
  BY <1>3
<1>5. page \in Reading /\ observation \in Value
  BY <1>2, <1>4, LookFacts
<1>6. now \in Seq(Value) /\ Len(now) = s
  BY <1>1, <1>4, <1>5
<1>a. HonestInv => /\ ReadingOK(page)
                   /\ \A t \in Step \cap DOMAIN now : now[t] = "SAME" => Sound(t)
  <2> SUFFICES ASSUME HonestInv
               PROVE  /\ ReadingOK(page)
                      /\ \A t \in Step \cap DOMAIN now : now[t] = "SAME" => Sound(t)
    OBVIOUS
  <2>1. ReadingOK(page) /\ (observation = "SAME" => Sound(s))
    BY <1>2, <1>4, LookIsHonest
  <2>2. \A t \in DOMAIN now : \/ t \in DOMAIN seen /\ now[t] = seen[t]
                              \/ t = s /\ now[t] = observation
    BY <1>1, <1>4, <1>5
  <2> QED BY <2>1, <2>2
<1>b. /\ \A t \in Elsewhere \cap DOMAIN now : now[t] = "SAME" =>
           Placed(t) \/ t \in Claims(controller[c])
      /\ BatchInv /\ Sure(c) =>
           /\ PageClean(page) /\ (Draft \in DOMAIN now /\ Conflicts(now) = {} => Clean)
           /\ \A t \in Elsewhere \cap DOMAIN now : now[t] = "SAME" => Placed(t)
  <2>1. /\ s \in Elsewhere /\ observation = "SAME" => Placed(s)
        /\ BatchInv /\ Sure(c) =>
             PageClean(page) /\ (s = Draft /\ observation \notin {"DIFFERENT", "UNKNOWN"} => Clean)
    BY <1>2, <1>4, LookIsBatch
  <2>2. /\ \A t \in DOMAIN now : \/ t \in DOMAIN seen /\ now[t] = seen[t]
                                 \/ t = s /\ now[t] = observation
        /\ s \in DOMAIN now /\ now[s] = observation
    BY <1>1, <1>4, <1>5
  <2>3. Conflicts(now) = {} => observation \notin {"DIFFERENT", "UNKNOWN"}
    BY <2>2 DEF Conflicts
  <2> QED BY <2>1, <2>2, <2>3
<1>7. CASE s = Len(Kinds) \/ Conflicts(now) # {}
  <2>1. PICK r, rest : r = Surveyed(l, now) /\ rest = IF r.finalState = "FROZEN" THEN <<>> ELSE Rest(c)
    OBVIOUS
  <2>2. Lasts(l, r) /\ r \in Ledger
    BY <1>6, <2>1, SurveyFacts, FromLasts
  <2>a. HonestInv => \A t \in Step : Committed(r, t) => Sound(t)
    <3>1. /\ \A t \in Step : Committed(r, t) => Committed(l, t) \/ now[t] = "SAME"
          /\ Conflicts(now) # {} => \A t \in Step : Committed(r, t) => Committed(l, t)
      BY <1>6, <2>1, SurveyFacts
    <3>2. s = Len(Kinds) => DOMAIN now = Step
      BY <1>6 DEF Step
    <3> QED BY <1>7, <1>a, <3>1, <3>2
  <2>b. ~Publishing(rest)
    <3>1. Current(c).op \notin Begins
      BY DEF Surveys, Begins
    <3> QED BY <2>1, <3>1, CurrentFacts DEF Publishing, Sends
  <2>c. Conflicts(now) = {} => \A t \in Elsewhere : t \in Step \cap DOMAIN now
    BY <1>6, <1>7 DEF Step, Elsewhere
  <2>d. controller[c].behind = 0 => \A t \in Elsewhere : Committed(r, t) =>
          Committed(journal, t) \/ Placed(t) \/ t \in Claims(controller[c])
    <3>1. /\ \A t \in Step : Committed(r, t) => Committed(l, t) \/ now[t] = "SAME"
          /\ Conflicts(now) # {} => \A t \in Step : Committed(r, t) => Committed(l, t)
      BY <1>6, <2>1, SurveyFacts
    <3> QED BY <1>b, <2>c, <3>1 DEF Elsewhere
  <2>e. BatchInv /\ Sure(c) =>
          /\ PageClean(page)
          /\ r.finalState # "FROZEN" => Clean /\ \A t \in Elsewhere : Committed(r, t) => Placed(t)
    <3>1. r.finalState # "FROZEN" =>
            Conflicts(now) = {} /\ \A t \in Step : Committed(r, t) => now[t] = "SAME"
      BY <1>6, <2>1, SurveyFacts
    <3>2. Conflicts(now) = {} => Draft \in DOMAIN now
      BY <1>6, <1>7, Steps DEF Step
    <3> QED BY <1>b, <2>c, <3>1, <3>2 DEF Elsewhere
  <2>3. ProposeOK(c, r, rest, page)
    BY <1>5, <1>a, <2>1, <2>2, <2>a, <2>b, <2>d, <2>e DEF ProposeOK, Surveys, Sends, Begins
  <2>4. Propose(c, r, Rest(c), page)
    BY <1>4, <1>7, <2>1
  <2> QED BY <2>1, <2>3, <2>4, ProposeOutcome
<1>8. CASE ~(s = Len(Kinds) \/ Conflicts(now) # {})
  <2>1. SurveyOK(c, l, now, page)
    <3>1. Len(now) < Len(Kinds) /\ Conflicts(now) = {}
      BY <1>1, <1>2, <1>6, <1>8
    <3> QED BY <1>5, <1>6, <1>a, <1>b, <3>1 DEF SurveyOK
  <2>2. controller \in [Controller -> Worker]
    BY DEF CoreInv, PublicationTypeOK
  <2>3. controller' = [controller EXCEPT ![c] =
          [[[[controller[c] EXCEPT !.at = "survey"] EXCEPT !.base = l] EXCEPT !.seen = now]
            EXCEPT !.page = page]]
    BY <1>4, <1>8, <2>2
  <2>4. controller' = [controller EXCEPT ![c] = Surveying(controller[c], l, now, page)]
    BY <2>2, <2>3 DEF Surveying
  <2> QED BY <1>4, <1>8, <2>1, <2>4, Zenon DEF Outcome
<1> QED BY <1>7, <1>8

LEMMA CheckStepOutcome ==
  ASSUME CoreInv, NEW c \in Controller,
         controller[c].todo # <<>>, controller[c].at = "call", Current(c).op \in Begins,
         ~overlapped => journal.finalState # "FROZEN", CheckStep(c)
  PROVE  Outcome(c)
<1>1. PICK s : s = Current(c).step
  OBVIOUS
<1>2. s \in Step /\ journal \in Ledger
  BY <1>1, CurrentFacts DEF CoreInv, PublicationTypeOK
<1>3. \/ GoOn(c, Skip(c))
      \/ /\ IsFirstUncommitted(journal, s)
         /\ \E page \in Pages(c, s) : \E observation \in Look(page, s) :
              Propose(c, Prestate(journal, s, observation),
                      IF observation = "SAME" THEN Skip(c) ELSE Rest(c), page)
      \/ Stop(c)
  BY <1>1 DEF CheckStep
<1>4. ASSUME IsFirstUncommitted(journal, s),
             NEW page \in Pages(c, s), NEW observation \in Look(page, s),
             Propose(c, Prestate(journal, s, observation),
                     IF observation = "SAME" THEN Skip(c) ELSE Rest(c), page)
      PROVE  Outcome(c)
  <2>1. PICK l, calls, rest : /\ l = Prestate(journal, s, observation)
                              /\ calls = IF observation = "SAME" THEN Skip(c) ELSE Rest(c)
                              /\ rest = IF l.finalState = "FROZEN" THEN <<>> ELSE calls
    OBVIOUS
  <2>2. page \in Reading
    BY <1>2, LookFacts
  <2>3. /\ Lasts(journal, l) /\ l \in Ledger
        /\ observation # "SAME" /\ l.finalState # "FROZEN" => l.steps[s].state = "REQUEST_STARTED"
    BY <1>2, <2>1, PrestateFacts, FromLasts
  <2>4. rest # <<>> /\ rest = Rest(c) => observation # "SAME" /\ l.finalState # "FROZEN"
    <3>1. /\ controller[c].todo \in Calls /\ Tied(controller[c].todo) /\ Armed(controller[c].todo)
          /\ Head(controller[c].todo).op \in Begins /\ Rest(c) = Tail(controller[c].todo)
      BY CurrentFacts
    <3>2. Skip(c) = Tail(Tail(Tail(controller[c].todo)))
      BY <3>1 DEF Skip
    <3>3. Skip(c) # <<>> => Head(Skip(c)).op \notin Sends
      BY <3>1, <3>2, SkipIsOrdered
    <3>4. Head(Rest(c)).op \in Sends
      BY <3>1, RestIsOrdered
    <3> QED BY <2>1, <3>3, <3>4
  <2>a. HonestInv => /\ \A t \in Step : Committed(l, t) => Sound(t)
                     /\ ReadingOK(page)
    <3>1. \A t \in Step : Committed(l, t) => Committed(journal, t) \/ (t = s /\ observation = "SAME")
      BY <1>2, <2>1, PrestateFacts
    <3> QED BY <1>2, <3>1, LookIsHonest DEF HonestInv
  <2>b. HonestInv /\ meddling = 0 /\ Publishing(rest) => Fitted
    <3> SUFFICES ASSUME HonestInv, meddling = 0, Publishing(rest)
                 PROVE  Fitted
      OBVIOUS
    <3>1. /\ controller[c].todo \in Calls /\ Tied(controller[c].todo) /\ Armed(controller[c].todo)
          /\ Head(controller[c].todo).op \in Begins /\ Rest(c) = Tail(controller[c].todo)
          /\ Head(Rest(c)).op \in Sends => Head(Rest(c)).step = s
      <4>1. Rest(c) # <<>> /\ Head(Rest(c)).op \in Sends => Head(Rest(c)).step = s
        BY <1>1, CurrentFacts
      <4>2. rest # <<>> => Rest(c) # <<>> \/ rest = Skip(c)
        BY <2>1
      <4> QED BY <4>1, <4>2, CurrentFacts, RestIsOrdered
    <3>2. Skip(c) # <<>> => Head(Skip(c)).op \notin Sends
      <4>1. Skip(c) = Tail(Tail(Tail(controller[c].todo)))
        BY <3>1 DEF Skip
      <4> QED BY <3>1, <4>1, SkipIsOrdered
    <3>3. s = Publish
      BY <2>1, <3>1, <3>2 DEF Publishing, Sends
    <3>4. \A t \in 1..(s - 1) : Committed(journal, t)
      BY <1>4 DEF IsFirstUncommitted
    <3>5. \A t \in Step \ {Publish} : t \in 1..(s - 1)
      BY <3>3, Steps DEF Step, Publish
    <3> QED BY <3>4, <3>5 DEF HonestInv, Sound, Fitted
  <2>c. /\ \A t \in Elsewhere : Committed(l, t) => Committed(journal, t) \/ Placed(t)
        /\ BatchInv /\ Sure(c) => PageClean(page)
    <3>1. \A t \in Step : Committed(l, t) => Committed(journal, t) \/ (t = s /\ observation = "SAME")
      BY <1>2, <2>1, PrestateFacts
    <3>2. /\ s \in Elsewhere /\ observation = "SAME" => Placed(s)
          /\ BatchInv /\ Sure(c) => PageClean(page)
      BY <1>2, LookIsBatch
    <3> QED BY <3>1, <3>2 DEF Elsewhere
  <2>5. ProposeOK(c, l, rest, page)
    BY <1>1, <2>1, <2>2, <2>3, <2>4, <2>a, <2>b, <2>c
       DEF ProposeOK, Begins, Sends, Surveys
  <2>6. Propose(c, l, calls, page)
    BY <1>4, <2>1
  <2> QED BY <2>1, <2>5, <2>6, ProposeOutcome
<1> QED BY <1>3, <1>4, SkipOutcome, StopOutcome

LEMMA DieOutcome ==
  ASSUME NEW c \in Controller, Die(c)
  PROVE  Outcome(c) /\ OnRecord
BY StopOutcome DEF Die

LEMMA ResumeOutcome ==
  ASSUME CoreInv, NEW c \in Controller, ResumePending(c)
  PROVE  Outcome(c) /\ OnRecord
<1>1. controller[c].todo # <<>> /\ controller[c].at = "call" /\ Current(c).op = "resume"
  BY CallingFacts DEF ResumePending
<1>2. CASE journal.finalState = "FROZEN"
  BY <1>1, <1>2, StopOutcome DEF ResumePending
<1>3. CASE journal.finalState # "FROZEN" /\ Started(journal) = {}
  BY <1>1, <1>3, RestOutcome DEF ResumePending, Begins, Surveys
<1>4. ASSUME journal.finalState # "FROZEN", NEW s \in Started(journal), NEW page \in Pages(c, s),
             NEW observation \in Look(page, s),
             Propose(c, ApplyReadback(journal, s, "AMBIGUOUS", observation), Rest(c), page)
      PROVE  Outcome(c)
  <2>1. PICK l, rest : /\ l = ApplyReadback(journal, s, "AMBIGUOUS", observation)
                       /\ rest = IF l.finalState = "FROZEN" THEN <<>> ELSE Rest(c)
    OBVIOUS
  <2>2. s \in Step /\ journal \in Ledger
    BY DEF Started, CoreInv, PublicationTypeOK
  <2>3. page \in Reading
    BY <2>2, LookFacts
  <2>4. Lasts(journal, l) /\ l \in Ledger
    BY <2>1, <2>2, ReadbackFacts, FromLasts
  <2>a. HonestInv => /\ \A t \in Step : Committed(l, t) => Sound(t)
                     /\ ReadingOK(page)
    <3>1. \A t \in Step : Committed(l, t) => Committed(journal, t) \/ (t = s /\ observation = "SAME")
      BY <2>1, <2>2, ReadbackFacts
    <3> QED BY <2>2, <3>1, LookIsHonest DEF HonestInv
  <2>b. ~Publishing(rest)
    <3>1. Current(c).op \notin Begins
      BY <1>1 DEF Begins
    <3> QED BY <1>1, <2>1, <3>1, CurrentFacts DEF Publishing, Sends
  <2>c. /\ \A t \in Elsewhere : Committed(l, t) => Committed(journal, t) \/ Placed(t)
        /\ BatchInv /\ Sure(c) => PageClean(page)
    <3>1. \A t \in Step : Committed(l, t) => Committed(journal, t) \/ (t = s /\ observation = "SAME")
      BY <2>1, <2>2, ReadbackFacts
    <3>2. /\ s \in Elsewhere /\ observation = "SAME" => Placed(s)
          /\ BatchInv /\ Sure(c) => PageClean(page)
      BY <2>2, LookIsBatch
    <3> QED BY <3>1, <3>2 DEF Elsewhere
  <2>5. ProposeOK(c, l, rest, page)
    BY <1>1, <1>4, <2>1, <2>3, <2>4, <2>a, <2>b, <2>c
       DEF ProposeOK, Begins, Sends, Surveys
  <2>6. Propose(c, l, Rest(c), page)
    BY <1>4, <2>1
  <2> QED BY <2>1, <2>5, <2>6, ProposeOutcome
<1>5. CASE journal.finalState # "FROZEN" /\ Started(journal) # {}
  BY <1>4, <1>5 DEF ResumePending
<1> QED BY <1>2, <1>3, <1>5 DEF ResumePending

LEMMA PreflightOutcome ==
  ASSUME CoreInv, NEW c \in Controller, PreflightAll(c)
  PROVE  Outcome(c) /\ OnRecord
<1>0. /\ <<>> \in Seq(Value) /\ Len(<<>>) < Len(Kinds) /\ Conflicts(<<>>) = {} /\ journal \in Ledger
      /\ HonestInv => /\ \A s \in Step : Committed(journal, s) => Sound(s)
                      /\ \A s \in Step \cap DOMAIN <<>> : <<>>[s] = "SAME" => Sound(s)
      /\ DOMAIN <<>> = {}
  <2>1. Len(Kinds) > 0 /\ Len(<<>>) = 0 /\ DOMAIN <<>> = {}
    BY Steps DEF Step
  <2> QED BY <2>1 DEF Conflicts, CoreInv, PublicationTypeOK, HonestInv
<1>1. ASSUME Calling(c, "preflight"),
             CASE journal.finalState = "FROZEN" -> Stop(c)
               [] journal.finalState = "COMPLETE" -> GoOn(c, Rest(c))
               [] OTHER -> IF Started(journal) # {} THEN Resolve(c, "preflight_resumed")
                           ELSE Survey(c, journal, <<>>)
      PROVE  Outcome(c)
  <2>1. controller[c].todo # <<>> /\ controller[c].at = "call" /\ Current(c).op = "preflight"
    BY <1>1, CallingFacts
  <2>2. CASE journal.finalState = "FROZEN"
    BY <1>1, <2>1, <2>2, StopOutcome
  <2>3. CASE journal.finalState = "COMPLETE"
    BY <1>1, <2>1, <2>3, RestOutcome DEF Begins
  <2>4. CASE journal.finalState = "ACTIVE" /\ Started(journal) # {}
    BY <1>1, <2>1, <2>4, ResolveOutcome
  <2>5. CASE journal.finalState = "ACTIVE" /\ Started(journal) = {}
    <3>1. Survey(c, journal, <<>>)
      BY <1>1, <2>5
    <3> QED BY <1>0, <2>1, <2>5, <3>1, SurveyOutcome DEF Surveys
  <2>6. journal.finalState \in {"ACTIVE", "FROZEN", "COMPLETE"}
    BY <1>0 DEF Ledger
  <2> QED BY <2>2, <2>3, <2>4, <2>5, <2>6
<1>2. ASSUME Calling(c, "preflight_resumed"), Survey(c, journal, <<>>)
      PROVE  Outcome(c)
  <2>1. /\ controller[c].todo # <<>> /\ controller[c].at = "call"
        /\ Current(c).op = "preflight_resumed"
        /\ ~overlapped => journal.finalState # "FROZEN"
    BY <1>2, CallingFacts
  <2> QED BY <1>0, <1>2, <2>1, SurveyOutcome DEF Surveys
<1>3. ASSUME At(c, "survey"), Survey(c, controller[c].base, controller[c].seen)
      PROVE  Outcome(c)
  <2>1. PICK l, seen : l = controller[c].base /\ seen = controller[c].seen
    OBVIOUS
  <2>2. controller[c].todo # <<>> /\ controller[c].at = "survey"
    BY <1>3 DEF At
  <2>3. /\ l \in Ledger /\ seen \in Seq(Value) /\ Current(c).op \in Surveys
        /\ Len(seen) < Len(Kinds) /\ Conflicts(seen) = {}
        /\ controller[c].behind = 0 => l = journal
    BY <2>1, <2>2 DEF CoreInv, PublicationTypeOK, Worker, OrderInv, Ordered, LedgerInv, Follows, Current
  <2>a. HonestInv => /\ \A s \in Step : Committed(l, s) => Sound(s)
                     /\ \A s \in Step \cap DOMAIN seen : seen[s] = "SAME" => Sound(s)
    BY <2>1 DEF HonestInv, Honest
  <2>b. /\ \A s \in Elsewhere \cap DOMAIN seen : seen[s] = "SAME" => s \in Claims(controller[c])
        /\ BatchInv /\ Sure(c) =>
             /\ Draft \in DOMAIN seen => Clean
             /\ \A s \in Elsewhere \cap DOMAIN seen : seen[s] = "SAME" => Placed(s)
    <3>1. \A s \in Elsewhere \cap DOMAIN seen : seen[s] = "SAME" => s \in Claims(controller[c])
      BY <2>1, <2>2 DEF Claims
    <3> QED BY <2>1, <2>2, <3>1 DEF BatchInv, Batched, InPlace
  <2>4. ~overlapped => journal.finalState # "FROZEN"
    BY <2>2 DEF CoreInv, ApartInv, Minds
  <2>5. Survey(c, l, seen)
    BY <1>3, <2>1
  <2> QED BY <2>2, <2>3, <2>4, <2>5, <2>a, <2>b, SurveyOutcome
<1> QED BY <1>1, <1>2, <1>3 DEF PreflightAll

LEMMA BeginOutcome ==
  ASSUME CoreInv, NEW c \in Controller, BeginExternal(c)
  PROVE  Outcome(c) /\ OnRecord
<1>1. ASSUME Calling(c, "begin"),
             IF journal.finalState = "FROZEN" THEN Stop(c)
             ELSE IF Started(journal) # {} THEN Resolve(c, "begin_resumed") ELSE CheckStep(c)
      PROVE  Outcome(c)
  <2>1. controller[c].todo # <<>> /\ controller[c].at = "call" /\ Current(c).op = "begin"
    BY <1>1, CallingFacts
  <2> QED BY <1>1, <2>1, StopOutcome, ResolveOutcome, CheckStepOutcome DEF Begins
<1>2. ASSUME Calling(c, "begin_resumed"), CheckStep(c)
      PROVE  Outcome(c)
  BY <1>2, CallingFacts, CheckStepOutcome DEF Begins
<1> QED BY <1>1, <1>2 DEF BeginExternal

LEMMA ReconcileOutcome ==
  ASSUME CoreInv, NEW c \in Controller, ReconcileExternal(c)
  PROVE  Outcome(c) /\ OnRecord
<1>1. controller[c].todo # <<>> /\ controller[c].at = "call" /\ Current(c).op = "reconcile"
  BY CallingFacts DEF ReconcileExternal
<1>2. PICK s : s = Current(c).step
  OBVIOUS
<1>3. s \in Step /\ journal \in Ledger
  BY <1>1, <1>2, CurrentFacts DEF CoreInv, PublicationTypeOK
<1>4. \/ Stop(c)
      \/ journal.finalState # "FROZEN" /\ GoOn(c, Rest(c))
      \/ /\ journal.finalState # "FROZEN"
         /\ \E page \in Pages(c, s) : \E observation \in Look(page, s) :
              Propose(c, ApplyReadback(journal, s, controller[c].response, observation),
                      IF observation = "SAME" THEN Rest(c) ELSE <<>>, page)
  BY <1>2 DEF ReconcileExternal
<1>5. ASSUME journal.finalState # "FROZEN", NEW page \in Pages(c, s),
             NEW observation \in Look(page, s),
             Propose(c, ApplyReadback(journal, s, controller[c].response, observation),
                     IF observation = "SAME" THEN Rest(c) ELSE <<>>, page)
      PROVE  Outcome(c)
  <2>1. PICK l, calls, rest :
          /\ l = ApplyReadback(journal, s, controller[c].response, observation)
          /\ calls = IF observation = "SAME" THEN Rest(c) ELSE <<>>
          /\ rest = IF l.finalState = "FROZEN" THEN <<>> ELSE calls
    OBVIOUS
  <2>2. page \in Reading
    BY <1>3, LookFacts
  <2>3. Lasts(journal, l) /\ l \in Ledger
    BY <1>3, <2>1, ReadbackFacts, FromLasts
  <2>a. HonestInv => /\ \A t \in Step : Committed(l, t) => Sound(t)
                     /\ ReadingOK(page)
    <3>1. \A t \in Step : Committed(l, t) => Committed(journal, t) \/ (t = s /\ observation = "SAME")
      BY <1>3, <2>1, ReadbackFacts
    <3> QED BY <1>3, <3>1, LookIsHonest DEF HonestInv
  <2>b. ~Publishing(rest)
    <3>1. Current(c).op \notin Begins
      BY <1>1 DEF Begins
    <3> QED BY <1>1, <2>1, <3>1, CurrentFacts DEF Publishing, Sends
  <2>c. /\ \A t \in Elsewhere : Committed(l, t) => Committed(journal, t) \/ Placed(t)
        /\ BatchInv /\ Sure(c) => PageClean(page)
    <3>1. \A t \in Step : Committed(l, t) => Committed(journal, t) \/ (t = s /\ observation = "SAME")
      BY <1>3, <2>1, ReadbackFacts
    <3>2. /\ s \in Elsewhere /\ observation = "SAME" => Placed(s)
          /\ BatchInv /\ Sure(c) => PageClean(page)
      BY <1>3, LookIsBatch
    <3> QED BY <3>1, <3>2 DEF Elsewhere
  <2>4. ProposeOK(c, l, rest, page)
    BY <1>1, <1>5, <2>1, <2>2, <2>3, <2>a, <2>b, <2>c
       DEF ProposeOK, Begins, Sends, Surveys
  <2>5. Propose(c, l, calls, page)
    BY <1>5, <2>1
  <2> QED BY <2>1, <2>4, <2>5, ProposeOutcome
<1>6. journal.finalState # "FROZEN" /\ GoOn(c, Rest(c)) => Outcome(c)
  BY <1>1, RestOutcome DEF Begins, Surveys
<1> QED BY <1>1, <1>4, <1>5, <1>6, StopOutcome DEF ReconcileExternal

LEMMA FinalizeOutcome ==
  ASSUME CoreInv, NEW c \in Controller, BeginFinalize(c)
  PROVE  Outcome(c) /\ OnRecord
<1>1. controller[c].todo # <<>> /\ Current(c).op = "finalize"
  BY CallingFacts DEF BeginFinalize
<1> QED BY <1>1, StopOutcome, RestOutcome DEF BeginFinalize, Begins, Surveys

LEMMA CompleteOutcome ==
  ASSUME CoreInv, NEW c \in Controller, Complete(c)
  PROVE  Outcome(c) /\ OnRecord
<1>1. /\ controller[c].todo # <<>> /\ controller[c].at = "call" /\ Current(c).op = "complete"
      /\ ~overlapped => journal.finalState # "FROZEN"
  BY CallingFacts DEF Complete
<1>2. ASSUME \A s \in Step : Committed(journal, s),
             Propose(c, [journal EXCEPT !.finalState = "COMPLETE"], <<>>, <<>>)
      PROVE  Outcome(c)
  <2>1. PICK l : l = [journal EXCEPT !.finalState = "COMPLETE"]
    OBVIOUS
  <2>2. journal \in Ledger /\ l \in Ledger /\ l.finalState = "COMPLETE"
    BY <2>1 DEF CoreInv, PublicationTypeOK, Ledger
  <2>3. journal.finalState # "FROZEN"
    BY <1>2 DEF CoreInv, LedgerInv, ValidateLedger, Committed
  <2>4. <<>> \in Reading
    BY DEF Reading
  <2>a. \A s \in Step : Committed(l, s) => Committed(journal, s)
    BY <1>2
  <2>5. ProposeOK(c, l, <<>>, <<>>)
    BY <1>1, <1>2, <2>1, <2>2, <2>3, <2>4, <2>a
       DEF ProposeOK, Sends, Begins, Surveys, Lasts, HonestInv, ReadingOK, Publishing, PageClean,
           Elsewhere
  <2> QED BY <1>2, <2>1, <2>5, ProposeOutcome
<1> QED BY <1>1, <1>2, StopOutcome DEF Complete

-----------------------------------------------------------------------------
(* The other steps keep the core.                                             *)

LEMMA StartKeepsCore ==
  ASSUME CoreInv, NEW c \in Controller, Start(c), UNCHANGED bounds
  PROVE  CoreInv'
<1>1. PICK t \in Commands : GoOn(c, t)
  BY DEF Start
<1>2. /\ t \in Calls /\ t # <<>> /\ Tied(t) /\ Armed(t)
      /\ Head(t).op \in {"resume", "preflight", "finalize"}
  BY CommandsAreOrdered
<1>3. controller[c].page \in Reading /\ controller \in [Controller -> Worker]
  BY DEF CoreInv, PublicationTypeOK, Worker
<1>4. PICK v : v = Going(t, controller[c].page)
  OBVIOUS
<1>5. v \in Worker /\ Ordered(v) /\ v.at = "call" /\ v.todo = t /\ v.behind = 0
  BY <1>2, <1>3, <1>4, GoingFacts
<1>6. /\ controller' \in [Controller -> Worker] /\ controller'[c] = v
      /\ \A d \in Controller \ {c} : controller'[d] = controller[d]
  BY <1>1, <1>3, <1>4, <1>5 DEF GoOn
<1>7. PublicationTypeOK'
  <2>1. tampered' \subseteq Controller /\ overlapped' \in BOOLEAN
    BY <1>1 DEF Start, GoOn, CoreInv, PublicationTypeOK
  <2> QED BY <1>6, <2>1 DEF Start, remoteVars, CoreInv, PublicationTypeOK
<1>8. OrderInv'
  <2> SUFFICES ASSUME NEW d \in Controller PROVE Ordered(controller'[d])
    BY DEF OrderInv
  <2> QED BY <1>5, <1>6 DEF CoreInv, OrderInv
<1>9. LedgerInv'
  <2>1. ASSUME NEW d \in Controller PROVE Follows(controller[d])'
    <3>1. Follows(controller'[d])
      BY <1>5, <1>6 DEF CoreInv, LedgerInv, Follows
    <3> QED BY <3>1 DEF Follows, Start
  <2> QED BY <2>1 DEF CoreInv, LedgerInv, Start
<1>10. ApartInv'
  <2> SUFFICES ASSUME ~overlapped', NEW d \in Controller, controller'[d].todo # <<>>
               PROVE  /\ Minds(controller[d])'
                      /\ \A e \in Controller \ {d} : controller'[e].todo = <<>>
    BY DEF ApartInv
  <2>1. \A e \in Controller \ {c} : controller[e].todo = <<>>
    BY DEF Start
  <2>2. d = c
    BY <1>6, <2>1
  <2>3. Minds(controller[d])'
    BY <1>2, <1>5, <1>6, <2>2 DEF Minds, Sends
  <2> QED BY <1>6, <2>1, <2>2, <2>3
<1> QED BY <1>7, <1>8, <1>9, <1>10 DEF CoreInv

LEMMA AppendKeepsCore ==
  ASSUME CoreInv, NEW c \in Controller, At(c, "append"), ValidateLedger(controller[c].base),
         controller[c].behind = 0, Appended(c, controller[c].base),
         UNCHANGED <<remote, inflight, meddling, overlapped, bounds>>
  PROVE  CoreInv'
<1>1. PICK l, w, v : l = controller[c].base /\ w = controller[c] /\ v = Going(Rest(c), w.page)
  OBVIOUS
<1>2. w.todo # <<>> /\ w.at = "append" /\ w \in Worker /\ l \in Ledger /\ Ordered(w)
      /\ controller \in [Controller -> Worker]
  BY <1>1 DEF At, CoreInv, PublicationTypeOK, OrderInv, Worker
<1>3. /\ Rest(c) \in Calls /\ Tied(Rest(c)) /\ Armed(Rest(c)) /\ Rest(c) = Tail(w.todo)
      /\ w.page \in Reading
  BY <1>1, <1>2, CurrentFacts DEF Worker
<1>4. v \in Worker /\ Ordered(v) /\ v.at = "call" /\ v.todo = Rest(c) /\ v.behind = 0
  BY <1>1, <1>3, GoingFacts
<1>5. journal' = l /\ sent' = FALSE /\ controller'[c] = v /\ DOMAIN controller' = Controller
  BY <1>1 DEF Appended
<1>6. ASSUME NEW d \in Controller \ {c}
      PROVE  /\ controller'[d] \in Worker /\ Ordered(controller'[d])
             /\ controller'[d].todo = controller[d].todo
             /\ controller'[d].behind = 0 => controller'[d].at = "call"
  <2>1. controller[d] \in Worker /\ Ordered(controller[d])
    BY DEF CoreInv, PublicationTypeOK, OrderInv
  <2>2. CASE controller[d].at = "call" \/ controller[d].behind = 2
    <3>1. controller'[d] = controller[d]
      BY <2>2 DEF Appended
    <3> QED BY <2>1, <2>2, <3>1
  <2>3. CASE ~(controller[d].at = "call" \/ controller[d].behind = 2)
    <3>1. controller'[d] = [controller[d] EXCEPT !.behind = controller[d].behind + 1]
      BY <2>3 DEF Appended
    <3>2. controller[d].behind + 1 \in 0..2 /\ controller[d].behind + 1 # 0
      BY <2>1, <2>3 DEF Worker
    <3>3. PICK u : u = controller'[d]
      OBVIOUS
    <3>4. /\ u \in Worker /\ u.behind # 0 /\ u.at = controller[d].at /\ u.todo = controller[d].todo
          /\ u.page = controller[d].page /\ u.seen = controller[d].seen /\ u.base = controller[d].base
      BY <2>1, <3>1, <3>2, <3>3 DEF Worker
    <3>5. Ordered(u)
      BY <2>1, <2>3, <3>4 DEF Ordered
    <3> QED BY <3>3, <3>4, <3>5
  <2> QED BY <2>2, <2>3
<1>7. PublicationTypeOK'
  <2>1. controller' \in [Controller -> Worker]
    <3>1. \A d \in Controller : controller'[d] \in Worker
      BY <1>4, <1>5, <1>6
    <3>2. controller' = [d \in Controller |-> controller'[d]]
      BY DEF Appended
    <3> QED BY <3>1, <3>2
  <2>2. tampered' \subseteq Controller
    BY DEF Appended, CoreInv, PublicationTypeOK
  <2> QED BY <1>2, <1>5, <2>1, <2>2 DEF CoreInv, PublicationTypeOK
<1>8. OrderInv'
  <2> SUFFICES ASSUME NEW d \in Controller PROVE Ordered(controller'[d])
    BY DEF OrderInv
  <2> QED BY <1>4, <1>5, <1>6
<1>9. LedgerInv'
  <2>1. ASSUME NEW d \in Controller PROVE Follows(controller[d])'
    <3>1. controller'[d].behind = 0 => controller'[d].at = "call"
      BY <1>4, <1>5, <1>6
    <3> QED BY <3>1 DEF Follows
  <2>2. ValidateLedger(journal)'
    BY <1>1, <1>5
  <2> QED BY <2>1, <2>2 DEF LedgerInv
<1>10. ApartInv'
  <2> SUFFICES ASSUME ~overlapped, NEW d \in Controller, controller'[d].todo # <<>>
               PROVE  /\ Minds(controller[d])'
                      /\ \A e \in Controller \ {d} : controller'[e].todo = <<>>
    BY DEF ApartInv
  <2>1. /\ \A e \in Controller \ {c} : controller[e].todo = <<>>
        /\ Minds(w)
    BY <1>1, <1>2 DEF CoreInv, ApartInv
  <2>2. d = c
    BY <1>6, <2>1
  <2>3. v.todo # <<>> /\ Tail(w.todo) = v.todo
    BY <1>3, <1>4, <1>5, <2>2
  <2>4. l.finalState # "FROZEN"
    BY <1>1, <1>2, <2>3 DEF Ordered
  <2>5. Head(v.todo).op \in Sends => l.steps[Head(v.todo).step].state = "REQUEST_STARTED"
    BY <1>1, <1>2, <2>1, <2>3 DEF Minds
  <2>6. Minds(controller[d])'
    BY <1>4, <1>5, <2>2, <2>4, <2>5 DEF Minds
  <2> QED BY <1>6, <2>1, <2>2, <2>6
<1> QED BY <1>7, <1>8, <1>9, <1>10 DEF CoreInv

\* An append that fails, or finds its snapshot there already.
LEMMA PersistOutcome ==
  ASSUME CoreInv, NEW c \in Controller, controller[c].todo # <<>>, controller[c].at = "append",
         \/ Stop(c)
         \/ controller[c].behind = 1 /\ journal = controller[c].base /\ GoOn(c, Rest(c))
  PROVE  Outcome(c)
<1>1. ASSUME controller[c].behind = 1, journal = controller[c].base, GoOn(c, Rest(c))
      PROVE  Outcome(c)
  <2>1. overlapped
    BY <1>1 DEF CoreInv, ApartInv, Minds
  <2>2. HonestInv /\ meddling = 0 /\ Publishing(Rest(c)) => Fitted
    BY CurrentFacts DEF HonestInv, Honest
  <2>3. ASSUME BatchInv, Sure(c), Rest(c) # <<>>, Head(Rest(c)).op = "complete" PROVE Ready(c)
    <3>1. Current(c).op \in Surveys /\ Current(c) = Head(controller[c].todo)
      BY <2>3, CurrentFacts
    <3>2. Clean /\ InPlace(Claims(controller[c])) /\ InPlace(Coming(c) \ Recorded)
      BY <1>1, <2>3, <3>1 DEF BatchInv, Batched
    <3>3. Recorded = Claims(controller[c])
      BY <1>1 DEF Recorded, Claims
    <3> QED BY <3>2, <3>3 DEF Ready, InPlace
  <2>4. MoveOK(c, Rest(c))
    BY <2>1, <2>2, <2>3, CurrentFacts, FinalizingFacts DEF MoveOK
  <2> QED BY <1>1, <2>4 DEF Outcome
<1> QED BY <1>1, StopOutcome

LEMMA PersistKeepsCore ==
  ASSUME CoreInv, NEW c \in Controller, Persist(c), UNCHANGED bounds
  PROVE  CoreInv'
<1>1. controller[c].todo # <<>> /\ controller[c].at = "append"
  BY DEF Persist, At
<1>2. CASE ValidateLedger(controller[c].base) /\ controller[c].behind = 0
  BY <1>2, AppendKeepsCore DEF Persist
<1>3. CASE ~(ValidateLedger(controller[c].base) /\ controller[c].behind = 0)
  <2>1. OnRecord
    BY <1>3 DEF Persist, OnRecord, remoteVars
  <2>2. Outcome(c)
    BY <1>1, <1>3, PersistOutcome DEF Persist
  <2> QED BY <2>1, <2>2, OutcomeKeepsCore
<1> QED BY <1>2, <1>3

LEMMA EffectFacts ==
  ASSUME PublicationTypeOK, NEW s \in Step, NEW value \in Effect(s)
  PROVE  /\ value \in Value /\ (s = Publish => value \in {"ABSENT", "SAME"})
         /\ remote[s] \in Value
<1>1. remote[s] \in Value /\ remote[Publish] \in {"ABSENT", "SAME"}
  BY DEF PublicationTypeOK
<1>2. /\ s = Publish => Kinds[s] = "publish"
      /\ s = Draft => Kinds[s] = "draft"
      /\ Kinds[s] = "draft" => s = Draft
      /\ Kinds[s] = "publish" => s = Publish
  BY Steps DEF Of
<1>3. Kinds[s] \in {"registry", "attestation", "tag", "draft", "asset", "publish"}
  <2>1. Kinds[s] \in {"registry", "attestation", "tag"} \cup Release
    BY PublicationAssumption DEF Step
  <2> QED BY <2>1 DEF Release
<1>4. CASE Kinds[s] = "registry"
  <2>1. value = "SAME"
    BY <1>2, <1>4 DEF Effect, Of
  <2> QED BY <1>1, <1>2, <1>4, <2>1 DEF Value
<1>5. CASE Kinds[s] \in {"attestation", "tag"}
  <2>1. value \in {"SAME", remote[s]}
    BY <1>2, <1>5 DEF Effect, Of
  <2> QED BY <1>1, <1>2, <1>5, <2>1 DEF Value
<1>6. CASE s = Draft
  <2>1. value \in {"SAME", "UNKNOWN", remote[s]}
    BY <1>2, <1>6 DEF Effect, Of
  <2> QED BY <1>1, <1>2, <1>6, <2>1 DEF Value
<1>7. CASE Kinds[s] = "asset"
  <2>1. value \in {"SAME", "UNKNOWN", remote[s]}
    BY <1>2, <1>7 DEF Effect, Of
  <2> QED BY <1>1, <1>2, <1>7, <2>1 DEF Value
<1>8. CASE s = Publish
  <2>1. value \in {"SAME", remote[s]}
    BY <1>2, <1>8 DEF Effect, Of
  <2> QED BY <1>1, <1>2, <1>8, <2>1 DEF Value
<1> QED BY <1>2, <1>3, <1>4, <1>5, <1>6, <1>7, <1>8

LEMMA RequestFacts ==
  ASSUME PublicationTypeOK, NEW s \in Step, Request(s) \/ UNCHANGED remoteVars
  PROVE  /\ remote' \in [Step -> Value] /\ remote'[Publish] \in {"ABSENT", "SAME"}
         /\ inflight' \subseteq Step /\ sent' \in BOOLEAN
<1>1. CASE UNCHANGED remoteVars
  BY <1>1 DEF PublicationTypeOK, remoteVars
<1>2. CASE Request(s)
  <2>1. inflight' \subseteq Step /\ sent' \in BOOLEAN
    BY <1>2 DEF Request, PublicationTypeOK
  <2>2. CASE UNCHANGED remote
    BY <2>1, <2>2 DEF PublicationTypeOK
  <2>3. CASE \E value \in Effect(s) : remote' = [remote EXCEPT ![s] = value]
    BY <2>1, <2>3, EffectFacts DEF PublicationTypeOK
  <2> QED BY <1>2, <2>2, <2>3 DEF Request
<1> QED BY <1>1, <1>2

\* The command that has sent a request.
LEMMA AnsweredFacts ==
  ASSUME CoreInv, NEW c \in Controller, controller[c].todo # <<>>, controller[c].at = "call",
         Current(c).op \in Sends, NEW response \in {"none", "TERMINAL"},
         NEW v, v = [Going(Rest(c), <<>>) EXCEPT !.response = response]
  PROVE  /\ v \in Worker /\ Ordered(v) /\ v.at = "call" /\ v.todo = Rest(c) /\ v.behind = 0
         /\ v.todo # <<>> /\ Head(v.todo).op = "reconcile" /\ v.page = <<>>
         /\ v.seen = <<>> /\ v.base = Initial
<1>1. PICK u : u = Going(Rest(c), <<>>)
  OBVIOUS
<1>2. /\ Rest(c) \in Calls /\ Tied(Rest(c)) /\ Armed(Rest(c)) /\ <<>> \in Reading
      /\ Rest(c) # <<>> /\ Head(Rest(c)).op = "reconcile"
  <2>1. /\ controller[c].todo \in Calls /\ Tied(controller[c].todo)
        /\ Head(controller[c].todo) = Current(c) /\ Rest(c) = Tail(controller[c].todo)
        /\ Rest(c) \in Calls /\ Tied(Rest(c)) /\ Armed(Rest(c))
    BY CurrentFacts
  <2>2. Rest(c) # <<>> /\ Head(Rest(c)).op = "reconcile"
    BY <2>1, RestIsOrdered
  <2> QED BY <2>1, <2>2 DEF Reading
<1>3. /\ u \in Worker /\ Ordered(u) /\ u.at = "call" /\ u.todo = Rest(c) /\ u.behind = 0
      /\ u.base = Initial /\ u.seen = <<>> /\ u.page = <<>>
  <2>1. u.page = IF Rest(c) = <<>> THEN <<>> ELSE <<>>
    BY <1>1, <1>2, GoingFacts
  <2> QED BY <1>1, <1>2, <2>1, GoingFacts
<1>4. v = [u EXCEPT !.response = response]
  BY <1>1
<1>5. /\ v \in Worker /\ v.at = u.at /\ v.todo = u.todo /\ v.behind = u.behind
      /\ v.base = u.base /\ v.seen = u.seen /\ v.page = u.page
  BY <1>3, <1>4 DEF Worker
<1>6. Ordered(v)
  BY <1>3, <1>5 DEF Ordered
<1> QED BY <1>2, <1>3, <1>5, <1>6

LEMMA AnswerKeepsCore ==
  ASSUME CoreInv, NEW c \in Controller, controller[c].todo # <<>>, controller[c].at = "call",
         Current(c).op \in Sends, NEW response, Answered(c, response) \/ Stop(c),
         Request(Current(c).step) \/ UNCHANGED remoteVars,
         UNCHANGED <<journal, meddling, overlapped, bounds>>
  PROVE  CoreInv'
<1>1. Current(c).step \in Step /\ PublicationTypeOK
  BY CurrentFacts DEF CoreInv
<1>2. /\ remote' \in [Step -> Value] /\ remote'[Publish] \in {"ABSENT", "SAME"}
      /\ inflight' \subseteq Step /\ sent' \in BOOLEAN
  BY <1>1, RequestFacts
<1>3. tampered' \subseteq Controller
  BY <1>1 DEF Answered, Stop, GoOn, PublicationTypeOK
<1>4. ~overlapped => journal'.finalState # "FROZEN"
  BY DEF CoreInv, ApartInv, Minds, Current, Sends
<1>5. PICK v : /\ controller' = [controller EXCEPT ![c] = v] /\ v \in Worker /\ Ordered(v)
               /\ v.at = "call" /\ v.behind = 0
               /\ v.todo # <<>> => Head(v.todo).op = "reconcile"
  <2>1. CASE Answered(c, response)
    <3>0. PICK answer : answer = (IF response = "TERMINAL" THEN response ELSE "none")
      OBVIOUS
    <3>1. PICK u : u = [Going(Rest(c), <<>>) EXCEPT !.response = answer]
      OBVIOUS
    <3>a. answer \in {"none", "TERMINAL"}
      BY <3>0
    <3>2. controller' = [controller EXCEPT ![c] = u]
      BY <2>1, <3>0, <3>1 DEF Answered
    <3>3. u \in Worker /\ Ordered(u)
      BY <3>1, <3>a, AnsweredFacts
    <3>4. u.at = "call" /\ u.behind = 0
      BY <3>1, <3>a, AnsweredFacts
    <3>5. Head(u.todo).op = "reconcile"
      BY <3>1, <3>a, AnsweredFacts
    <3> QED BY <3>2, <3>3, <3>4, <3>5, Zenon
  <2>2. CASE Stop(c)
    <3>1. controller' = [controller EXCEPT ![c] = Idle]
      BY <1>1, <2>2 DEF Stop, GoOn, Going, PublicationTypeOK
    <3>2. /\ Idle \in Worker /\ Ordered(Idle) /\ Idle.at = "call" /\ Idle.behind = 0
          /\ Idle.todo # <<>> => Head(Idle.todo).op = "reconcile"
      BY IdleIsWorker DEF Idle
    <3> QED BY <3>1, <3>2, Zenon
  <2> QED BY <2>1, <2>2
<1>6. Follows(v)
  BY <1>5 DEF Follows
<1>7. ~overlapped /\ v.todo # <<>> => Minds(v)'
  BY <1>4, <1>5 DEF Minds, Sends
<1> QED BY <1>2, <1>3, <1>5, <1>6, <1>7, Replace

LEMMA MutateKeepsCore ==
  ASSUME CoreInv, NEW c \in Controller, Mutate(c), UNCHANGED bounds
  PROVE  CoreInv'
<1>1. controller[c].todo # <<>> /\ controller[c].at = "call" /\ Current(c).op \in Sends
  BY CallingFacts DEF Mutate, Sends
<1>2. /\ \E response : Answered(c, response)
      /\ Request(Current(c).step) \/ UNCHANGED remoteVars
      /\ UNCHANGED <<journal, meddling, overlapped, bounds>>
  BY DEF Mutate
<1> QED BY <1>1, <1>2, AnswerKeepsCore

LEMMA ActKeepsCore ==
  ASSUME CoreInv, NEW c \in Controller, Act(c), UNCHANGED bounds
  PROVE  CoreInv'
<1>1. controller[c].todo # <<>> /\ controller[c].at = "call" /\ Current(c).op \in Sends
  BY CallingFacts DEF Act, Sends
<1> QED BY <1>1, AnswerKeepsCore DEF Act

\* Steps of the remote side leave the commands and the ledger alone.
LEMMA RemoteKeepsCore ==
  ASSUME CoreInv, UNCHANGED <<sent, journal, controller, bounds, overlapped>>,
         remote' \in [Step -> Value], remote'[Publish] \in {"ABSENT", "SAME"},
         inflight' \subseteq Step, tampered' \subseteq Controller, meddling' \in Nat
  PROVE  CoreInv'
<1>1. PublicationTypeOK' /\ OrderInv'
  BY DEF CoreInv, PublicationTypeOK, OrderInv
<1>2. LedgerInv' /\ ApartInv'
  BY DEF CoreInv, LedgerInv, Follows, ApartInv, Minds
<1> QED BY <1>1, <1>2 DEF CoreInv

LEMMA LandKeepsCore ==
  ASSUME CoreInv, NEW s \in Step, Land(s), UNCHANGED bounds
  PROVE  CoreInv'
<1>1. PublicationTypeOK
  BY DEF CoreInv
<1>2. PICK value \in Effect(s) : remote' = [remote EXCEPT ![s] = value]
  BY DEF Land
<1>3. value \in Value /\ (s = Publish => value \in {"ABSENT", "SAME"})
  BY <1>1, EffectFacts
<1>4. remote' \in [Step -> Value] /\ remote'[Publish] \in {"ABSENT", "SAME"}
  BY <1>1, <1>2, <1>3, Steps DEF PublicationTypeOK
<1> QED BY <1>1, <1>4, RemoteKeepsCore DEF Land, PublicationTypeOK

LEMMA MeddleKeepsCore ==
  ASSUME CoreInv, NEW s \in Step, Meddle(s), UNCHANGED bounds
  PROVE  CoreInv'
<1>1. PublicationTypeOK
  BY DEF CoreInv
<1>2. remote' \in [Step -> Value] /\ remote'[Publish] \in {"ABSENT", "SAME"}
  <2>1. s # Publish /\ Publish \notin Of({"asset"})
    BY Steps DEF Meddle, Of
  <2>2. CASE remote' = [remote EXCEPT ![s] = "DIFFERENT"]
    BY <1>1, <2>1, <2>2, Steps DEF PublicationTypeOK, Value
  <2>3. CASE remote' = [t \in Step |-> IF t = s \/ (s = Draft /\ t \in Of({"asset"})) THEN "ABSENT"
                                     ELSE remote[t]]
    BY <1>1, <2>1, <2>3, Steps DEF PublicationTypeOK, Value
  <2> QED BY <2>2, <2>3 DEF Meddle
<1>3. tampered' \subseteq Controller /\ meddling' \in Nat
  BY <1>1 DEF Meddle, PublicationTypeOK
<1> QED BY <1>1, <1>2, <1>3, RemoteKeepsCore DEF Meddle, PublicationTypeOK

LEMMA InitCore == Init => CoreInv
<1> SUFFICES ASSUME Init PROVE CoreInv
  OBVIOUS
<1>1. PublicationTypeOK
  BY InitialLedger, IdleIsWorker, Steps DEF Init, PublicationTypeOK, Value
<1>2. \A c \in Controller : controller[c] = Idle
  BY DEF Init
<1>3. OrderInv
  BY <1>2, IdleIsWorker DEF OrderInv
<1>4. LedgerInv
  BY <1>2, InitialLedger DEF Init, LedgerInv, Follows, Idle
<1>5. ApartInv
  BY <1>2 DEF ApartInv, Idle
<1> QED BY <1>1, <1>3, <1>4, <1>5 DEF CoreInv

LEMMA CoreStep == CoreInv /\ [Next]_vars => CoreInv'
<1> SUFFICES ASSUME CoreInv, [Next]_vars PROVE CoreInv'
  OBVIOUS
<1>1. CASE UNCHANGED vars
  BY <1>1 DEF vars, CoreInv, PublicationTypeOK, OrderInv, LedgerInv, Follows, ApartInv, Minds
<1>2. ASSUME UNCHANGED bounds, NEW c \in Controller,
             \/ Start(c) \/ Die(c) \/ ResumePending(c) \/ PreflightAll(c) \/ BeginExternal(c)
             \/ ReconcileExternal(c) \/ BeginFinalize(c) \/ Complete(c) \/ Persist(c)
             \/ Mutate(c) \/ Act(c)
      PROVE  CoreInv'
  <2>1. CASE Start(c)
    BY <1>2, <2>1, StartKeepsCore
  <2>2. CASE Die(c)
    BY <1>2, <2>2, DieOutcome, OutcomeKeepsCore
  <2>3. CASE ResumePending(c)
    BY <1>2, <2>3, ResumeOutcome, OutcomeKeepsCore
  <2>4. CASE PreflightAll(c)
    BY <1>2, <2>4, PreflightOutcome, OutcomeKeepsCore
  <2>5. CASE BeginExternal(c)
    BY <1>2, <2>5, BeginOutcome, OutcomeKeepsCore
  <2>6. CASE ReconcileExternal(c)
    BY <1>2, <2>6, ReconcileOutcome, OutcomeKeepsCore
  <2>7. CASE BeginFinalize(c)
    BY <1>2, <2>7, FinalizeOutcome, OutcomeKeepsCore
  <2>8. CASE Complete(c)
    BY <1>2, <2>8, CompleteOutcome, OutcomeKeepsCore
  <2>9. CASE Persist(c)
    BY <1>2, <2>9, PersistKeepsCore
  <2>10. CASE Mutate(c)
    BY <1>2, <2>10, MutateKeepsCore
  <2>11. CASE Act(c)
    BY <1>2, <2>11, ActKeepsCore
  <2> QED BY <1>2, <2>1, <2>2, <2>3, <2>4, <2>5, <2>6, <2>7, <2>8, <2>9, <2>10, <2>11
<1>3. ASSUME UNCHANGED bounds, NEW s \in Step, Land(s) \/ Meddle(s)
      PROVE  CoreInv'
  BY <1>3, LandKeepsCore, MeddleKeepsCore
<1> QED BY <1>1, <1>2, <1>3 DEF Next

LEMMA CoreHolds == PublicationSpec => []CoreInv
BY InitCore, CoreStep, PTL DEF PublicationSpec

-----------------------------------------------------------------------------
(* Every variable keeps its type.                                             *)
THEOREM PublicationTypes == PublicationSpec => []PublicationTypeOK
<1>1. CoreInv => PublicationTypeOK
  BY DEF CoreInv
<1> QED BY <1>1, CoreHolds, PTL

(* A request goes out only for an attempt that is open on the ledger, and     *)
(* once, through crashes and lost answers, while commands are kept apart.     *)
THEOREM RequestsAreOnRecord == PublicationSpec => []RequestsOnRecord
<1>1. CoreInv => RequestsOnRecord
  <2> SUFFICES ASSUME CoreInv, ~overlapped, NEW c \in Controller,
                      Calling(c, "send") \/ Calling(c, "act")
               PROVE  journal.steps[Current(c).step].state = "REQUEST_STARTED" /\ ~sent
    BY DEF RequestsOnRecord
  <2> QED BY DEF CoreInv, ApartInv, Minds, Calling, At, Current, Sends
<1> QED BY <1>1, CoreHolds, PTL

(* Nobody lifts a freeze, not even a job that read the ledger before it, and, *)
(* with commands kept apart, nothing is sent any more.                        *)
THEOREM FreezesHold == PublicationSpec => FreezeHolds
<1>1. ASSUME CoreInv, Next, journal.finalState = "FROZEN"
      PROVE  /\ journal'.finalState = "FROZEN"
             /\ ~overlapped => UNCHANGED <<journal, sent>>
  <2>1. ASSUME NEW c \in Controller, Persist(c), controller[c].behind = 0,
               ValidateLedger(controller[c].base), Appended(c, controller[c].base)
        PROVE  journal'.finalState = "FROZEN" /\ overlapped
    BY <1>1, <2>1 DEF At, Persist, Appended, CoreInv, LedgerInv, Follows, Lasts, ApartInv, Minds
  <2>2. ASSUME NEW c \in Controller, Mutate(c) \/ Act(c)
        PROVE  UNCHANGED journal /\ overlapped
    BY <1>1, <2>2, CallingFacts DEF Mutate, Act
  <2>3. \/ UNCHANGED <<journal, sent>>
        \/ \E c \in Controller :
             \/ Mutate(c) \/ Act(c)
             \/ /\ Persist(c) /\ controller[c].behind = 0
                /\ ValidateLedger(controller[c].base) /\ Appended(c, controller[c].base)
    BY <1>1 DEF Next, Start, Die, ResumePending, PreflightAll, BeginExternal, ReconcileExternal,
                BeginFinalize, Complete, Persist, Land, Meddle, OnRecord, remoteVars
  <2> QED BY <1>1, <2>1, <2>2, <2>3
<1>2. CoreInv /\ [Next]_vars =>
        [journal.finalState = "FROZEN" =>
           /\ journal'.finalState = "FROZEN"
           /\ ~overlapped => UNCHANGED <<journal, sent>>]_vars
  BY <1>1 DEF vars
<1> QED BY <1>2, CoreHolds, PTL DEF PublicationSpec, FreezeHolds

-----------------------------------------------------------------------------
(* What lies under the keys changes only in ways that leave claims true.      *)

\* Reading the disjuncts of Effect: a public release is left alone, what lies
\* in its place stays, and only over a draft does the release become public.
LEMMA EffectShape ==
  ASSUME PublicationTypeOK, Public => remote[Draft] # "ABSENT", NEW s \in Step, NEW value \in Effect(s)
  PROVE  /\ s \in Of(Release) /\ Public => value = remote[s]
         /\ s # Draft /\ remote[s] = "SAME" => value = "SAME"
         /\ s = Publish /\ value = "SAME" => remote[Draft] # "ABSENT"
         /\ s = Draft /\ value = "ABSENT" => remote[s] = "ABSENT"
         /\ s = Draft /\ value = "DIFFERENT" => remote[s] = "DIFFERENT"
<1>1. remote[s] \in Value /\ remote[Publish] \in {"ABSENT", "SAME"}
  BY DEF PublicationTypeOK
<1>2. /\ s = Publish => Kinds[s] = "publish"
      /\ s = Draft => Kinds[s] = "draft"
      /\ Kinds[s] = "draft" => s = Draft
      /\ Kinds[s] = "publish" => s = Publish
      /\ s \in Of(Release) <=> Kinds[s] \in {"draft", "asset", "publish"}
  BY Steps DEF Of, Release
<1>3. Kinds[s] \in {"registry", "attestation", "tag", "draft", "asset", "publish"}
  <2>1. Kinds[s] \in {"registry", "attestation", "tag"} \cup Release
    BY PublicationAssumption DEF Step
  <2> QED BY <2>1 DEF Release
<1>4. CASE Kinds[s] = "registry"
  <2>1. value = "SAME"
    BY <1>2, <1>4 DEF Effect, Of
  <2> QED BY <1>1, <1>2, <1>4, <2>1
<1>5. CASE Kinds[s] \in {"attestation", "tag"}
  <2>1. value = IF remote[s] = "ABSENT" THEN "SAME" ELSE remote[s]
    BY <1>2, <1>5 DEF Effect, Of
  <2> QED BY <1>1, <1>2, <1>5, <2>1
<1>6. CASE s = Draft
  <2>1. value = IF Public THEN remote[s] ELSE IF remote[s] = "ABSENT" THEN "SAME" ELSE "UNKNOWN"
    BY <1>2, <1>6 DEF Effect, Of
  <2> QED BY <1>1, <1>2, <1>6, <2>1, Steps
<1>7. CASE Kinds[s] = "asset"
  <2>1. value \in IF Public \/ remote[Draft] = "ABSENT" \/ remote[s] # "ABSENT" THEN {remote[s]}
                  ELSE {"SAME", "UNKNOWN"}
    BY <1>2, <1>7 DEF Effect, Of
  <2> QED BY <1>1, <1>2, <1>7, <2>1
<1>8. CASE s = Publish
  <2>1. value = IF remote[Draft] = "ABSENT" THEN remote[s] ELSE "SAME"
    BY <1>2, <1>8 DEF Effect, Of
  <2> QED BY <1>1, <1>2, <1>8, <2>1, Steps DEF Public
<1> QED BY <1>2, <1>3, <1>4, <1>5, <1>6, <1>7, <1>8

\* The draft a public release stands on, and the steps below it.
Standing ==
  /\ Public => remote[Draft] # "ABSENT"
  /\ meddling = 0 /\ (Publish \in inflight \/ Public) => Fitted

Grown ==
  /\ \A s \in Step : Sound(s) => Sound(s)'
  /\ \A page \in Reading : ReadingOK(page) => ReadingOK(page)'
  /\ meddling' = 0 => meddling = 0 /\ (Fitted => Fitted')
  /\ Standing'

LEMMA SameGrows ==
  ASSUME Standing, UNCHANGED <<remote, inflight, meddling>>
  PROVE  Grown
BY DEF Grown, Standing, Sound, Whole, ReadingOK, Fitted, Placed, Public, Page

LEMMA EffectGrows ==
  ASSUME PublicationTypeOK, Standing, NEW s \in Step, NEW value \in Effect(s),
         remote' = [remote EXCEPT ![s] = value], UNCHANGED meddling,
         inflight' \subseteq inflight \cup {s}, s = Publish /\ meddling = 0 => Fitted
  PROVE  Grown
<1>1. remote \in [Step -> Value] /\ remote[Publish] \in {"ABSENT", "SAME"} /\ Publish \in Step
      /\ Draft \in Step /\ Draft # Publish /\ Of(Release) \subseteq Step
      /\ Draft \in Of(Release) /\ Publish \in Of(Release) /\ Of({"asset"}) \subseteq Of(Release)
      /\ Draft \notin Of({"asset"})
  BY Steps DEF PublicationTypeOK, Of
<1>2. /\ s \in Of(Release) /\ Public => value = remote[s]
      /\ s # Draft /\ remote[s] = "SAME" => value = "SAME"
      /\ s = Publish /\ value = "SAME" => remote[Draft] # "ABSENT"
      /\ s = Draft /\ value = "ABSENT" => remote[s] = "ABSENT"
  BY EffectShape DEF Standing
<1>3. Public => \A t \in Of(Release) : remote'[t] = remote[t]
  BY <1>1, <1>2
<1>4. \A t \in Step \ {Draft} : Placed(t) => Placed(t)'
  BY <1>1, <1>2 DEF Placed
<1>5. Public => Page' = Page /\ Public'
  BY <1>1, <1>3 DEF Page, Public
<1>6. Whole => Whole'
  BY <1>1, <1>3, <1>4, <1>5 DEF Whole
<1>7. \A t \in Step : Sound(t) => Sound(t)'
  BY <1>4, <1>6 DEF Sound
<1>8. ASSUME NEW page \in Reading, ReadingOK(page) PROVE ReadingOK(page)'
  <2>1. page # <<>> /\ page[Publish] = "SAME" => page = Page'
    <3>1. page = Page /\ page[Publish] = "SAME" => Public
      BY <1>1 DEF Page, Public
    <3> QED BY <1>5, <1>8, <3>1 DEF ReadingOK
  <2> QED BY <1>1, <1>4, <1>8, <2>1 DEF ReadingOK
<1>9. Fitted => Fitted'
  BY <1>4 DEF Fitted
<1>10. Standing'
  <2>1. CASE Public
    BY <1>1, <1>3, <1>5, <1>9, <2>1 DEF Standing
  <2>2. CASE ~Public
    <3>1. Public' => s = Publish /\ value = "SAME"
      BY <1>1, <2>2 DEF Public
    <3>2. Public' => remote'[Draft] # "ABSENT"
      BY <1>1, <1>2, <3>1
    <3> QED BY <1>9, <2>2, <3>1, <3>2 DEF Standing
  <2> QED BY <2>1, <2>2
<1> QED BY <1>7, <1>8, <1>9, <1>10 DEF Grown

LEMMA MeddleGrows ==
  ASSUME PublicationTypeOK, Standing, NEW s \in Step, Meddle(s)
  PROVE  Grown
<1>1. /\ remote \in [Step -> Value] /\ Publish \in Step /\ Draft \in Step /\ Draft # Publish
      /\ Of(Release) \subseteq Step /\ Draft \in Of(Release) /\ Publish \in Of(Release)
      /\ Of({"asset"}) \subseteq Of(Release) /\ Publish \notin Of({"asset"})
  BY Steps DEF PublicationTypeOK, Of
<1>2. meddling' # 0
  BY DEF Meddle, PublicationTypeOK
<1>3. \/ remote' = [remote EXCEPT ![s] = "DIFFERENT"]
      \/ remote' = [t \in Step |-> IF t = s \/ (s = Draft /\ t \in Of({"asset"})) THEN "ABSENT"
                                     ELSE remote[t]]
  BY DEF Meddle
<1>4. Public' <=> Public
  BY <1>1, <1>3 DEF Public, Meddle
<1>5. Public => \A t \in Of(Release) : remote'[t] = remote[t]
  BY <1>1, <1>3 DEF Meddle
<1>6. Public => Page' = Page
  BY <1>5 DEF Page
<1>7. Whole => Whole'
  BY <1>1, <1>4, <1>5 DEF Whole, Placed
<1>8. \A t \in Step : Sound(t) => Sound(t)'
  BY <1>2, <1>7 DEF Sound
<1>9. ASSUME NEW page \in Reading, ReadingOK(page) PROVE ReadingOK(page)'
  <2>1. page # <<>> /\ page[Publish] = "SAME" => page = Page'
    <3>1. page = Page /\ page[Publish] = "SAME" => Public
      BY <1>1 DEF Page, Public
    <3> QED BY <1>6, <1>9, <3>1 DEF ReadingOK
  <2> QED BY <1>2, <2>1 DEF ReadingOK
<1>10. Standing'
  BY <1>1, <1>2, <1>4, <1>5 DEF Standing
<1> QED BY <1>2, <1>8, <1>9, <1>10 DEF Grown

LEMMA HonestStays ==
  ASSUME Grown, NEW w \in Worker, Honest(w)
  PROVE  Honest(w)'
<1>1. w.page \in Reading
  BY DEF Worker
<1>2. /\ \A s \in Step : Committed(w.base, s) => Sound(s)'
      /\ \A s \in Step \cap DOMAIN w.seen : w.seen[s] = "SAME" => Sound(s)'
      /\ ReadingOK(w.page)'
  BY <1>1 DEF Honest, Grown
<1>3. meddling' = 0 /\ (Publishing(w.todo) \/ (w.at = "append" /\ Publishing(Tail(w.todo)))) => Fitted'
  BY DEF Honest, Grown
<1> QED BY <1>2, <1>3 DEF Honest

LEMMA ReplaceHonest ==
  ASSUME CoreInv, HonestInv, Grown, NEW c \in Controller, NEW v \in Worker, Honest(v),
         controller' = [controller EXCEPT ![c] = v], UNCHANGED journal
  PROVE  HonestInv'
<1>1. \A s \in Step : Committed(journal', s) => Sound(s)'
  BY DEF HonestInv, Grown
<1>2. ASSUME NEW d \in Controller PROVE Honest(controller[d])'
  <2>1. PICK w : w = controller'[d]
    OBVIOUS
  <2>2. w \in Worker /\ Honest(w)
    BY <2>1 DEF CoreInv, PublicationTypeOK, HonestInv
  <2>3. Honest(w)'
    BY <2>2, HonestStays
  <2> QED BY <2>1, <2>3 DEF Honest
<1> QED BY <1>1, <1>2 DEF HonestInv, Grown, Standing

LEMMA GoingIsHonest ==
  ASSUME NEW t \in Calls, Tied(t), Armed(t), NEW page \in Reading, ReadingOK(page),
         meddling = 0 /\ Publishing(t) => Fitted, NEW v, v = Going(t, page)
  PROVE  Honest(v)
<1>1. /\ v.at = "call" /\ v.todo = t /\ v.base = Initial /\ v.seen = <<>>
      /\ v.page = IF t = <<>> THEN <<>> ELSE page
  BY GoingFacts
<1>2. \A s \in Step : ~Committed(Initial, s)
  BY InitialLedger
<1>3. DOMAIN <<>> = {}
  OBVIOUS
<1> QED BY <1>1, <1>2, <1>3 DEF Honest, ReadingOK

LEMMA OutcomeKeepsHonest ==
  ASSUME CoreInv, HonestInv, NEW c \in Controller, Outcome(c), OnRecord
  PROVE  HonestInv'
<1>1. Grown /\ UNCHANGED journal /\ controller \in [Controller -> Worker]
  <2>1. Standing
    BY DEF HonestInv, Standing
  <2> QED BY <2>1, SameGrows DEF OnRecord, remoteVars, CoreInv, PublicationTypeOK
<1>2. ASSUME NEW t, MoveOK(c, t), GoOn(c, t)
      PROVE  HonestInv'
  <2>1. PICK v : v = Going(t, controller[c].page)
    OBVIOUS
  <2>2. controller[c].page \in Reading /\ ReadingOK(controller[c].page)
    BY DEF CoreInv, PublicationTypeOK, Worker, HonestInv, Honest
  <2>3. v \in Worker /\ Honest(v)
    BY <1>2, <2>1, <2>2, GoingFacts, GoingIsHonest DEF MoveOK
  <2>4. controller' = [controller EXCEPT ![c] = v]
    BY <1>1, <1>2, <2>1 DEF GoOn
  <2> QED BY <1>1, <2>3, <2>4, ReplaceHonest
<1>3. ASSUME NEW l, NEW rest, NEW page, ProposeOK(c, l, rest, page),
             controller' = [controller EXCEPT ![c] = Waiting(controller[c], l, rest, page)]
      PROVE  HonestInv'
  <2>1. PICK v : v = Waiting(controller[c], l, rest, page)
    OBVIOUS
  <2>2. /\ v \in Worker /\ v.at = "append" /\ v.base = l /\ v.page = page /\ v.seen = <<>>
        /\ Head(v.todo) = Current(c) /\ Tail(v.todo) = rest
    BY <1>3, <2>1, WaitingFacts
  <2>3. DOMAIN <<>> = {}
    OBVIOUS
  <2>4. Honest(v)
    BY <1>3, <2>2, <2>3 DEF ProposeOK, Honest, Publishing, Sends
  <2> QED BY <1>1, <1>3, <2>1, <2>2, <2>4, ReplaceHonest
<1>4. ASSUME NEW l, NEW now, NEW page, SurveyOK(c, l, now, page),
             controller' = [controller EXCEPT ![c] = Surveying(controller[c], l, now, page)]
      PROVE  HonestInv'
  <2>1. PICK v : v = Surveying(controller[c], l, now, page)
    OBVIOUS
  <2>2. /\ v \in Worker /\ v.at = "survey" /\ v.base = l /\ v.seen = now /\ v.page = page
        /\ Head(v.todo) = Current(c)
    BY <1>4, <2>1, SurveyingFacts
  <2>3. Honest(v)
    BY <1>4, <2>2 DEF SurveyOK, Honest, Publishing, Surveys
  <2> QED BY <1>1, <1>4, <2>1, <2>2, <2>3, ReplaceHonest
<1> QED BY <1>2, <1>3, <1>4 DEF Outcome

LEMMA StartKeepsHonest ==
  ASSUME CoreInv, HonestInv, NEW c \in Controller, Start(c)
  PROVE  HonestInv'
<1>1. PICK t \in Commands : GoOn(c, t)
  BY DEF Start
<1>2. /\ t \in Calls /\ Tied(t) /\ Armed(t) /\ ~Publishing(t)
  BY CommandsAreOrdered DEF Publishing
<1>3. /\ controller[c].page \in Reading /\ ReadingOK(controller[c].page)
      /\ controller \in [Controller -> Worker]
  BY DEF CoreInv, PublicationTypeOK, Worker, HonestInv, Honest
<1>4. PICK v : v = Going(t, controller[c].page)
  OBVIOUS
<1>5. v \in Worker /\ Honest(v)
  BY <1>2, <1>3, <1>4, GoingFacts, GoingIsHonest
<1>6. controller' = [controller EXCEPT ![c] = v]
  BY <1>1, <1>3, <1>4 DEF GoOn
<1>7. Grown
  <2>1. Standing
    BY DEF HonestInv, Standing
  <2> QED BY <2>1, SameGrows DEF Start, remoteVars
<1> QED BY <1>5, <1>6, <1>7, ReplaceHonest DEF Start

LEMMA AppendKeepsHonest ==
  ASSUME CoreInv, HonestInv, NEW c \in Controller, At(c, "append"),
         Appended(c, controller[c].base), UNCHANGED <<remote, inflight, meddling>>
  PROVE  HonestInv'
<1>1. PICK w, v : w = controller[c] /\ v = Going(Rest(c), w.page)
  OBVIOUS
<1>2. w.todo # <<>> /\ w.at = "append" /\ w \in Worker /\ Honest(w)
  BY <1>1 DEF At, CoreInv, PublicationTypeOK, HonestInv
<1>3. Grown
  <2>1. Standing
    BY DEF HonestInv, Standing
  <2> QED BY <2>1, SameGrows
<1>4. v \in Worker /\ Honest(v) /\ controller'[c] = v
  <2>1. /\ Rest(c) \in Calls /\ Tied(Rest(c)) /\ Armed(Rest(c)) /\ Rest(c) = Tail(w.todo)
        /\ w.page \in Reading
    BY <1>1, <1>2, CurrentFacts DEF Worker
  <2>2. ReadingOK(w.page) /\ (meddling = 0 /\ Publishing(Rest(c)) => Fitted)
    BY <1>2, <2>1 DEF Honest
  <2>3. v \in Worker
    BY <1>1, <2>1, GoingFacts
  <2>4. Honest(v)
    BY <1>1, <2>1, <2>2, GoingIsHonest
  <2> QED BY <1>1, <2>3, <2>4 DEF Appended
<1>5. \A s \in Step : Committed(journal', s) => Sound(s)'
  <2>1. journal' = w.base
    BY <1>1 DEF Appended
  <2> QED BY <1>2, <1>3, <2>1 DEF Honest, Grown
<1>6. ASSUME NEW d \in Controller PROVE Honest(controller[d])'
  <2>1. CASE d = c
    <3>1. Honest(v)'
      BY <1>3, <1>4, HonestStays
    <3> QED BY <1>4, <2>1, <3>1 DEF Honest
  <2>2. CASE d # c
    <3>1. PICK u : u = controller[d]
      OBVIOUS
    <3>2. Honest(u)'
      BY <1>3, <3>1, HonestStays DEF CoreInv, PublicationTypeOK, HonestInv
    <3>3. controller'[d] = u \/ controller'[d] = [u EXCEPT !.behind = u.behind + 1]
      BY <2>2, <3>1 DEF Appended
    <3>4. /\ controller'[d].base = u.base /\ controller'[d].seen = u.seen
          /\ controller'[d].page = u.page /\ controller'[d].todo = u.todo /\ controller'[d].at = u.at
      BY <3>1, <3>3 DEF CoreInv, PublicationTypeOK, Worker
    <3> QED BY <3>2, <3>4 DEF Honest
  <2> QED BY <2>1, <2>2
<1> QED BY <1>3, <1>5, <1>6 DEF HonestInv, Grown, Standing

LEMMA PersistKeepsHonest ==
  ASSUME CoreInv, HonestInv, NEW c \in Controller, Persist(c)
  PROVE  HonestInv'
<1>1. controller[c].todo # <<>> /\ controller[c].at = "append"
  BY DEF Persist, At
<1>2. CASE ValidateLedger(controller[c].base) /\ controller[c].behind = 0
  BY <1>2, AppendKeepsHonest DEF Persist
<1>3. CASE ~(ValidateLedger(controller[c].base) /\ controller[c].behind = 0)
  <2>1. OnRecord
    BY <1>3 DEF Persist, OnRecord, remoteVars
  <2>2. Outcome(c)
    BY <1>1, <1>3, PersistOutcome DEF Persist
  <2> QED BY <2>1, <2>2, OutcomeKeepsHonest
<1> QED BY <1>2, <1>3

LEMMA AnswerKeepsHonest ==
  ASSUME CoreInv, HonestInv, NEW c \in Controller, controller[c].todo # <<>>,
         controller[c].at = "call", Current(c).op \in Sends,
         NEW response, Answered(c, response) \/ Stop(c),
         Request(Current(c).step) \/ UNCHANGED remoteVars,
         Current(c).step = Publish => Current(c).op = "send",
         UNCHANGED <<journal, meddling>>
  PROVE  HonestInv'
<1>1. PICK s : s = Current(c).step
  OBVIOUS
<1>2. s \in Step /\ PublicationTypeOK /\ Standing
  BY <1>1, CurrentFacts DEF CoreInv, HonestInv, Standing
<1>3. s = Publish /\ meddling = 0 => Fitted
  BY <1>1 DEF HonestInv, Honest, Publishing, Current
<1>4. Grown
  <2>1. CASE UNCHANGED remoteVars
    BY <1>2, <2>1, SameGrows DEF remoteVars
  <2>2. CASE Request(s)
    <3>1. inflight' = inflight \cup {s}
      BY <2>2 DEF Request
    <3>2. CASE UNCHANGED remote
      <4>1. /\ \A t \in Step : Sound(t) => Sound(t)'
            /\ \A page \in Reading : ReadingOK(page) => ReadingOK(page)'
            /\ Fitted => Fitted'
        BY <3>2 DEF Sound, Whole, ReadingOK, Fitted, Placed, Public, Page
      <4>2. Standing'
        BY <1>2, <1>3, <3>1, <3>2, <4>1 DEF Standing, Public
      <4> QED BY <4>1, <4>2 DEF Grown
    <3>3. CASE \E value \in Effect(s) : remote' = [remote EXCEPT ![s] = value]
      BY <1>2, <1>3, <3>1, <3>3, EffectGrows
    <3> QED BY <2>2, <3>2, <3>3 DEF Request
  <2> QED BY <1>1, <2>1, <2>2
<1>5. CASE Answered(c, response)
  <2>0. PICK answer : answer = (IF response = "TERMINAL" THEN response ELSE "none")
    OBVIOUS
  <2>1. PICK u : u = [Going(Rest(c), <<>>) EXCEPT !.response = answer]
    OBVIOUS
  <2>a. answer \in {"none", "TERMINAL"}
    BY <2>0
  <2>2. controller' = [controller EXCEPT ![c] = u]
    BY <1>5, <2>0, <2>1 DEF Answered
  <2>3. u \in Worker /\ u.at = "call" /\ u.base = Initial /\ u.seen = <<>> /\ u.page = <<>>
    BY <2>1, <2>a, AnsweredFacts
  <2>4. Head(u.todo).op = "reconcile"
    BY <2>1, <2>a, AnsweredFacts
  <2>5. DOMAIN <<>> = {}
    OBVIOUS
  <2>6. Honest(u)
    BY <2>3, <2>4, <2>5, InitialLedger DEF Honest, ReadingOK, Publishing
  <2> QED BY <1>4, <2>2, <2>3, <2>6, ReplaceHonest
<1>6. CASE Stop(c)
  <2>1. controller' = [controller EXCEPT ![c] = Idle]
    BY <1>2, <1>6 DEF Stop, GoOn, Going, PublicationTypeOK
  <2>2. Idle \in Worker /\ Honest(Idle)
    <3>1. DOMAIN <<>> = {}
      OBVIOUS
    <3> QED BY <3>1, IdleIsWorker, InitialLedger DEF Idle, Honest, ReadingOK, Publishing
  <2> QED BY <1>4, <2>1, <2>2, ReplaceHonest
<1> QED BY <1>5, <1>6

LEMMA SendKeepsHonest ==
  ASSUME CoreInv, HonestInv, NEW c \in Controller, Mutate(c) \/ Act(c)
  PROVE  HonestInv'
<1>1. controller[c].todo # <<>> /\ controller[c].at = "call" /\ Current(c).op \in Sends
  BY CallingFacts DEF Mutate, Act, Sends
<1>2. Current(c).step = Publish => Current(c).op = "send"
  <2>1. Publish \notin Of({"attestation"})
    BY Steps DEF Of
  <2> QED BY <1>1, <2>1, CurrentFacts DEF Sends
<1>3. /\ \E response : Answered(c, response) \/ Stop(c)
      /\ Request(Current(c).step) \/ UNCHANGED remoteVars
      /\ UNCHANGED <<journal, meddling>>
  BY DEF Mutate, Act
<1> QED BY <1>1, <1>2, <1>3, AnswerKeepsHonest

LEMMA RemoteKeepsHonest ==
  ASSUME CoreInv, HonestInv, Grown, UNCHANGED <<journal, controller>>
  PROVE  HonestInv'
<1>1. ASSUME NEW d \in Controller PROVE Honest(controller[d])'
  <2>1. PICK w : w = controller[d]
    OBVIOUS
  <2>2. Honest(w)'
    BY <2>1, HonestStays DEF CoreInv, PublicationTypeOK, HonestInv
  <2> QED BY <2>1, <2>2 DEF Honest
<1> QED BY <1>1 DEF HonestInv, Grown, Standing

LEMMA LandKeepsHonest ==
  ASSUME CoreInv, HonestInv, NEW s \in Step, Land(s) \/ Meddle(s)
  PROVE  HonestInv'
<1>1. PublicationTypeOK /\ Standing
  BY DEF CoreInv, HonestInv, Standing
<1>2. CASE Land(s)
  <2>1. Grown
    BY <1>1, <1>2, EffectGrows DEF Land, Standing
  <2> QED BY <1>2, <2>1, RemoteKeepsHonest DEF Land
<1>3. CASE Meddle(s)
  BY <1>1, <1>3, MeddleGrows, RemoteKeepsHonest DEF Meddle
<1> QED BY <1>2, <1>3

LEMMA InitHonest == Init => HonestInv
<1> SUFFICES ASSUME Init PROVE HonestInv
  OBVIOUS
<1>1. DOMAIN <<>> = {} /\ Publish \in Step
  BY Steps
<1>2. Honest(Idle)
  BY <1>1, InitialLedger DEF Idle, Honest, ReadingOK, Publishing
<1> QED BY <1>1, <1>2, InitialLedger DEF Init, HonestInv, Public

SafeInv == CoreInv /\ HonestInv

LEMMA SafeStep == SafeInv /\ [Next]_vars => SafeInv'
<1> SUFFICES ASSUME SafeInv, [Next]_vars PROVE SafeInv'
  OBVIOUS
<1>1. CoreInv /\ HonestInv /\ CoreInv'
  BY CoreStep DEF SafeInv
<1>2. CASE UNCHANGED vars
  BY <1>1, <1>2 DEF SafeInv, vars, HonestInv, Honest, Sound, Whole, ReadingOK, Fitted, Placed, Public, Page
<1>3. ASSUME NEW c \in Controller,
             \/ Start(c) \/ Die(c) \/ ResumePending(c) \/ PreflightAll(c) \/ BeginExternal(c)
             \/ ReconcileExternal(c) \/ BeginFinalize(c) \/ Complete(c) \/ Persist(c)
             \/ Mutate(c) \/ Act(c)
      PROVE  HonestInv'
  <2>1. CASE Start(c)
    BY <1>1, <2>1, StartKeepsHonest
  <2>2. CASE \/ Die(c) \/ ResumePending(c) \/ PreflightAll(c) \/ BeginExternal(c)
             \/ ReconcileExternal(c) \/ BeginFinalize(c) \/ Complete(c)
    <3>1. Outcome(c) /\ OnRecord
      BY <1>1, <2>2, DieOutcome, ResumeOutcome, PreflightOutcome, BeginOutcome, ReconcileOutcome,
         FinalizeOutcome, CompleteOutcome
    <3> QED BY <1>1, <3>1, OutcomeKeepsHonest
  <2>3. CASE Persist(c)
    BY <1>1, <2>3, PersistKeepsHonest
  <2>4. CASE Mutate(c) \/ Act(c)
    BY <1>1, <2>4, SendKeepsHonest
  <2> QED BY <1>3, <2>1, <2>2, <2>3, <2>4
<1>4. ASSUME NEW s \in Step, Land(s) \/ Meddle(s)
      PROVE  HonestInv'
  BY <1>1, <1>4, LandKeepsHonest
<1> QED BY <1>1, <1>2, <1>3, <1>4 DEF Next, SafeInv

LEMMA SafeHolds == PublicationSpec => []SafeInv
<1>1. Init => SafeInv
  BY InitCore, InitHonest DEF SafeInv
<1> QED BY <1>1, SafeStep, PTL DEF PublicationSpec

(* The release becomes public only over everything it stands on, whatever     *)
(* dies, overlaps or lands late, as long as nobody else touches the keys.     *)
THEOREM ReleasesArePublishedInOrder == PublicationSpec => []PublishedInOrder
<1>1. SafeInv => PublishedInOrder
  BY DEF SafeInv, HonestInv, Fitted, Placed, PublishedInOrder
<1> QED BY <1>1, SafeHolds, PTL

-----------------------------------------------------------------------------
(* What a finalizing command may count on, step by step.                      *)

\* The keys change under nobody's hand but the effects of requests.
Steady ==
  /\ Clean => Clean'
  /\ \A s \in Elsewhere : Placed(s) => Placed(s)'

LEMMA EffectIsSteady ==
  ASSUME PublicationTypeOK, Standing, NEW s \in Step, NEW value \in Effect(s),
         remote' = [remote EXCEPT ![s] = value]
  PROVE  Steady
<1>1. remote \in [Step -> Value] /\ Draft \in Step /\ Draft \in Of(Release)
  BY Steps DEF PublicationTypeOK
<1>2. /\ s # Draft /\ remote[s] = "SAME" => value = "SAME"
      /\ s = Draft /\ value = "DIFFERENT" => remote[s] = "DIFFERENT"
  BY EffectShape DEF Standing
<1> QED BY <1>1, <1>2 DEF Steady, Clean, Placed, Elsewhere

LEMMA SameIsSteady == ASSUME UNCHANGED remote PROVE Steady
BY DEF Steady, Clean, Placed

\* Only this command changes its place, and it claims nothing new that is not so.
LEMMA ReplaceBatch ==
  ASSUME CoreInv, BatchInv, Steady, NEW c \in Controller, NEW v,
         controller' = [controller EXCEPT ![c] = v], UNCHANGED journal,
         \A d \in Controller \ {c} : d \notin tampered' => d \notin tampered,
         v.behind = 0 => \A s \in Claims(v) :
           \/ Committed(journal, s) \/ Placed(s)
           \/ controller[c].behind = 0 /\ s \in Claims(controller[c]),
         Batched(c)'
  PROVE  BatchInv'
<1>1. controller'[c] = v /\ \A d \in Controller \ {c} : controller'[d] = controller[d]
  BY DEF CoreInv, PublicationTypeOK
<1>2. Recorded' = Recorded
  BY DEF Recorded
<1>3. ASSUME NEW d \in Controller \ {c}, NEW s \in Coming(d)'
      PROVE  s \in Coming(d) \/ s \in Recorded \/ Placed(s)
  <2>1. PICK e \in Controller \ {d} : controller'[e].behind = 0 /\ s \in Claims(controller'[e])
    BY DEF Coming
  <2>2. s \in Elsewhere
    BY DEF Coming
  <2>3. CASE e # c
    BY <1>1, <2>1, <2>2, <2>3 DEF Coming
  <2>4. CASE e = c
    BY <1>1, <2>1, <2>2, <2>4 DEF Coming, Recorded
  <2> QED BY <2>3, <2>4
<1>4. ASSUME NEW d \in Controller \ {c} PROVE Batched(d)'
  <2> SUFFICES ASSUME Sure(d)' PROVE Batched(d)'
    BY DEF Batched
  <2>1. PICK w : w = controller[d] /\ w = controller'[d]
    BY <1>1
  <2>2. Sure(d)
    BY <2>1 DEF Sure, Finalizing
  <2>3. InPlace(Coming(d) \ Recorded) => InPlace(Coming(d) \ Recorded)'
    BY <1>2, <1>3 DEF InPlace, Steady, Coming
  <2>4. Ready(d) => Ready(d)'
    BY <1>2, <1>3 DEF Ready, InPlace, Steady, Coming, Recorded
  <2>5. PageClean(w.page) => PageClean(w.page)'
    BY DEF PageClean, Steady
  <2>6. InPlace(Claims(w)) => InPlace(Claims(w))'
    BY DEF InPlace, Claims, Steady
  <2> QED BY <2>1, <2>2, <2>3, <2>4, <2>5, <2>6 DEF BatchInv, Batched, Steady
<1> QED BY <1>4 DEF BatchInv

LEMMA CallClaimsNothing == ASSUME NEW w, w.at = "call" PROVE Claims(w) = {}
BY DEF Claims

\* A command that makes its next call.
LEMMA GoingBatch ==
  ASSUME CoreInv, BatchInv, Steady, NEW c \in Controller, NEW v,
         controller' = [controller EXCEPT ![c] = v], UNCHANGED journal,
         \A d \in Controller \ {c} : d \notin tampered' => d \notin tampered,
         v.at = "call",
         Sure(c)' => PageClean(v.page)',
         Sure(c)' /\ Head(v.todo).op = "complete" /\ journal.finalState = "ACTIVE" => Ready(c)'
  PROVE  BatchInv'
<1>1. controller'[c] = v
  BY DEF CoreInv, PublicationTypeOK
<1>2. Batched(c)'
  BY <1>1 DEF Batched
<1> QED BY <1>2, CallClaimsNothing, ReplaceBatch

LEMMA OutcomeKeepsBatch ==
  ASSUME CoreInv, BatchInv, NEW c \in Controller, Outcome(c), OnRecord
  PROVE  BatchInv'
<1>1. Steady /\ UNCHANGED <<remote, journal>> /\ controller \in [Controller -> Worker]
  BY SameIsSteady DEF OnRecord, remoteVars, CoreInv, PublicationTypeOK
<1>2. \A d \in Controller \ {c} : controller'[d] = controller[d]
  <2>1. PICK v : controller' = [controller EXCEPT ![c] = v]
    BY DEF Outcome, GoOn
  <2> QED BY <1>1, <2>1
<1>3. Coming(c)' = Coming(c) /\ Recorded' = Recorded
  BY <1>1, <1>2 DEF Coming, Recorded
<1>4. Ready(c)' <=> Ready(c)
  BY <1>1, <1>3 DEF Ready, InPlace, Placed, Clean
<1>5. \A page : PageClean(page)' <=> PageClean(page)
  BY <1>1 DEF PageClean, Clean
<1>6. \A steps : InPlace(steps)' <=> InPlace(steps)
  BY <1>1 DEF InPlace, Placed
<1>7. Clean' <=> Clean
  BY <1>1 DEF Clean
<1>8. ASSUME NEW t, MoveOK(c, t), GoOn(c, t)
      PROVE  BatchInv'
  <2>1. PICK v : v = Going(t, controller[c].page)
    OBVIOUS
  <2>2. controller' = [controller EXCEPT ![c] = v] /\ controller'[c] = v
    BY <1>1, <1>8, <2>1 DEF GoOn
  <2>3. /\ v.at = "call" /\ v.todo = t
        /\ v.page = IF t = <<>> THEN <<>> ELSE controller[c].page
    BY <1>1, <1>8, <2>1, GoingFacts DEF MoveOK, Worker
  <2>4. ASSUME Sure(c)' PROVE Sure(c) /\ t # <<>>
    <3>1. Completing(t)
      BY <2>2, <2>3, <2>4 DEF Sure, Finalizing, Completing
    <3>2. t # <<>>
      BY <3>1 DEF Completing
    <3> QED BY <1>8, <2>4, <3>1, <3>2 DEF MoveOK, GoOn, Sure
  <2>5. Sure(c)' => PageClean(v.page)'
    BY <1>5, <2>3, <2>4 DEF BatchInv, Batched
  <2>6. Sure(c)' /\ Head(v.todo).op = "complete" /\ journal.finalState = "ACTIVE" => Ready(c)'
    BY <1>4, <1>8, <2>3, <2>4 DEF MoveOK
  <2>7. \A d \in Controller \ {c} : d \notin tampered' => d \notin tampered
    BY <1>8 DEF GoOn
  <2> QED BY <1>1, <2>2, <2>3, <2>5, <2>6, <2>7, GoingBatch
<1>9. ASSUME NEW l, NEW rest, NEW page, ProposeOK(c, l, rest, page), UNCHANGED tampered,
             controller' = [controller EXCEPT ![c] = Waiting(controller[c], l, rest, page)]
      PROVE  BatchInv'
  <2>1. PICK v : v = Waiting(controller[c], l, rest, page)
    OBVIOUS
  <2>2. /\ controller' = [controller EXCEPT ![c] = v] /\ controller'[c] = v
        /\ v.at = "append" /\ v.base = l /\ v.behind = controller[c].behind /\ v.page = page
        /\ v.todo # <<>> /\ Head(v.todo) = Current(c) /\ Tail(v.todo) = rest
        /\ v.todo = <<Current(c)>> \o rest /\ rest \in Calls
    <3>1. controller[c] \in Worker /\ Current(c) = Head(controller[c].todo)
      BY DEF CoreInv, PublicationTypeOK, Current
    <3>2. v.todo = <<Current(c)>> \o rest
      BY <2>1, <3>1 DEF Waiting, Worker
    <3> QED BY <1>1, <1>9, <2>1, <3>2, WaitingFacts
  <2>3. Claims(v) = {s \in Elsewhere : Committed(l, s)}
    BY <2>2 DEF Claims
  <2>4. ASSUME Sure(c)' PROVE Sure(c) /\ (Current(c).op \in Surveys => l.finalState # "FROZEN")
    <3>1. Completing(v.todo)
      BY <2>2, <2>4 DEF Sure, Finalizing, Completing
    <3>2. controller[c].todo # <<>> /\ Current(c) \in CallRecord
      BY <1>9, CurrentFacts DEF ProposeOK
    <3>3. Current(c).op = "complete" \/ Completing(rest)
      BY <2>2, <3>1, <3>2, JoinCompletes
    <3>4. Finalizing(c)
      BY <1>9, <3>2, <3>3, FinalizingFacts DEF ProposeOK, Completing
    <3>5. Completing(rest) => l.finalState # "FROZEN"
      BY <1>9 DEF ProposeOK, Completing
    <3> QED BY <1>9, <2>4, <3>3, <3>4, <3>5 DEF Sure, Surveys
  <2>5. controller[c].at = "call" => controller[c].behind = 0
    BY DEF CoreInv, OrderInv, Ordered
  <2>6. Batched(c)'
    <3> SUFFICES ASSUME Sure(c)' PROVE Batched(c)'
      BY DEF Batched
    <3>1. /\ PageClean(page)
          /\ Current(c).op \in Surveys => Clean /\ InPlace(Claims(v))
      BY <1>9, <2>3, <2>4 DEF ProposeOK, InPlace
    <3>2. v.behind = 1 => InPlace(Coming(c) \ Recorded)
      <4>1. Batched(c) /\ Sure(c)
        BY <2>4 DEF BatchInv
      <4>2. controller[c].at # "call" /\ controller[c].behind = 1 => InPlace(Coming(c) \ Recorded)
        BY <4>1 DEF Batched
      <4> QED BY <2>2, <2>5, <4>2
    <3>3. Current(c).op = "complete" /\ journal.finalState = "ACTIVE" => Ready(c)
      BY <2>4 DEF BatchInv, Batched, Current
    <3> QED BY <1>1, <1>3, <1>4, <1>5, <1>6, <1>7, <2>2, <3>1, <3>2, <3>3 DEF Batched
  <2>7. v.behind = 0 => \A s \in Claims(v) :
          \/ Committed(journal, s) \/ Placed(s)
          \/ controller[c].behind = 0 /\ s \in Claims(controller[c])
    BY <1>9, <2>2, <2>3 DEF ProposeOK
  <2> QED BY <1>1, <1>9, <2>2, <2>6, <2>7, ReplaceBatch
<1>10. ASSUME NEW l, NEW now, NEW page, SurveyOK(c, l, now, page), UNCHANGED tampered,
              controller' = [controller EXCEPT ![c] = Surveying(controller[c], l, now, page)]
       PROVE  BatchInv'
  <2>1. PICK v : v = Surveying(controller[c], l, now, page)
    OBVIOUS
  <2>2. /\ controller' = [controller EXCEPT ![c] = v] /\ controller'[c] = v
        /\ v.at = "survey" /\ v.seen = now /\ v.behind = controller[c].behind /\ v.page = page
        /\ v.todo = controller[c].todo /\ Head(v.todo) = Current(c)
    BY <1>1, <1>10, <2>1, SurveyingFacts
  <2>3. Claims(v) = {s \in Elsewhere : s \in DOMAIN now /\ now[s] = "SAME"}
    BY <2>2 DEF Claims
  <2>4. Sure(c)' => Sure(c)
    BY <1>10, <2>2 DEF Sure, Finalizing
  <2>5. controller[c].at = "call" => controller[c].behind = 0
    BY DEF CoreInv, OrderInv, Ordered
  <2>6. Batched(c)'
    <3> SUFFICES ASSUME Sure(c)' PROVE Batched(c)'
      BY DEF Batched
    <3>1. PageClean(page) /\ InPlace(Claims(v)) /\ (Draft \in DOMAIN now => Clean)
      BY <1>10, <2>3, <2>4 DEF SurveyOK, InPlace
    <3>2. v.behind = 1 => InPlace(Coming(c) \ Recorded)
      <4>1. Batched(c) /\ Sure(c)
        BY <2>4 DEF BatchInv
      <4>2. controller[c].at # "call" /\ controller[c].behind = 1 => InPlace(Coming(c) \ Recorded)
        BY <4>1 DEF Batched
      <4> QED BY <2>2, <2>5, <4>2
    <3>3. Head(v.todo).op # "complete"
      BY <1>10, <2>2 DEF SurveyOK, Surveys
    <3> QED BY <1>1, <1>3, <1>4, <1>5, <1>6, <1>7, <2>2, <3>1, <3>2, <3>3 DEF Batched
  <2>7. v.behind = 0 => \A s \in Claims(v) :
          \/ Committed(journal, s) \/ Placed(s)
          \/ controller[c].behind = 0 /\ s \in Claims(controller[c])
    BY <1>10, <2>2, <2>3 DEF SurveyOK
  <2> QED BY <1>1, <1>10, <2>2, <2>6, <2>7, ReplaceBatch
<1> QED BY <1>8, <1>9, <1>10 DEF Outcome

LEMMA StartKeepsBatch ==
  ASSUME CoreInv, BatchInv, NEW c \in Controller, Start(c)
  PROVE  BatchInv'
<1>1. PICK t \in Commands : GoOn(c, t)
  BY DEF Start
<1>2. /\ t \in Calls /\ t # <<>> /\ Tied(t) /\ Armed(t)
      /\ Head(t).op \in {"resume", "preflight", "finalize"}
  BY CommandsAreOrdered
<1>3. /\ controller \in [Controller -> Worker] /\ <<>> \in Reading /\ controller[c].page = <<>>
  BY DEF CoreInv, PublicationTypeOK, OrderInv, Ordered, Start, Reading
<1>4. PICK v : v = Going(t, <<>>)
  OBVIOUS
<1>5. controller' = [controller EXCEPT ![c] = v] /\ tampered' = tampered
  BY <1>1, <1>2, <1>3, <1>4 DEF GoOn
<1>6. v.at = "call" /\ v.todo = t /\ v.page = <<>>
  BY <1>2, <1>3, <1>4, GoingFacts
<1>7. Steady /\ UNCHANGED journal
  BY SameIsSteady DEF Start, remoteVars
<1>8. PageClean(v.page)' /\ Head(v.todo).op # "complete"
  BY <1>2, <1>6 DEF PageClean
<1> QED BY <1>5, <1>6, <1>7, <1>8, GoingBatch

LEMMA AppendKeepsBatch ==
  ASSUME CoreInv, BatchInv, NEW c \in Controller, At(c, "append"), controller[c].behind = 0,
         Appended(c, controller[c].base), UNCHANGED remote
  PROVE  BatchInv'
<1>1. PICK w, v : w = controller[c] /\ v = Going(Rest(c), w.page)
  OBVIOUS
<1>2. w.todo # <<>> /\ w.at = "append" /\ w \in Worker
  BY <1>1 DEF At, CoreInv, PublicationTypeOK
<1>3. /\ Rest(c) \in Calls /\ Tied(Rest(c)) /\ Armed(Rest(c)) /\ w.page \in Reading
      /\ Rest(c) # <<>> /\ Head(Rest(c)).op = "complete" => Current(c).op \in Surveys
      /\ Current(c) = Head(w.todo) /\ (Completing(Rest(c)) => Finalizing(c))
  BY <1>1, <1>2, CurrentFacts, FinalizingFacts DEF Worker
<1>4. /\ v.at = "call" /\ v.todo = Rest(c) /\ v.page = IF Rest(c) = <<>> THEN <<>> ELSE w.page
  BY <1>1, <1>3, GoingFacts
<1>5. journal' = w.base /\ controller'[c] = v
  BY <1>1 DEF Appended
<1>6. ASSUME NEW d \in Controller \ {c}
      PROVE  /\ controller'[d].todo = controller[d].todo /\ controller'[d].at = controller[d].at
             /\ controller'[d].base = controller[d].base /\ controller'[d].seen = controller[d].seen
             /\ controller'[d].page = controller[d].page
             /\ controller'[d].behind = 0 => controller'[d].at = "call"
  <2>1. controller[d] \in Worker
    BY DEF CoreInv, PublicationTypeOK
  <2>2. CASE controller[d].at = "call" \/ controller[d].behind = 2
    <3>1. controller'[d] = controller[d]
      BY <2>2 DEF Appended
    <3> QED BY <2>1, <2>2, <3>1
  <2>3. CASE ~(controller[d].at = "call" \/ controller[d].behind = 2)
    <3>1. controller'[d] = [controller[d] EXCEPT !.behind = controller[d].behind + 1]
      BY <2>3 DEF Appended
    <3>2. controller[d].behind + 1 # 0
      BY <2>1 DEF Worker
    <3> QED BY <2>1, <3>1, <3>2 DEF Worker
  <2> QED BY <2>2, <2>3
<1>7. \A d \in Controller : Coming(d)' = {}
  <2>1. ASSUME NEW d \in Controller, controller'[d].behind = 0 PROVE Claims(controller'[d]) = {}
    <3>1. controller'[d].at = "call"
      BY <1>4, <1>5, <1>6, <2>1
    <3> QED BY <3>1, CallClaimsNothing
  <2> QED BY <2>1 DEF Coming
<1>8. Recorded' = Claims(w)
  BY <1>2, <1>5 DEF Recorded, Claims
<1>9. \A d \in Controller \ {c} : Claims(w) \subseteq Coming(d)
  BY <1>1 DEF Coming, Claims
<1>10. journal'.finalState = "ACTIVE" => journal.finalState = "ACTIVE"
  BY <1>1, <1>2, <1>5 DEF CoreInv, LedgerInv, Follows, Lasts
<1>11. ASSUME NEW d \in Controller, Sure(d)' PROVE Sure(d)
  <2>1. CASE d = c
    <3>1. Completing(Rest(c))
      BY <1>4, <1>5, <1>11, <2>1 DEF Sure, Finalizing, Completing
    <3>2. Rest(c) # <<>>
      BY <3>1 DEF Completing
    <3> QED BY <1>3, <1>11, <2>1, <3>1, <3>2 DEF Sure, Appended
  <2>2. CASE d # c
    BY <1>6, <1>11, <2>2 DEF Sure, Finalizing, Appended
  <2> QED BY <2>1, <2>2
<1>12. /\ \A page : PageClean(page)' <=> PageClean(page)
       /\ \A steps : InPlace(steps)' <=> InPlace(steps)
       /\ Clean' <=> Clean
  BY DEF PageClean, InPlace, Clean, Placed
<1>13. ASSUME Clean, InPlace(Claims(w)), NEW d \in Controller PROVE Ready(d)'
  BY <1>7, <1>8, <1>12, <1>13 DEF Ready, InPlace
<1>14. ASSUME NEW d \in Controller, Sure(d)' PROVE Batched(d)'
  <2>1. Sure(d) /\ Batched(d)
    BY <1>11, <1>14 DEF BatchInv
  <2>2. InPlace(Coming(d) \ Recorded)'
    BY <1>7 DEF InPlace
  <2>3. CASE d = c
    <3>1. PageClean(v.page)
      BY <1>1, <1>4, <2>1, <2>3 DEF Batched, PageClean
    <3>2. ASSUME Head(v.todo).op = "complete" PROVE Ready(c)'
      <4>1. v.todo # <<>>
        BY <1>4, <1>5, <1>14, <2>3 DEF Sure, Finalizing
      <4>2. Current(c).op \in Surveys
        BY <1>3, <1>4, <3>2, <4>1
      <4>3. Clean /\ InPlace(Claims(w))
        BY <1>1, <1>2, <1>3, <2>1, <2>3, <4>2 DEF Batched
      <4> QED BY <1>13, <4>3
    <3> QED BY <1>4, <1>5, <1>12, <2>2, <2>3, <3>1, <3>2 DEF Batched
  <2>4. CASE d # c
    <3>1. PICK u : u = controller[d]
      OBVIOUS
    <3>2. /\ controller'[d].todo = u.todo /\ controller'[d].at = u.at /\ controller'[d].base = u.base
          /\ controller'[d].seen = u.seen /\ controller'[d].page = u.page
      BY <1>6, <2>4, <3>1
    <3>3. Claims(controller'[d]) = Claims(u)
      BY <3>2 DEF Claims
    <3>4. ASSUME Head(u.todo).op = "complete", journal'.finalState = "ACTIVE" PROVE Ready(d)'
      <4>1. Ready(d)
        BY <1>10, <2>1, <3>1, <3>4 DEF Batched
      <4>2. Clean /\ InPlace(Claims(w))
        BY <1>9, <2>4, <4>1 DEF Ready, InPlace
      <4> QED BY <1>13, <4>2
    <3>5. /\ PageClean(u.page)
          /\ u.at = "survey" => InPlace(Claims(u)) /\ (Draft \in DOMAIN u.seen => Clean)
          /\ u.at = "append" /\ Head(u.todo).op \in Surveys => Clean /\ InPlace(Claims(u))
      BY <2>1, <3>1 DEF Batched
    <3> QED BY <1>12, <2>2, <3>2, <3>3, <3>4, <3>5 DEF Batched
  <2> QED BY <2>3, <2>4
<1> QED BY <1>14 DEF BatchInv, Batched

LEMMA PersistKeepsBatch ==
  ASSUME CoreInv, BatchInv, NEW c \in Controller, Persist(c)
  PROVE  BatchInv'
<1>1. controller[c].todo # <<>> /\ controller[c].at = "append"
  BY DEF Persist, At
<1>2. CASE ValidateLedger(controller[c].base) /\ controller[c].behind = 0
  BY <1>2, AppendKeepsBatch DEF Persist
<1>3. CASE ~(ValidateLedger(controller[c].base) /\ controller[c].behind = 0)
  <2>1. OnRecord
    BY <1>3 DEF Persist, OnRecord, remoteVars
  <2>2. Outcome(c)
    BY <1>1, <1>3, PersistOutcome DEF Persist
  <2> QED BY <2>1, <2>2, OutcomeKeepsBatch
<1> QED BY <1>2, <1>3

LEMMA SendKeepsBatch ==
  ASSUME CoreInv, HonestInv, BatchInv, NEW c \in Controller, Mutate(c) \/ Act(c)
  PROVE  BatchInv'
<1>1. controller[c].todo # <<>> /\ controller[c].at = "call" /\ Current(c).op \in Sends
  BY CallingFacts DEF Mutate, Act, Sends
<1>2. PICK s : s = Current(c).step
  OBVIOUS
<1>3. s \in Step /\ PublicationTypeOK /\ Standing
  BY <1>1, <1>2, CurrentFacts DEF CoreInv, HonestInv, Standing
<1>4. PICK response : Answered(c, response) \/ Stop(c)
  BY DEF Mutate, Act
<1>5. Request(s) \/ UNCHANGED remoteVars
  BY <1>2 DEF Mutate, Act
<1>6. Steady
  <2>1. CASE UNCHANGED remote
    BY <2>1, SameIsSteady
  <2>2. CASE \E value \in Effect(s) : remote' = [remote EXCEPT ![s] = value]
    BY <1>3, <2>2, EffectIsSteady
  <2> QED BY <1>5, <2>1, <2>2 DEF Request, remoteVars
<1>7. UNCHANGED journal
  BY DEF Mutate, Act
<1>8. CASE Answered(c, response)
  <2>0. PICK answer : answer = (IF response = "TERMINAL" THEN response ELSE "none")
    OBVIOUS
  <2>1. PICK u : u = [Going(Rest(c), <<>>) EXCEPT !.response = answer]
    OBVIOUS
  <2>a. answer \in {"none", "TERMINAL"}
    BY <2>0
  <2>2. controller' = [controller EXCEPT ![c] = u] /\ tampered' = tampered
    BY <1>8, <2>0, <2>1 DEF Answered
  <2>3. u.at = "call" /\ u.page = <<>> /\ Head(u.todo).op = "reconcile"
    BY <1>1, <2>1, <2>a, AnsweredFacts
  <2>4. PageClean(u.page)'
    BY <2>3 DEF PageClean
  <2> QED BY <1>6, <1>7, <2>2, <2>3, <2>4, GoingBatch
<1>9. CASE Stop(c)
  <2>1. /\ controller' = [controller EXCEPT ![c] = Idle]
        /\ \A d \in Controller \ {c} : d \notin tampered' => d \notin tampered
    BY <1>3, <1>9 DEF Stop, GoOn, Going, PublicationTypeOK
  <2>2. Idle.at = "call" /\ Idle.todo = <<>> /\ Idle.page = <<>>
    BY DEF Idle
  <2>3. controller'[c] = Idle
    BY <1>3, <2>1 DEF PublicationTypeOK
  <2>4. ~Sure(c)'
    BY <2>2, <2>3 DEF Sure, Finalizing
  <2> QED BY <1>6, <1>7, <2>1, <2>2, <2>4, GoingBatch
<1> QED BY <1>4, <1>8, <1>9

LEMMA LandKeepsBatch ==
  ASSUME CoreInv, HonestInv, BatchInv, NEW s \in Step, Land(s) \/ Meddle(s)
  PROVE  BatchInv'
<1>1. CASE Land(s)
  <2>1. UNCHANGED <<journal, controller, tampered>>
    BY <1>1 DEF Land
  <2>2. Steady
    BY <1>1, EffectIsSteady DEF Land, CoreInv, HonestInv, Standing
  <2>3. Recorded' = Recorded /\ \A c \in Controller : Coming(c)' = Coming(c) /\ (Sure(c)' <=> Sure(c))
    BY <2>1 DEF Recorded, Coming, Sure, Finalizing
  <2>4. /\ \A page : PageClean(page) => PageClean(page)'
        /\ \A steps \in SUBSET Elsewhere : InPlace(steps) => InPlace(steps)'
    BY <2>2 DEF Steady, PageClean, InPlace
  <2>5. /\ Recorded \in SUBSET Elsewhere
        /\ \A c \in Controller : /\ Coming(c) \in SUBSET Elsewhere
                                 /\ Claims(controller[c]) \in SUBSET Elsewhere
                                 /\ (Coming(c) \ Recorded) \in SUBSET Elsewhere
    BY DEF Recorded, Coming, Claims
  <2>6. \A c \in Controller : Ready(c) => Ready(c)'
    BY <2>2, <2>3, <2>4, <2>5 DEF Ready, Steady
  <2>7. ASSUME NEW c \in Controller, Sure(c)' PROVE Batched(c)'
    <3>1. Batched(c) /\ Sure(c)
      BY <2>3, <2>7 DEF BatchInv
    <3> QED BY <2>1, <2>2, <2>3, <2>4, <2>5, <2>6, <3>1 DEF Batched, Steady
  <2> QED BY <2>7 DEF BatchInv, Batched
<1>2. CASE Meddle(s)
  <2>1. \A c \in Controller : ~Sure(c)'
    BY <1>2 DEF Meddle, Sure, Finalizing
  <2> QED BY <2>1 DEF BatchInv, Batched
<1> QED BY <1>1, <1>2

LEMMA InitBatch == Init => BatchInv
<1>1. Init => \A c \in Controller : ~Sure(c)
  BY DEF Init, Sure, Finalizing, Idle
<1> QED BY <1>1 DEF BatchInv, Batched

LEMMA BatchStep == SafeInv /\ BatchInv /\ [Next]_vars => BatchInv'
<1> SUFFICES ASSUME CoreInv, HonestInv, BatchInv, [Next]_vars PROVE BatchInv'
  BY DEF SafeInv
<1>1. CASE UNCHANGED vars
  <2>1. \A c \in Controller : Sure(c)' <=> Sure(c)
    BY <1>1 DEF vars, Sure, Finalizing
  <2>2. \A c \in Controller : Ready(c)' <=> Ready(c)
    BY <1>1 DEF vars, Ready, Clean, InPlace, Placed, Recorded, Coming
  <2>3. \A c \in Controller : Batched(c)' <=> Batched(c)
    BY <1>1, <2>1, <2>2 DEF vars, Batched, PageClean, Clean, InPlace, Placed, Recorded, Coming
  <2> QED BY <2>3 DEF BatchInv
<1>2. ASSUME NEW c \in Controller,
             \/ Start(c) \/ Die(c) \/ ResumePending(c) \/ PreflightAll(c) \/ BeginExternal(c)
             \/ ReconcileExternal(c) \/ BeginFinalize(c) \/ Complete(c) \/ Persist(c)
             \/ Mutate(c) \/ Act(c)
      PROVE  BatchInv'
  <2>1. CASE Start(c)
    BY <2>1, StartKeepsBatch
  <2>2. CASE \/ Die(c) \/ ResumePending(c) \/ PreflightAll(c) \/ BeginExternal(c)
             \/ ReconcileExternal(c) \/ BeginFinalize(c) \/ Complete(c)
    <3>1. Outcome(c) /\ OnRecord
      BY <2>2, DieOutcome, ResumeOutcome, PreflightOutcome, BeginOutcome, ReconcileOutcome,
         FinalizeOutcome, CompleteOutcome
    <3> QED BY <3>1, OutcomeKeepsBatch
  <2>3. CASE Persist(c)
    BY <2>3, PersistKeepsBatch
  <2>4. CASE Mutate(c) \/ Act(c)
    BY <2>4, SendKeepsBatch
  <2> QED BY <1>2, <2>1, <2>2, <2>3, <2>4
<1>3. ASSUME NEW s \in Step, Land(s) \/ Meddle(s)
      PROVE  BatchInv'
  BY <1>3, LandKeepsBatch
<1> QED BY <1>1, <1>2, <1>3 DEF Next

\* A batch of which every part is seen in its place.
LEMMA WholeIsObserved ==
  ASSUME PublicationTypeOK, Whole, Clean, InPlace(Elsewhere), NEW s \in Step
  PROVE  Observed(Page, s) = "SAME"
<1>1. /\ Draft \in Of(Release) /\ Publish \in Of(Release) /\ Draft # Publish
      /\ Of(Release) = {Draft, Publish} \cup Of({"asset"})
      /\ Draft \notin Of({"asset"}) /\ Publish \notin Of({"asset"}) /\ Draft \in Step
  BY Steps DEF Of
<1>2. remote[Draft] = "SAME" /\ remote[Publish] = "SAME" /\ \A t \in Of({"asset"}) : remote[t] = "SAME"
  BY <1>1 DEF Whole, Clean, Public, Placed, PublicationTypeOK, Value
<1>3. \A t \in Of(Release) : Page[t] = "SAME"
  BY <1>1, <1>2 DEF Page
<1>4. PublishObserved(Page) = "SAME"
  BY <1>1, <1>3 DEF PublishObserved
<1>5. s \notin Of(Release) => remote[s] = "SAME"
  BY DEF InPlace, Elsewhere, Placed
<1> QED BY <1>1, <1>3, <1>4, <1>5 DEF Observed

LEMMA CompletesWhole ==
  ASSUME CoreInv, HonestInv, BatchInv, Next, NEW c \in Controller \ tampered,
         At(c, "append"), Current(c).op = "complete", journal' # journal,
         controller'[c].at = "call"
  PROVE  \A s \in Step : Observed(Page, s) = "SAME"
<1>1. PICK d \in Controller : Persist(d) /\ controller[d].behind = 0 /\ Appended(d, controller[d].base)
  BY DEF Next, Start, Die, ResumePending, PreflightAll, BeginExternal, ReconcileExternal,
         BeginFinalize, Complete, Persist, Mutate, Act, Land, Meddle, OnRecord
<1>2. controller[c].todo # <<>> /\ controller[c].at = "append" /\ controller[c] \in Worker
      /\ Head(controller[c].todo).op = "complete"
  BY DEF At, CoreInv, PublicationTypeOK, Current
<1>3. d = c
  <2>1. ASSUME d # c PROVE controller'[c].at = "append"
    BY <1>1, <1>2, <2>1 DEF Appended, Worker
  <2> QED BY <2>1
<1>4. /\ \A s \in Step : Committed(journal, s)
      /\ journal' = [journal EXCEPT !.finalState = "COMPLETE"]
  BY <1>1, <1>2, <1>3 DEF CoreInv, LedgerInv, Follows, Appended
<1>5. journal.finalState = "ACTIVE"
  <2>1. journal \in Ledger /\ journal.finalState # "FROZEN"
    BY <1>4 DEF CoreInv, PublicationTypeOK, LedgerInv, ValidateLedger, Committed
  <2>2. journal.finalState # "COMPLETE"
    BY <1>4, <2>1 DEF Ledger
  <2> QED BY <2>1, <2>2 DEF Ledger
<1>6. Sure(c)
  BY <1>2, FinalizingFacts DEF Sure
<1>7. Clean /\ InPlace(Elsewhere)
  <2>1. Ready(c)
    BY <1>2, <1>5, <1>6 DEF BatchInv, Batched
  <2>2. Recorded = Elsewhere
    BY <1>4 DEF Recorded, Elsewhere
  <2> QED BY <2>1, <2>2 DEF Ready
<1>8. Whole
  BY <1>4, Steps DEF HonestInv, Sound
<1> QED BY <1>7, <1>8, WholeIsObserved DEF CoreInv

(* COMPLETE is written only over a batch that lies there as planned, unless   *)
(* somebody changed a key while the command that writes it was running.       *)
THEOREM CompletionsAreReadBack == PublicationSpec => CompleteIsReadBack
<1>1. Init => SafeInv /\ BatchInv
  BY InitCore, InitHonest, InitBatch DEF SafeInv
<1>2. SafeInv /\ BatchInv /\ [Next]_vars => (SafeInv /\ BatchInv)'
  BY SafeStep, BatchStep
<1>3. SafeInv /\ BatchInv /\ [Next]_vars =>
        [\A c \in Controller \ tampered :
           /\ At(c, "append") /\ Current(c).op = "complete"
           /\ journal' # journal /\ controller'[c].at = "call"
           => \A s \in Step : Observed(Page, s) = "SAME"]_vars
  BY CompletesWhole DEF SafeInv
<1> QED BY <1>1, <1>2, <1>3, PTL DEF PublicationSpec, CompleteIsReadBack

=============================================================================
