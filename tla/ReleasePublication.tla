------------------------- MODULE ReleasePublication -------------------------
(* Publishing a release (release/publication_transaction.py): a controller    *)
(* walks an ordered list of remote keys, records each request in an append-   *)
(* only ledger before it is sent, believes only what it reads back, and       *)
(* freezes the whole transaction on anything unexpected.  Jobs die and are    *)
(* run again, a job given up for lost may still be running, requests whose    *)
(* answer was lost land late, and others can change the remote side.          *)
EXTENDS Naturals, SequencesExt

CONSTANTS
  Controller,    \* processes that run a command of scripts/release_publication.py
  Kinds,         \* the kinds of the steps, in order (build_publication_runtime)
  Bounds         \* [attempts: ATTEMPT_LIMIT, meddling: changes others make to the remote
                 \* keys, overlap: commands may run at the same time]; one for each behaviour

Release == {"draft", "asset", "publish"}
Step == 1..Len(Kinds)
Of(kinds) == {s \in Step : Kinds[s] \in kinds}

ASSUME PublicationAssumption ==
  /\ Kinds \in Seq({"registry", "attestation", "tag"} \cup Release)
  /\ Kinds # <<>> /\ Kinds[Len(Kinds)] = "publish"
  /\ Cardinality(Of({"draft"})) = 1 /\ Cardinality(Of({"publish"})) = 1
  /\ Bounds \subseteq [attempts : Nat \ {0}, meddling : Nat, overlap : BOOLEAN]

VARIABLES
  remote,      \* what lies under each key; for the last one, whether the release is public
  inflight,    \* steps with a request whose effect has not come yet
  sent,        \* the request of the attempt that is open on the ledger has gone out
  journal,     \* the head of the ledger
  controller,  \* the commands: what is left to call, and where the call stands
  tampered,    \* finalizing controllers since whose start others changed a key
  meddling,    \* how often others have changed the remote side
  bounds,      \* the bounds of this behaviour, chosen at the start
  overlapped   \* the commands that run have not been kept apart

vars == <<remote, inflight, sent, journal, controller, tampered, meddling, bounds, overlapped>>
remoteVars == <<remote, inflight, sent>>

Draft == CHOOSE s \in Step : Kinds[s] = "draft"
Publish == Len(Kinds)
Public == remote[Publish] = "SAME"

-----------------------------------------------------------------------------
(* The ledger.                                                               *)

\* What later decisions read of a snapshot.  Observations, response codes and
\* recoveryStatus are left out: two proposals that differ only in them are one.
\* open: the last attempt has no readback yet.
Initial == [steps |-> [s \in Step |-> [state |-> "WAITING", attempts |-> 0, open |-> FALSE]],
            finalState |-> "ACTIVE"]

Committed(l, s) == l.steps[s].state = "COMMITTED"
Started(l) == {s \in Step : l.steps[s].state = "REQUEST_STARTED"}
\* Mutant: the order of the steps is not checked.
MutantIsFirstUncommitted(l, s) == ~Committed(l, s)
IsFirstUncommitted(l, s) == ~Committed(l, s) /\ \A t \in 1..(s - 1) : Committed(l, t)

Changed(l, s, state) == [l EXCEPT !.steps[s].state = state]
Freeze(l, s) == [Changed(l, s, "FROZEN") EXCEPT !.finalState = "FROZEN"]

\* validate_ledger: what every snapshot must satisfy before it is appended.
ValidateLedger(l) ==
  /\ \A s \in Started(l) : l.steps[s].attempts > 0
  /\ \A s \in Step : l.steps[s].open => s \in Started(l)
  /\ Cardinality({s \in Step : l.steps[s].open}) <= 1
  /\ l.finalState = "COMPLETE" => \A s \in Step : Committed(l, s)
  /\ (l.finalState = "FROZEN") = (\E s \in Step : l.steps[s].state = "FROZEN")

\* preflight_all, with what was seen under the keys so far: the first conflict
\* decides, whatever is seen after it.
Conflicts(seen) == {s \in DOMAIN seen : seen[s] \in {"DIFFERENT", "UNKNOWN"}}
\* Mutant: a regression of a committed key is overlooked.
MutantSurveyed(l, seen) ==
  IF Conflicts(seen) # {} THEN Freeze(l, Min(Conflicts(seen)))
  ELSE [l EXCEPT !.steps = [s \in Step |->
          IF seen[s] = "SAME" THEN [l.steps[s] EXCEPT !.state = "COMMITTED"]
          ELSE IF Committed(l, s) THEN l.steps[s]
          ELSE [l.steps[s] EXCEPT !.state = "READY"]]]
Surveyed(l, seen) ==
  LET regression == {s \in Step : Committed(l, s) /\ seen[s] = "ABSENT"}
  IN  IF Conflicts(seen) # {} THEN Freeze(l, Min(Conflicts(seen)))
      ELSE IF regression # {} THEN Freeze(l, Min(regression))
      ELSE [l EXCEPT !.steps = [s \in Step |->
              [l.steps[s] EXCEPT !.state = IF seen[s] = "SAME" THEN "COMMITTED" ELSE "READY"]]]

\* _apply_readback
ApplyReadback(l, s, response, observation) ==
  LET read == [l EXCEPT !.steps[s].open = FALSE]
      hopeless == \/ observation # "ABSENT" \/ response = "TERMINAL"
                  \/ l.steps[s].attempts >= bounds.attempts
  IN  IF observation = "SAME" THEN Changed(read, s, "COMMITTED")
      ELSE IF hopeless THEN Freeze(read, s) ELSE Changed(read, s, "READY")

\* begin_external, after the key was observed again.
\* Mutant: the attempt is counted and the step not marked as started.
MutantPrestate(l, s, observation) ==
  IF observation = "SAME" THEN Changed(l, s, "COMMITTED")
  ELSE IF observation # "ABSENT" \/ l.steps[s].attempts >= bounds.attempts THEN Freeze(l, s)
  ELSE [l EXCEPT !.steps[s].attempts = @ + 1]
Prestate(l, s, observation) ==
  IF observation = "SAME" THEN Changed(l, s, "COMMITTED")
  ELSE IF observation # "ABSENT" \/ l.steps[s].attempts >= bounds.attempts THEN Freeze(l, s)
  ELSE [l EXCEPT !.steps[s] =
          [state |-> "REQUEST_STARTED", attempts |-> @.attempts + 1, open |-> TRUE]]

-----------------------------------------------------------------------------
(* The remote side, as the adapters of publication_remote.py see it.         *)

\* What one read of the release shows (GitHubReleaseDiscovery.get).
Page == [s \in Of(Release) |-> remote[s]]

\* A second release for the tag, a half uploaded asset: nothing can be told.
PublishObserved(page) ==
  LET assets == {page[s] : s \in Of({"asset"})}
  IN  IF page[Draft] = "ABSENT" THEN "ABSENT"
      ELSE IF "UNKNOWN" \in assets THEN "UNKNOWN"
      ELSE IF page[Publish] = "SAME" THEN IF assets \subseteq {"SAME"} THEN "SAME" ELSE "DIFFERENT"
      ELSE IF "DIFFERENT" \in assets THEN "DIFFERENT" ELSE "ABSENT"

Observed(page, s) ==
  IF s \notin Of(Release) THEN remote[s]
  ELSE IF page[Draft] = "UNKNOWN" THEN "UNKNOWN"
  ELSE IF s \in Of({"asset"}) /\ page[Draft] = "ABSENT" THEN "ABSENT"
  ELSE IF s = Publish THEN PublishObserved(page) ELSE page[s]

\* What a request that reaches the remote side leaves there.
Effect(s) ==
  CASE s \in Of({"registry"}) -> {"SAME"}
    [] s \in Of({"attestation", "tag"}) -> {IF remote[s] = "ABSENT" THEN "SAME" ELSE remote[s]}
    [] s = Draft ->
         {IF Public THEN remote[s] ELSE IF remote[s] = "ABSENT" THEN "SAME" ELSE "UNKNOWN"}
    [] s \in Of({"asset"}) ->
         IF Public \/ remote[Draft] = "ABSENT" \/ remote[s] # "ABSENT" THEN {remote[s]}
         ELSE {"SAME", "UNKNOWN"}
    [] s = Publish -> {IF remote[Draft] = "ABSENT" THEN remote[s] ELSE "SAME"}

-----------------------------------------------------------------------------
(* Commands: sequences of calls of the controller.                           *)

Call(op, s) == [op |-> op, step |-> s]
Reconcile == <<Call("resume", 0), Call("preflight", 0)>>
Finalize == <<Call("finalize", 0), Call("preflight", 0), Call("complete", 0)>>
Advance(s) == <<Call("begin", s), Call("send", s), Call("reconcile", s)>>
External(s) == <<Call("preflight", 0), Call("begin", s), Call("act", s), Call("reconcile", s)>>
\* transaction-run: the steps of a phase in their order.
InOrder(phase) ==
  {order \in [1..Cardinality(phase) -> phase] :
     \A i, j \in DOMAIN order : i < j => order[i] < order[j]}
Run(order) == [i \in 1..(2 + 3 * Len(order)) |->
                 IF i <= 2 THEN Reconcile[i] ELSE Advance(order[i \div 3])[1 + (i % 3)]]
Commands ==
  {Reconcile, Finalize}
    \cup {Run(order) : order \in InOrder(Of({"registry"})) \cup InOrder(Of({"tag"} \cup Release))}
    \cup {External(s) : s \in Of({"attestation"})}

\* behind: the revisions appended since the snapshot was read, up to two;
\* page: the release as this command has read it and may use it again.
Idle == [at |-> "call", todo |-> <<>>, base |-> Initial, behind |-> 0, seen |-> <<>>,
         response |-> "none", page |-> <<>>]

At(c, place) == controller[c].todo # <<>> /\ controller[c].at = place
Current(c) == Head(controller[c].todo)
Rest(c) == Tail(controller[c].todo)
Calling(c, op) == At(c, "call") /\ Current(c).op = op
OnRecord == UNCHANGED <<remoteVars, journal, meddling, overlapped>>

\* The command goes on with these calls; without any it has ended.
Going(calls, page) == IF calls = <<>> THEN Idle ELSE [Idle EXCEPT !.todo = calls, !.page = page]
GoOn(c, calls) ==
  /\ controller' = [controller EXCEPT ![c] = Going(calls, @.page)]
  /\ tampered' = IF calls = <<>> THEN tampered \ {c} ELSE tampered
Stop(c) == GoOn(c, <<>>)

\* A snapshot made from the ledger the call read is proposed; once it is
\* appended the command goes on with these calls, and ends at a freeze.
Propose(c, l, calls, page) ==
  /\ controller' = [controller EXCEPT ![c].at = "append", ![c].base = l, ![c].seen = <<>>,
       ![c].response = "none", ![c].page = page,
       ![c].todo = <<Current(c)>> \o (IF l.finalState = "FROZEN" THEN <<>> ELSE calls)]
  /\ UNCHANGED tampered

\* One look at a key: the release may be as it was last read for WINDOW_SECONDS,
\* and a readback that fails counts as UNKNOWN.
Pages(c, s) ==
  IF s \in Of(Release) THEN {Page} \cup ({controller[c].page} \ {<<>>}) ELSE {controller[c].page}
Look(page, s) == {Observed(page, s), "UNKNOWN"}

Start(c) ==
  /\ controller[c].todo = <<>>
  /\ \E command \in Commands : GoOn(c, command)
  /\ overlapped' = \E d \in Controller \ {c} : controller[d].todo # <<>>
  /\ overlapped' => bounds.overlap
  /\ UNCHANGED <<remoteVars, journal, meddling>>

\* The process dies, or a read of the journal fails.
Die(c) == controller[c].todo # <<>> /\ Stop(c) /\ OnRecord

\* resume_pending: only reads the remote side, never sends again.
ResumePending(c) ==
  /\ Calling(c, "resume")
  /\ IF journal.finalState = "FROZEN" THEN Stop(c)
     ELSE IF Started(journal) = {} THEN GoOn(c, Rest(c))
     ELSE \E s \in Started(journal) : \E page \in Pages(c, s) : \E observation \in Look(page, s) :
            Propose(c, ApplyReadback(journal, s, "AMBIGUOUS", observation), Rest(c), page)
  /\ OnRecord

\* preflight_all and begin_external first resolve a request left open, and
\* then go on with the ledger as they find it.
Resolve(c, again) == GoOn(c, <<Call("resume", 0), Call(again, Current(c).step)>> \o Rest(c))

\* The survey looks at one key after the other.
Survey(c, l, seen) ==
  LET s == Len(seen) + 1
  IN  \E page \in Pages(c, s) : \E observation \in Look(page, s) :
        LET now == Append(seen, observation)
        IN  IF s = Len(Kinds) \/ Conflicts(now) # {}
            THEN Propose(c, Surveyed(l, now), Rest(c), page)
            ELSE /\ controller' = [controller EXCEPT ![c].at = "survey", ![c].base = l,
                      ![c].seen = now, ![c].page = page]
                 /\ UNCHANGED tampered

PreflightAll(c) ==
  /\ \/ /\ Calling(c, "preflight")
        /\ CASE journal.finalState = "FROZEN" -> Stop(c)
             [] journal.finalState = "COMPLETE" -> GoOn(c, Rest(c))
             [] OTHER -> IF Started(journal) # {} THEN Resolve(c, "preflight_resumed")
                         ELSE Survey(c, journal, <<>>)
     \/ Calling(c, "preflight_resumed") /\ Survey(c, journal, <<>>)
     \/ At(c, "survey") /\ Survey(c, controller[c].base, controller[c].seen)
  /\ OnRecord

\* advance and transaction-run skip a step that turns out to be committed.
Skip(c) == Tail(Tail(Rest(c)))
CheckStep(c) ==
  LET s == Current(c).step
  IN  CASE Committed(journal, s) -> GoOn(c, Skip(c))
        [] IsFirstUncommitted(journal, s) /\ journal.steps[s].state = "READY" ->
             \E page \in Pages(c, s) : \E observation \in Look(page, s) :
               Propose(c, Prestate(journal, s, observation),
                       IF observation = "SAME" THEN Skip(c) ELSE Rest(c), page)
        [] OTHER -> Stop(c)

BeginExternal(c) ==
  /\ \/ /\ Calling(c, "begin")
        /\ IF journal.finalState = "FROZEN" THEN Stop(c)
           ELSE IF Started(journal) # {} THEN Resolve(c, "begin_resumed") ELSE CheckStep(c)
     \/ Calling(c, "begin_resumed") /\ CheckStep(c)
  /\ OnRecord

\* transaction-run ends when the step is still not committed.
ReconcileExternal(c) ==
  /\ Calling(c, "reconcile")
  /\ LET s == Current(c).step
     IN  IF journal.finalState = "FROZEN" THEN Stop(c)
         ELSE CASE Committed(journal, s) -> GoOn(c, Rest(c))
                [] journal.steps[s].state = "REQUEST_STARTED" ->
                     \E page \in Pages(c, s) : \E observation \in Look(page, s) :
                       Propose(c, ApplyReadback(journal, s, controller[c].response, observation),
                               IF observation = "SAME" THEN Rest(c) ELSE <<>>, page)
                [] OTHER -> Stop(c)
  /\ OnRecord

\* finalize, before and after its survey of the whole batch.
BeginFinalize(c) ==
  /\ Calling(c, "finalize")
  /\ IF journal.finalState = "ACTIVE" THEN GoOn(c, Rest(c)) ELSE Stop(c)
  /\ OnRecord

Complete(c) ==
  /\ Calling(c, "complete")
  /\ IF \A s \in Step : Committed(journal, s)
     THEN Propose(c, [journal EXCEPT !.finalState = "COMPLETE"], <<>>, <<>>)
     ELSE Stop(c)
  /\ OnRecord

\* _persist: the next revision is appended only to the snapshot it was made
\* from; finding that very snapshot there already counts as success.
Appended(c, l) ==
  /\ journal' = l /\ sent' = FALSE
  /\ controller' = [d \in Controller |->
       IF d = c THEN Going(Rest(c), controller[c].page)
       ELSE IF controller[d].at = "call" \/ controller[d].behind = 2 THEN controller[d]
       ELSE [controller[d] EXCEPT !.behind = @ + 1]]
  /\ tampered' = IF Rest(c) = <<>> THEN tampered \ {c} ELSE tampered

\* Mutant: whatever lies on the branch is overwritten.
MutantPersist(c) ==
  /\ At(c, "append")
  /\ IF ValidateLedger(controller[c].base) THEN Appended(c, controller[c].base)
     ELSE Stop(c) /\ UNCHANGED <<journal, sent>>
  /\ UNCHANGED <<remote, inflight, meddling, overlapped>>
Persist(c) ==
  /\ At(c, "append")
  /\ LET next == controller[c].base
         behind == controller[c].behind
     IN  IF ValidateLedger(next) /\ behind = 0 THEN Appended(c, next)
         ELSE /\ IF ValidateLedger(next) /\ behind = 1 /\ journal = next THEN GoOn(c, Rest(c))
                 ELSE Stop(c)
              /\ UNCHANGED <<journal, sent>>
  /\ UNCHANGED <<remote, inflight, meddling, overlapped>>

\* The request goes out; its effect comes at any later moment, or never.  Of
\* two on their way one takes effect at once or not at all.
Request(s) ==
  /\ sent' = TRUE /\ inflight' = inflight \cup {s}
  /\ \/ UNCHANGED remote
     \/ s \in inflight /\ \E value \in Effect(s) : remote' = [remote EXCEPT ![s] = value]

\* What becomes of the response matters only if it was TERMINAL; the release
\* is read anew (invalidate_on_mutation, or the next command).
Answered(c, response) ==
  /\ controller' = [controller EXCEPT ![c] = [Going(Rest(c), <<>>) EXCEPT
       !.response = IF response = "TERMINAL" THEN response ELSE "none"]]
  /\ UNCHANGED tampered

\* The adapters look again before they send, and may decide not to; an asset's
\* file is checked before the release is read.
Unsent(s) ==
  LET refused == IF s \in Of({"asset", "registry", "tag"}) THEN {"TERMINAL"} ELSE {}
  IN  IF s = Draft THEN {[ABSENT |-> "none", SAME |-> "ACKNOWLEDGED", DIFFERENT |-> "AMBIGUOUS",
                          UNKNOWN |-> "AMBIGUOUS"][Observed(Page, s)]}
      ELSE IF s \in Of(Release) /\ remote[Draft] \in {"ABSENT", "UNKNOWN"}
           THEN {IF s = Publish /\ remote[Draft] = "ABSENT" THEN "TERMINAL" ELSE "AMBIGUOUS"}
                  \cup refused
      ELSE {"none"} \cup refused

Mutate(c) ==
  /\ Calling(c, "send")
  /\ LET s == Current(c).step
     IN  \E response \in Unsent(s) :
           \/ response # "none" /\ Answered(c, response) /\ UNCHANGED remoteVars
           \/ /\ response = "none"
              /\ Answered(c, "AMBIGUOUS") /\ Request(s)
  /\ UNCHANGED <<journal, meddling, overlapped>>

\* The workflow's attestation action: the job ends when it fails, otherwise
\* transaction-reconcile-external is told that it was acknowledged.
Act(c) ==
  /\ Calling(c, "act")
  /\ Answered(c, "ACKNOWLEDGED") \/ Stop(c)
  /\ Request(Current(c).step)
  /\ UNCHANGED <<journal, meddling, overlapped>>

\* The effect of a request arrives.
Land(s) ==
  /\ s \in inflight /\ inflight' = inflight \ {s}
  /\ \E value \in Effect(s) : remote' = [remote EXCEPT ![s] = value]
  /\ UNCHANGED <<sent, journal, controller, tampered, meddling, overlapped>>

Finalizing(c) == \E i \in DOMAIN controller[c].todo : controller[c].todo[i].op = "complete"

\* Somebody else takes a key or removes what lies there.  A public release is
\* immutable; the assets go with their draft.  Bound: while the ledger is open.
Meddle(s) ==
  /\ meddling < bounds.meddling /\ journal.finalState = "ACTIVE"
  /\ s # Publish /\ (s \in Of(Release) => ~Public)
  /\ \/ /\ remote[s] = "ABSENT" /\ s \notin Of({"attestation"})
        /\ s \in Of({"asset"}) => remote[Draft] # "ABSENT"
        /\ remote' = [remote EXCEPT ![s] = "DIFFERENT"]
     \/ /\ remote[s] = "SAME"
        /\ remote' = [t \in Step |-> IF t = s \/ (s = Draft /\ t \in Of({"asset"})) THEN "ABSENT"
                                     ELSE remote[t]]
  /\ meddling' = meddling + 1
  /\ tampered' = tampered \cup {c \in Controller : Finalizing(c)}
  /\ UNCHANGED <<inflight, sent, journal, controller, overlapped>>

Init ==
  /\ remote = [s \in Step |-> "ABSENT"]
  /\ inflight = {}
  /\ sent = FALSE
  /\ journal = Initial
  /\ controller = [c \in Controller |-> Idle]
  /\ tampered = {}
  /\ meddling = 0
  /\ overlapped = FALSE
  /\ bounds \in Bounds

Next ==
  /\ \/ \E c \in Controller :
          \/ Start(c) \/ Die(c) \/ ResumePending(c) \/ PreflightAll(c) \/ BeginExternal(c)
          \/ ReconcileExternal(c) \/ BeginFinalize(c) \/ Complete(c) \/ Persist(c)
          \/ Mutate(c) \/ Act(c)
     \/ \E s \in Step : Land(s) \/ Meddle(s)
  /\ UNCHANGED bounds

PublicationSpec == Init /\ [][Next]_vars

-----------------------------------------------------------------------------
(* The release becomes public only over everything it stands on: as long as   *)
(* nobody else touches the remote keys, whatever dies, overlaps or lands      *)
(* late, each earlier step lies there as planned (first_uncommitted and       *)
(* _apply_readback).  The draft itself may have got a late twin.              *)
PublishedInOrder ==
  Public /\ meddling = 0 =>
    \A s \in Step \ {Draft, Publish} : remote[s] = "SAME"

(* A request goes out only for an attempt that is open on the ledger, and     *)
(* only once for it, through crashes and lost answers, as long as the         *)
(* concurrency group keeps commands apart (begin_external, resume_pending).   *)
RequestsOnRecord ==
  ~overlapped => \A c \in Controller :
    Calling(c, "send") \/ Calling(c, "act") =>
      journal.steps[Current(c).step].state = "REQUEST_STARTED" /\ ~sent

(* One conflict freezes the batch: nobody lifts the freeze, not even a job    *)
(* that read the ledger before it, and, with commands kept apart, nothing is  *)
(* sent any more (preflight_all, _persist).                                   *)
FreezeHolds ==
  [][journal.finalState = "FROZEN" =>
       /\ journal'.finalState = "FROZEN"
       /\ ~overlapped => UNCHANGED <<journal, sent>>]_vars

(* COMPLETE is written only over a batch that lies there as planned: whatever *)
(* was changed before the command began is noticed (finalize).                *)
CompleteIsReadBack ==
  [][\A c \in Controller \ tampered :
       /\ At(c, "append") /\ Current(c).op = "complete"
       /\ journal' # journal /\ controller'[c].at = "call"
       => \A s \in Step : Observed(Page, s) = "SAME"]_vars
=============================================================================
