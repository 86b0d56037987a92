---------------------------- MODULE Preparation ----------------------------
(***************************************************************************)
(* The two circles that configure one C core.  First circle: HTTP handler  *)
(* threads call PreparationCommandService.handle, which keeps one answer   *)
(* per request id, and PreparationService, which holds a lock over one     *)
(* preparation and writes the core.  Second circle: the gateway's          *)
(* ModelConfigurationService, which may only find a configuration that is  *)
(* already there.  Both go through a CcoreConfigurationBackend of their    *)
(* own: a UDP exchange per step, each with a timeout and a new socket.     *)
(*                                                                         *)
(* The core is what main_rt.c shows of itself: lifecycle, step, revision,  *)
(* control source and configuration.  Other clients move it between any    *)
(* two exchanges, and it may restart.  A read is one instant of the core,  *)
(* or no reply; the configure datagram may be lost, late or doubled.       *)
(*                                                                         *)
(* The template fixes one configuration; "other" is one another tool       *)
(* applies, or a source asks the gateway for; it differs in the initial    *)
(* state or the inputs, which are all the core reads back.  Whether a      *)
(* sample is too old when it is looked at (240 ms), whether the gateway's  *)
(* target and queue agree, is a choice.  "Fault:" definitions are used by  *)
(* nothing.                                                                *)
(***************************************************************************)
EXTENDS Naturals, FiniteSets, SequencesExt

CONSTANTS
  Threads,      \* handler threads of the ThreadingHTTPServer
  RequestIds, PrepareIds,
  MaxRequests,  \* max_requests: answers retained by request id
  MaxResults,   \* max_results: results retained by prepare id
  LastRevision, \* 0xffffffff
  MaxWork, MaxMoves, MaxRestarts, MaxStep \* bounds, for finite checking

ASSUME PreparationAssumption ==
  /\ {MaxRequests, MaxResults, LastRevision} \subseteq Nat \ {0}
  /\ {MaxWork, MaxMoves, MaxRestarts, MaxStep} \subseteq Nat

Actors == {"prep", "gateway"}
Configurations == {"fixed", "other"}
None == "none"
Refused == 0           \* an answer or a result is a revision, or this

VARIABLES
  core,         \* lifecycle, sequence, configured_model_revision, ...
  net,          \* configure datagrams on their way
  effects,      \* history: times the core process executed each datagram
  writers,      \* history: the actors whose datagrams had an effect
  op,           \* the configuration operation of each actor
  thread,       \* handler threads of the HTTP server
  byPrepare,    \* PreparationService._by_prepare_id
  bySnapshot,   \* PreparationService._by_snapshot, of the one snapshot
  results,      \* PreparationCommandService._results
  requests,     \* _requests: the ids with a retained answer, oldest first
  calls, inputs, moves, restarts \* calls, ID3 requests, others' moves, restarts so far

serviceVars == <<thread, byPrepare, bySnapshot, results, requests, calls>>
networkVars == <<net, effects, writers>>
preparationVars == <<core, networkVars, op, serviceVars, inputs, moves, restarts>>

Restarted == [life |-> "STOPPED", step |-> 0, rev |-> 0, source |-> "NONE",
              cfg |-> None]
NoOp == [pc |-> "idle", want |-> "fixed", boundary |-> Restarted,
         context |-> Restarted, n |-> 0, replied |-> FALSE, after |-> Restarted,
         seen |-> {}, rev |-> Refused, new |-> FALSE, by |-> None]
NoCall == [pc |-> "idle", cmd |-> "get", r |-> None, p |-> None, answer |-> Refused]

PreparationInit ==
  /\ core = Restarted /\ net = {} /\ effects = <<>> /\ writers = {}
  /\ op = [a \in Actors |-> NoOp]
  /\ thread = [t \in Threads |-> NoCall]
  /\ byPrepare = [p \in PrepareIds |-> Refused] /\ bySnapshot = Refused
  /\ results = [p \in PrepareIds |-> Refused]
  /\ requests = <<>>
  /\ calls = 0 /\ inputs = 0 /\ moves = 0 /\ restarts = 0

-----------------------------------------------------------------------------
(* The core *)

\* What a result says of the core: configured as wanted, at step zero, no
\* control source.  An operation remembers for which revisions that was so.
Witness(o, c) ==
  IF /\ o.pc # "idle" /\ c.life = "CONFIGURED" /\ c.step = 0
     /\ c.source = "NONE" /\ c.cfg = o.want
    THEN [o EXCEPT !.seen = @ \cup {c.rev}] ELSE o
Becomes(c) == core' = c /\ op' = [a \in Actors |-> Witness(op[a], c)]

\* Fault: the core does not compare the revision.
MayConfigureAnyRevision(c, d) == /\ c.life = "STOPPED" /\ c.step = 0
                                 /\ c.source = d.source /\ c.rev < LastRevision

\* parse_configure repeats the boundary under its locks.
MayConfigure(c, d) == /\ c.life = "STOPPED" /\ c.step = 0
                      /\ c.rev = d.rev /\ c.source = d.source
                      /\ c.rev < LastRevision
Configured(c, cfg) == [life |-> "CONFIGURED", step |-> 0, rev |-> c.rev + 1,
                       source |-> "NONE", cfg |-> cfg]

\* The receipt of datagram d reaches the operation that still waits for it.
Receipt(o, d, rev) == IF o.pc = "await" /\ o.n = d.n
                        THEN [o EXCEPT !.replied = TRUE, !.rev = rev] ELSE o

\* A configure datagram arrives; the network may keep a second copy of it.
ExecuteConfigure ==
  \E d \in net, again \in BOOLEAN :
    /\ net' = IF again THEN net ELSE net \ {d}
    /\ \/ /\ MayConfigure(core, d)
          /\ core' = Configured(core, d.cfg)
          /\ effects' = [effects EXCEPT ![d.n] = @ + 1]
          /\ writers' = writers \cup {d.by}
          /\ op' = [a \in Actors |-> Receipt(Witness(op[a], core'), d, core'.rev)]
       \/ /\ ~MayConfigure(core, d)
          /\ op' = [a \in Actors |-> Receipt(op[a], d, Refused)]
          /\ UNCHANGED <<core, effects, writers>>
    /\ UNCHANGED <<serviceVars, inputs, moves, restarts>>

LoseConfigure ==
  \E d \in net :
    /\ net' = net \ {d}
    /\ UNCHANGED <<core, effects, writers, op, serviceVars, inputs, moves, restarts>>

\* What other clients of the core do: lifecycle commands, model steps, a
\* control source, a configuration of their own.
Elsewhere ==
  /\ \/ /\ core.life \in {"CONFIGURED", "PAUSED"}
        /\ Becomes([core EXCEPT !.life = "RUNNING"])
     \/ /\ core.life = "RUNNING"
        /\ \/ Becomes([core EXCEPT !.life = "PAUSED"])
           \/ core.step < MaxStep /\ Becomes([core EXCEPT !.step = @ + 1])
     \/ /\ core.life # "STOPPED" \/ core.source # "NONE"
        /\ Becomes([core EXCEPT !.life = "STOPPED", !.source = "NONE"])
     \/ /\ core.step # 0 \/ core.source # "NONE"
        /\ Becomes([core EXCEPT !.life = IF @ = "STOPPED" THEN @ ELSE "CONFIGURED",
                                !.step = 0, !.source = "NONE"])
     \/ /\ core.source = "NONE"
        /\ Becomes([core EXCEPT !.source = "DEMO_MISSION"])
     \/ /\ core.life = "STOPPED" /\ core.step = 0 /\ core.rev < LastRevision
        /\ Becomes(Configured(core, "other"))
  /\ moves < MaxMoves /\ moves' = moves + 1
  /\ UNCHANGED <<networkVars, serviceVars, inputs, restarts>>

\* A new process: its revision is zero again, and so are the counts.
Restart ==
  /\ restarts < MaxRestarts /\ restarts' = restarts + 1
  /\ Becomes(Restarted)
  /\ effects' = [n \in DOMAIN effects |-> 0]
  /\ UNCHANGED <<net, writers, serviceVars, inputs, moves>>

-----------------------------------------------------------------------------
(* CcoreConfigurationBackend, for the operation of actor a *)

Boundary(c) == <<c.life, c.step, c.rev, c.source>>
Existing(o) == o.context.life = "CONFIGURED"
Failed(o) == [NoOp EXCEPT !.pc = "failed", !.want = o.want, !.by = o.by]

\* One exchange: the reply is taken, or none comes in time.
Exchange(a, reply) ==
  /\ \E o \in {reply, Failed(op[a])} : op' = [op EXCEPT ![a] = o]
  /\ UNCHANGED <<core, networkVars, serviceVars, inputs, moves, restarts>>

\* read_boundary
ReadBoundary(a) ==
  /\ op[a].pc = "boundary"
  /\ Exchange(a, [op[a] EXCEPT !.boundary = core, !.pc = "context"])

\* Fault: both backends are built with the default.
RequirePreparedNever(a) == FALSE

\* _require_prepared_existing: the gateway's backend only.
RequirePrepared(a) == a = "gateway"

\* read_context: the status, then the configuration behind a CONFIGURED one.
ReadContext(a) ==
  /\ op[a].pc = "context"
  /\ Exchange(a, IF RequirePrepared(a) /\ core.life # "CONFIGURED" THEN Failed(op[a])
                 ELSE [op[a] EXCEPT !.context = core,
                        !.pc = IF core.life = "CONFIGURED" THEN "snapshot" ELSE "verify"])

SameConfiguration(o) == core.cfg = o.want /\ core.rev = o.context.rev
ReadSnapshot(a) ==
  /\ op[a].pc = "snapshot"
  /\ Exchange(a, IF SameConfiguration(op[a]) THEN [op[a] EXCEPT !.pc = "verify"]
                 ELSE Failed(op[a]))

\* apply_configuration: the boundary once more ...
Recheck(a) ==
  /\ op[a].pc = "recheck"
  /\ Exchange(a, IF Boundary(core) = Boundary(op[a].context)
                   THEN [op[a] EXCEPT !.pc = IF Existing(op[a]) THEN "again" ELSE "send"]
                 ELSE Failed(op[a]))
\* ... an existing configuration is only read again ...
ReadAgain(a) ==
  /\ op[a].pc = "again"
  /\ Exchange(a, IF SameConfiguration(op[a])
                   THEN [op[a] EXCEPT !.rev = core.rev, !.pc = "after"]
                 ELSE Failed(op[a]))
\* ... and a STOPPED core is sent the configure command.
SendConfigure(a) ==
  /\ op[a].pc = "send"
  /\ effects' = Append(effects, 0)
  /\ net' = net \cup {[n |-> Len(effects) + 1, by |-> a, cfg |-> op[a].want,
                       rev |-> op[a].context.rev, source |-> op[a].context.source]}
  /\ op' = [op EXCEPT ![a].pc = "await", ![a].n = Len(effects) + 1]
  /\ UNCHANGED <<core, writers, serviceVars, inputs, moves, restarts>>

AwaitReceipt(a) ==
  /\ op[a].pc = "await"
  /\ Exchange(a, IF op[a].replied /\ op[a].rev # Refused
                   THEN [op[a] EXCEPT !.pc = "after", !.n = 0, !.replied = FALSE]
                 ELSE Failed(op[a]))

\* _initial_readback: status and initial state, then the initial inputs.
ReadAfter(a) ==
  /\ op[a].pc = "after"
  /\ Exchange(a, IF core.rev = op[a].rev
                   THEN [op[a] EXCEPT !.after = core, !.pc = "readback"]
                 ELSE Failed(op[a]))

\* Fault: the control source of the readback is not looked at.
ProvesAnySource(o) ==
  /\ o.after.life = "CONFIGURED"
  /\ o.after.step = o.context.step /\ o.after.cfg = o.want

\* _verify_receipt and ModelConfigurationService._receipt
Proves(o) ==
  /\ o.after.life = "CONFIGURED" /\ o.after.source = "NONE"
  /\ o.after.step = o.context.step /\ o.after.cfg = o.want
RevisionFollows(a, o) ==
  a = "gateway" \/ o.rev = o.context.rev + (IF Existing(o) THEN 0 ELSE 1)

Readback(a) ==
  /\ op[a].pc = "readback"
  /\ Exchange(a, IF core.cfg = op[a].want /\ Proves(op[a]) /\ RevisionFollows(a, op[a])
                   THEN [op[a] EXCEPT !.pc = "done", !.new = TRUE] ELSE Failed(op[a]))

-----------------------------------------------------------------------------
(* PreparationService *)

Retained == Cardinality({p \in PrepareIds : byPrepare[p] # Refused})

\* Between read_context and apply_configuration: freshness, the comparison
\* with the boundary, SemanticGuards.run_configure, step zero, the replay of
\* a result that still describes the core, capacity, the last revision.
Admissible(o) ==
  /\ o.context.life = "STOPPED" \/ Existing(o)
  /\ o.context.step = 0
Replays(o) == /\ bySnapshot # Refused /\ Existing(o)
              /\ bySnapshot = o.context.rev /\ o.context.source = "NONE"
\* Fault: capacity is checked before the core is read, and not again.
MayWriteUnchecked(o) == Existing(o) \/ o.context.rev < LastRevision
MayWrite(o) == Retained < MaxResults /\ (Existing(o) \/ o.context.rev < LastRevision)

Verify(a) ==
  LET o == op[a]
      next == CASE ~Admissible(o) -> Failed(o)
                [] a = "gateway" -> [o EXCEPT !.pc = "recheck"]
                [] Boundary(o.context) # Boundary(o.boundary) -> Failed(o)
                [] Replays(o) -> [o EXCEPT !.pc = "done", !.rev = bySnapshot]
                [] ~Replays(o) /\ MayWrite(o) -> [o EXCEPT !.pc = "recheck", !.boundary = Restarted]
                [] OTHER -> Failed(o)
  IN  o.pc = "verify" /\ Exchange(a, next)

\* _prepare_locked with the lock just taken: a prepare id that has a result
\* is answered without a look at the core.
Lock(t) ==
  /\ thread[t].pc = "lock" /\ op["prep"].pc = "idle"
  /\ \/ /\ byPrepare[thread[t].p] # Refused
        /\ thread' = [thread EXCEPT ![t].pc = "answer",
                                    ![t].answer = byPrepare[thread[t].p]]
        /\ UNCHANGED op
     \/ /\ byPrepare[thread[t].p] = Refused
        /\ Retained >= MaxResults /\ bySnapshot = Refused
        /\ thread' = [thread EXCEPT ![t].pc = "answer"]
        /\ UNCHANGED op
     \/ /\ byPrepare[thread[t].p] = Refused
        /\ Retained < MaxResults \/ bySnapshot # Refused
        /\ op' = [op EXCEPT !["prep"] =
                    Witness([NoOp EXCEPT !.pc = "boundary", !.by = t], core)]
        /\ thread' = [thread EXCEPT ![t].pc = "hold"]
  /\ UNCHANGED <<core, networkVars, byPrepare, bySnapshot, results, requests,
                 calls, inputs, moves, restarts>>

\* The operation ends: a new result is remembered, the lock released.
Unlock(t) ==
  LET o == op["prep"] IN
  /\ thread[t].pc = "hold" /\ o.by = t /\ o.pc \in {"done", "failed"}
  /\ thread' = [thread EXCEPT ![t].pc = "answer",
                  ![t].answer = IF o.pc = "done" THEN o.rev ELSE Refused]
  /\ IF o.pc = "done" /\ o.new
       THEN /\ byPrepare' = [byPrepare EXCEPT ![thread[t].p] = o.rev]
            /\ bySnapshot' = o.rev
       ELSE UNCHANGED <<byPrepare, bySnapshot>>
  /\ op' = [op EXCEPT !["prep"] = NoOp]
  /\ UNCHANGED <<core, networkVars, results, requests, calls, inputs, moves, restarts>>

-----------------------------------------------------------------------------
(* PreparationCommandService.handle, without a lock *)

Known(r) == r \in Range(requests)
Answers(t) == thread' = [thread EXCEPT ![t] = NoCall]

\* A POST arrives, for a thread of its own.  A retained answer is repeated; an
\* id that names another command is refused and changes nothing.
Handle ==
  \E cmd \in {"prepare", "get"}, r \in RequestIds, p \in PrepareIds :
    LET c == [NoCall EXCEPT !.cmd = cmd, !.r = r, !.p = p]
        free == {t \in Threads : thread[t].pc = "idle"}
        t == CHOOSE x \in free : TRUE IN
    /\ free # {} /\ calls + inputs < MaxWork /\ calls' = calls + 1
    /\ \/ Known(c.r) /\ UNCHANGED thread
       \/ /\ ~Known(c.r)
          /\ thread' = [thread EXCEPT ![t] =
               IF cmd = "prepare" THEN [c EXCEPT !.pc = "lock"]
               ELSE [c EXCEPT !.pc = "remember", !.answer = results[p]]]
    /\ UNCHANGED <<core, networkVars, op, byPrepare, bySnapshot, results, requests,
                   inputs, moves, restarts>>

\* _prepare after the service returned
Result(t) ==
  /\ thread[t].pc = "answer"
  /\ thread' = [thread EXCEPT ![t].pc = "remember"]
  /\ results' = IF thread[t].answer = Refused THEN results
                ELSE [results EXCEPT ![thread[t].p] = thread[t].answer]
  /\ UNCHANGED <<core, networkVars, op, byPrepare, bySnapshot, requests,
                 calls, inputs, moves, restarts>>

\* _remember looks whether another thread answered the id meanwhile ...
Remember(t) ==
  LET c == thread[t] IN
  /\ c.pc = "remember"
  /\ \/ Known(c.r) /\ Answers(t)
     \/ ~Known(c.r) /\ thread' = [thread EXCEPT ![t].pc = "store"]
  /\ UNCHANGED <<core, networkVars, op, byPrepare, bySnapshot, results, requests,
                 calls, inputs, moves, restarts>>

\* ... and stores its own, in place of one stored since or as the newest,
\* dropping the oldest.
Store(t) ==
  LET added == Append(requests, thread[t].r) IN
  /\ thread[t].pc = "store"
  /\ requests' = IF Known(thread[t].r) THEN requests
                 ELSE IF Len(added) > MaxRequests THEN Tail(added) ELSE added
  /\ Answers(t)
  /\ UNCHANGED <<core, networkVars, op, byPrepare, bySnapshot, results, calls,
                 inputs, moves, restarts>>

-----------------------------------------------------------------------------
(* The gateway's ModelConfigurationService.respond; one ID3 at a time *)

Respond ==
  /\ op["gateway"].pc = "idle" /\ calls + inputs < MaxWork /\ inputs' = inputs + 1
  /\ \E want \in Configurations :
       op' = [op EXCEPT !["gateway"] =
                Witness([NoOp EXCEPT !.pc = "context", !.want = want], core)]
  /\ UNCHANGED <<core, networkVars, serviceVars, moves, restarts>>

\* APPLIED is told, or the error: the request is not attempted again.
Told ==
  /\ op["gateway"].pc \in {"done", "failed"}
  /\ op' = [op EXCEPT !["gateway"] = NoOp]
  /\ UNCHANGED <<core, networkVars, serviceVars, inputs, moves, restarts>>

-----------------------------------------------------------------------------
Operation(a) == \/ ReadBoundary(a) \/ ReadContext(a) \/ ReadSnapshot(a) \/ Verify(a)
                \/ Recheck(a) \/ ReadAgain(a) \/ SendConfigure(a) \/ AwaitReceipt(a)
                \/ ReadAfter(a) \/ Readback(a)
Call(t) == Lock(t) \/ Unlock(t) \/ Result(t) \/ Remember(t) \/ Store(t)

PreparationNext ==
  \/ ExecuteConfigure \/ LoseConfigure \/ Elsewhere \/ Restart
  \/ \E a \in Actors : Operation(a)
  \/ Handle \/ \E t \in Threads : Call(t)
  \/ Respond \/ Told

PreparationSpec == PreparationInit /\ [][PreparationNext]_preparationVars

-----------------------------------------------------------------------------
(* Properties *)

Phases == {"idle", "boundary", "context", "snapshot", "verify", "recheck", "again",
           "send", "await", "after", "readback", "done", "failed"}
Revisions == 0 .. LastRevision

\* Types; the lock has one holder; answers and results are retained within
\* their bounds.
PreparationTypeOK ==
  /\ core.rev \in Revisions /\ core.step \in 0 .. MaxStep
  /\ \A a \in Actors : op[a].pc \in Phases /\ op[a].seen \subseteq Revisions
  /\ \A t \in Threads : thread[t].pc = "hold" <=> op["prep"].by = t
  /\ Len(requests) <= MaxRequests /\ Retained <= MaxResults
  /\ byPrepare \in [PrepareIds -> Revisions] /\ results \in [PrepareIds -> Revisions]

\* PreparationService and ModelConfigurationService._receipt: a result, or an
\* APPLIED of the gateway, speaks of a boundary the core had while the
\* operation ran: CONFIGURED as asked, step zero, no control source, at that
\* revision; whatever other clients, a restart or a late datagram did between
\* its reads.
ResultWasHeld == \A a \in Actors : op[a].pc = "done" => op[a].rev \in op[a].seen

\* parse_configure's expected_boundary: a configure datagram has at most one
\* effect on a core process, also when it is late, doubled, or followed by the
\* retry of an operation that gave up.
EffectOnce == \A n \in DOMAIN effects : effects[n] <= 1

\* hil_service.py: the gateway never configures a target, prepared or not.
OnlyPreparationWrites == writers \subseteq {"prep"}

\* What is told of a preparation was so while it ran, a datagram has one effect, and
\* only the first circle writes: for a core others move and restart.
PreparationSound == PreparationTypeOK /\ ResultWasHeld /\ EffectOnce /\ OnlyPreparationWrites
=============================================================================
