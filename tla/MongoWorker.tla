----------------------------- MODULE MongoWorker -----------------------------
(***************************************************************************)
(* The database worker of src/engine/src/lua_cpplib/lmongo.cpp: the main   *)
(* (Lua) thread submits queries onto _query and drains _result in          *)
(* main_routine; the worker thread connects and pings in initialize(),     *)
(* then in routine() pops each query, runs it with the lock released and   *)
(* pushes its result.  Every region the code runs between lock() and       *)
(* unlock() is one action, so the spin lock itself is implicit.            *)
(*                                                                         *)
(* The Thread base class (start/stop, the condition-variable wait with a   *)
(* timeout, is_busy, wakeup_main) and the Reactor's handling of the        *)
(* wake-up bits are not in the repository: those actions are modelled     *)
(* from spec sections 4.4 step 5, 4.8 and 5.                               *)
(***************************************************************************)
EXTENDS Naturals, Sequences, SequencesExt

CONSTANTS
  Qids,            \* caller-supplied correlation ids; 0 means "no callback"
  MaxQueries,      \* bound on the number of queries the main thread submits
  MaskOrders       \* the orders the Reactor may use for a worker's bits
                   \* (see mask_first)

ASSUME /\ 0 \in Qids /\ Qids \subseteq Nat
       /\ MaxQueries \in Nat \ {0}
       /\ MaskOrders \subseteq BOOLEAN /\ MaskOrders # {}

S_READY == "S_READY"
S_DATA  == "S_DATA"
NONE    == [sn |-> 0, qid |-> 0]

VARIABLES
  mask_first, \* TRUE: the Reactor takes and clears a worker's bits before
              \* main_routine; FALSE: spec 4.4 step 5 order, main_routine(bits)
              \* first, then the mask is cleared.  Fixed for a behaviour.
  active,     \* Thread::active(): set by start, cleared by stop
  wstate,     \* where the worker thread is
  busy,       \* Thread::is_busy(): the worker is inside routine()
  query,      \* LMongo::_query, FIFO of queries [sn, qid]
  inflight,   \* the query routine() popped and runs unlocked, or NONE
  result,     \* LMongo::_result, FIFO of results
  main_ev,    \* wake-up bits posted by wakeup_main, read by the Reactor
  main_pc,    \* where the main thread is in handling the worker's bits
  main_res,   \* the result main_routine popped and passes to on_result
  submitted,  \* history: every query submitted, in order
  delivered,  \* history: sn of every on_result that reached the script
  consumed,   \* history: number of results main_routine has finished
  ready_calls \* history: number of on_ready calls

vars == <<mask_first, active, wstate, busy, query, inflight, result, main_ev, main_pc,
          main_res, submitted, delivered, consumed, ready_calls>>

WorkerStates == {"unstarted", "connecting", "pinging", "idle", "routine",
                 "drain", "command", "failed", "stopped"}
Query == [sn : 0..MaxQueries, qid : Qids]

-----------------------------------------------------------------------------
(* busy_job(): finished = _result.size(), unfinished = _query.size() plus  *)
(* one while the worker is busy, all read under the lock.                  *)
Finished   == Len(result)
(* Mutant: busy_job without the "if (is_busy()) unfinished_sz += 1".  *)
UnfinishedNoBusy == Len(query)
Unfinished == Len(query) + (IF busy THEN 1 ELSE 0)
BusyJob    == Finished + Unfinished

(* The result routine() constructs for a query: same qid (and type).       *)
NewResult(q) == [sn |-> q.sn, qid |-> q.qid]

-----------------------------------------------------------------------------
(* Main thread.                                                            *)

(* LMongo::start: refuses when already active, else Thread::start.        *)
Start ==
  /\ ~active /\ wstate = "unstarted"
  /\ active' = TRUE
  /\ wstate' = "connecting"
  /\ UNCHANGED <<mask_first, busy, query, inflight, result, main_ev, main_pc, main_res, submitted, delivered, consumed, ready_calls>>

(* LMongo::stop: Thread::stop clears the run flag; the worker notices it  *)
(* at its next loop boundary.                                             *)
Stop ==
  /\ active
  /\ active' = FALSE
  /\ UNCHANGED <<mask_first, wstate, busy, query, inflight, result, main_ev, main_pc,
                 main_res, submitted, delivered, consumed,
                 ready_calls>>

(* count/find/find_and_modify/insert/update/remove: refused unless active;*)
(* under the lock construct the query, push it, wake the worker.  Lua may *)
(* call them from the main loop or from inside an on_result callback.     *)
Submit(q) ==
  /\ active
  /\ main_pc \in {"idle", "callback"}
  /\ Len(submitted) < MaxQueries
  /\ LET new == [sn |-> Len(submitted) + 1, qid |-> q]
     IN  /\ query' = Append(query, new)
         /\ submitted' = Append(submitted, new)
  /\ UNCHANGED <<mask_first, active, wstate, busy, inflight, result, main_ev, main_pc,
                 main_res, delivered, consumed, ready_calls>>

(* Mutant: main_routine tests "ev == S_READY" instead of "ev & S_READY". *)
MainRoutineBeginExactReady ==
  /\ main_pc = "idle" /\ main_ev # {}
  /\ main_ev' = IF mask_first THEN {} ELSE main_ev
  /\ ready_calls' = IF main_ev = {S_READY} THEN ready_calls + 1
                                          ELSE ready_calls
  /\ main_pc' = "drain"
  /\ UNCHANGED <<mask_first, active, wstate, busy, query, inflight, result, main_res,
                 submitted, delivered, consumed>>

(* The Reactor finds bits posted for this worker and calls                *)
(* main_routine(ev); main_routine calls on_ready first when S_READY is set.*)
MainRoutineBegin ==
  /\ main_pc = "idle" /\ main_ev # {}
  /\ main_ev' = IF mask_first THEN {} ELSE main_ev
  /\ ready_calls' = IF S_READY \in main_ev THEN ready_calls + 1
                                           ELSE ready_calls
  /\ main_pc' = "drain"
  /\ UNCHANGED <<mask_first, active, wstate, busy, query, inflight, result, main_res,
                 submitted, delivered, consumed>>

(* Mutant: main_routine reads the front result without popping it.      *)
MainPopNoPop ==
  /\ main_pc = "drain" /\ result # <<>>
  /\ main_res' = Head(result)
  /\ main_pc' = "callback"
  /\ UNCHANGED <<mask_first, active, wstate, busy, query, inflight, result, main_ev,
                 submitted, delivered, consumed, ready_calls>>

(* lock; the result queue is not empty: pop its front; unlock.           *)
MainPop ==
  /\ main_pc = "drain" /\ result # <<>>
  /\ main_res' = Head(result)
  /\ result' = Tail(result)
  /\ main_pc' = "callback"
  /\ UNCHANGED <<mask_first, active, wstate, busy, query, inflight, main_ev, submitted, delivered, consumed, ready_calls>>

(* Mutant: on_result without the "if (0 == res->_qid) return".         *)
MainOnResultAllQids ==
  /\ main_pc = "callback"
  /\ delivered' = Append(delivered, main_res.sn)
  /\ consumed' = consumed + 1
  /\ main_res' = NONE
  /\ main_pc' = "drain"
  /\ UNCHANGED <<mask_first, active, wstate, busy, query, inflight, result, main_ev,
                 submitted, ready_calls>>

(* on_result outside the lock: a qid of 0 returns before calling the     *)
(* script; then lock and destroy the result.                              *)
MainOnResult ==
  /\ main_pc = "callback"
  /\ delivered' = IF main_res.qid = 0 THEN delivered
                                      ELSE Append(delivered, main_res.sn)
  /\ consumed' = consumed + 1
  /\ main_res' = NONE
  /\ main_pc' = "drain"
  /\ UNCHANGED <<mask_first, active, wstate, busy, query, inflight, result, main_ev,
                 submitted, ready_calls>>

(* The loop finds _result empty under the lock: unlock and return.       *)
MainDrainEnd ==
  /\ main_pc = "drain" /\ result = <<>>
  /\ main_pc' = IF mask_first THEN "idle" ELSE "clear"
  /\ UNCHANGED <<mask_first, active, wstate, busy, query, inflight, result, main_ev,
                 main_res, submitted, delivered, consumed,
                 ready_calls>>

(* Spec 4.4 step 5: after main_routine(bits) the Reactor clears the mask.*)
MainClearMask ==
  /\ main_pc = "clear"
  /\ main_ev' = {}
  /\ main_pc' = "idle"
  /\ UNCHANGED <<mask_first, active, wstate, busy, query, inflight, result, main_res, submitted, delivered, consumed, ready_calls>>

-----------------------------------------------------------------------------
(* Worker thread.                                                          *)

(* initialize(): connect() failing makes initialize return false and the *)
(* thread ends.                                                           *)
InitConnect ==
  /\ wstate = "connecting"
  /\ \/ wstate' = "failed"
     \/ wstate' = "pinging"
  /\ UNCHANGED <<mask_first, active, busy, query, inflight, result, main_ev, main_pc,
                 main_res, submitted, delivered, consumed,
                 ready_calls>>

(* initialize() ping loop, ping() = 0: connected, wakeup_main(S_READY).  *)
InitPingOk ==
  /\ wstate = "pinging"
  /\ main_ev' = main_ev \cup {S_READY}
  /\ wstate' = "idle"
  /\ UNCHANGED <<mask_first, active, busy, query, inflight, result, main_pc, main_res, submitted, delivered, consumed, ready_calls>>

(* ping() > 0: disconnect() and initialize returns false.  ping() < 0    *)
(* sleeps and loops while active(); once stopped the loop ends and       *)
(* initialize returns true without S_READY.  (ping() < 0 while active is *)
(* a step that changes nothing.)                                         *)
InitPingEnd ==
  /\ wstate = "pinging"
  /\ \/ wstate' = "failed"
     \/ /\ ~active
        /\ wstate' = "idle"
  /\ UNCHANGED <<mask_first, active, busy, query, inflight, result, main_ev, main_pc,
                 main_res, submitted, delivered, consumed,
                 ready_calls>>

(* Thread loop: the condition-variable wait ends on wakeup(S_DATA) or on *)
(* the start(5000000) timeout; the thread marks itself busy and calls     *)
(* routine().                                                             *)
WorkerWake ==
  /\ wstate = "idle" /\ active
  /\ busy' = TRUE
  /\ wstate' = "routine"
  /\ UNCHANGED <<mask_first, active, query, inflight, result, main_ev, main_pc,
                 main_res, submitted, delivered, consumed,
                 ready_calls>>

(* routine(): ping() fails, return and wait for the next timeout.        *)
RoutinePingFail ==
  /\ wstate = "routine"
  /\ busy' = FALSE
  /\ wstate' = "idle"
  /\ UNCHANGED <<mask_first, active, query, inflight, result, main_ev, main_pc,
                 main_res, submitted, delivered, consumed,
                 ready_calls>>

(* routine(): ping() succeeds, lock and enter the drain loop.            *)
RoutinePingOk ==
  /\ wstate = "routine"
  /\ wstate' = "drain"
  /\ UNCHANGED <<mask_first, active, busy, query, inflight, result, main_ev, main_pc,
                 main_res, submitted, delivered, consumed,
                 ready_calls>>

(* Under the lock: pop the front query, construct its result, unlock.    *)
RoutineTake ==
  /\ wstate = "drain" /\ query # <<>>
  /\ inflight' = Head(query)
  /\ query' = Tail(query)
  /\ wstate' = "command"
  /\ UNCHANGED <<mask_first, active, busy, result, main_ev, main_pc, main_res, submitted, delivered, consumed, ready_calls>>

(* Mutant: the result is pushed without wakeup_main(S_DATA).          *)
DoCommandNoWake ==
  /\ wstate = "command"
  /\ result' = Append(result, NewResult(inflight))
  /\ inflight' = NONE
  /\ wstate' = "drain"
  /\ UNCHANGED <<mask_first, active, busy, query, main_ev, main_pc, main_res,
                 submitted, delivered, consumed, ready_calls>>

(* do_command runs unlocked (it returns true for every query type the     *)
(* submitters build); lock, destroy the query, push the result and        *)
(* wakeup_main(S_DATA).                                                  *)
DoCommand ==
  /\ wstate = "command"
  /\ result' = Append(result, NewResult(inflight))
  /\ main_ev' = main_ev \cup {S_DATA}
  /\ inflight' = NONE
  /\ wstate' = "drain"
  /\ UNCHANGED <<mask_first, active, busy, query, main_pc, main_res,
                 submitted, delivered, consumed, ready_calls>>

(* The drain loop finds _query empty: unlock, return; the thread clears  *)
(* its busy mark.                                                         *)
RoutineDone ==
  /\ wstate = "drain" /\ query = <<>>
  /\ busy' = FALSE
  /\ wstate' = "idle"
  /\ UNCHANGED <<mask_first, active, query, inflight, result, main_ev, main_pc,
                 main_res, submitted, delivered, consumed,
                 ready_calls>>

(* The thread loop sees it was stopped: uninitialize() disconnects and the*)
(* thread ends; queries still queued are left for ~LMongo to destroy.    *)
WorkerExit ==
  /\ wstate = "idle" /\ ~active
  /\ wstate' = "stopped"
  /\ UNCHANGED <<mask_first, active, busy, query, inflight, result, main_ev, main_pc,
                 main_res, submitted, delivered, consumed,
                 ready_calls>>

-----------------------------------------------------------------------------
Init ==
  /\ mask_first \in MaskOrders
  /\ active = FALSE
  /\ wstate = "unstarted"
  /\ busy = FALSE
  /\ query = <<>>
  /\ inflight = NONE
  /\ result = <<>>
  /\ main_ev = {}
  /\ main_pc = "idle"
  /\ main_res = NONE
  /\ submitted = <<>>
  /\ delivered = <<>>
  /\ consumed = 0
  /\ ready_calls = 0

MainStep ==
  \/ Start \/ Stop \/ (\E q \in Qids : Submit(q))
  \/ MainRoutineBegin \/ MainPop \/ MainOnResult \/ MainDrainEnd
  \/ MainClearMask

WorkerStep ==
  \/ InitConnect \/ InitPingOk \/ InitPingEnd \/ WorkerWake
  \/ RoutinePingFail \/ RoutinePingOk \/ RoutineTake \/ DoCommand
  \/ RoutineDone \/ WorkerExit

Next == MainStep \/ WorkerStep

Spec == Init /\ [][Next]_vars

(* The main thread is never stuck inside main_routine; the worker thread *)
(* always continues (its wait has a timeout); the database answers a ping*)
(* infinitely often if it is asked infinitely often.                     *)
Fairness ==
  /\ WF_vars(MainRoutineBegin) /\ WF_vars(MainPop) /\ WF_vars(MainOnResult)
  /\ WF_vars(MainDrainEnd) /\ WF_vars(MainClearMask)
  /\ WF_vars(InitConnect) /\ WF_vars(InitPingOk \/ InitPingEnd)
  /\ WF_vars(WorkerWake) /\ WF_vars(RoutineTake) /\ WF_vars(DoCommand)
  /\ WF_vars(RoutineDone) /\ WF_vars(WorkerExit)
  /\ WF_vars(RoutinePingOk \/ RoutinePingFail) /\ SF_vars(RoutinePingOk)

FairSpec == Spec /\ Fairness

-----------------------------------------------------------------------------
TypeOK ==
  /\ mask_first \in BOOLEAN /\ active \in BOOLEAN /\ busy \in BOOLEAN
  /\ wstate \in WorkerStates
  /\ query \in Seq(Query) /\ result \in Seq(Query)
  /\ inflight \in Query /\ main_res \in Query
  /\ main_ev \subseteq {S_READY, S_DATA}
  /\ main_pc \in {"idle", "drain", "callback", "clear"}
  /\ submitted \in Seq(Query) /\ delivered \in Seq(1..MaxQueries)
  /\ consumed \in 0..MaxQueries /\ ready_calls \in Nat

(* The sn of the submitted queries that carry a callback, in order.      *)
Callbacks == [i \in 1..Len(SelectSeq(submitted, LAMBDA q : q.qid # 0)) |->
                SelectSeq(submitted, LAMBDA q : q.qid # 0)[i].sn]

(* Results reach the script at most once each, only for queries with a   *)
(* non-zero qid, and in submission order: the main thread's on_result    *)
(* calls are a prefix of the callback-carrying submissions, across the   *)
(* lock hand-offs of routine() and main_routine() and nested submits.    *)
FifoDelivery == IsPrefix(delivered, Callbacks)

(* busy_job() read from the main loop reports zero only when every       *)
(* submitted query has been run and its result handled: it may be used  *)
(* to wait for quiescence before shutdown (spec 4.8).                    *)
QuiescenceSound ==
  (main_pc = "idle" /\ BusyJob = 0) => consumed = Len(submitted)

(* on_ready reaches the script before any on_result does.               *)
ReadyBeforeResult == delivered # <<>> => ready_calls >= 1

(* Every submitted query is eventually answered (its result handled by  *)
(* main_routine) unless the worker gave up or was stopped.              *)
EventuallyAnswered ==
  \A i \in 1..MaxQueries :
    (Len(submitted) >= i) ~> (consumed >= i \/ wstate \in {"failed", "stopped"})

(* With the Reactor taking and clearing a worker's bits before it calls  *)
(* main_routine, every submitted query is eventually answered unless the *)
(* worker gave up or was stopped: no wake-up posted by DoCommand is lost.*)
AnsweredWhenClearedFirst == mask_first => EventuallyAnswered
====
