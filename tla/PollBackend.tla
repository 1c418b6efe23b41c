----------------------------- MODULE PollBackend -----------------------------
(***************************************************************************)
(* The poll(2) backend of src/engine/src/ev/ev_poll.inl: modify() keeps a  *)
(* compact pollfd array and an fd -> slot index (a vacated slot is filled  *)
(* by the last entry, then pop_back), and wait() walks the array after     *)
(* poll() with a raw pointer, dispatching fd_event inline until ev_count   *)
(* events have been seen.  The Reactor's fd_event runs socket callbacks    *)
(* that may call modify() on any fd before the walk continues.             *)
(*                                                                         *)
(* Slot i of the code is poll_fd[i + 1]; fd_index keeps the code's values  *)
(* (-1 or a 0-based slot).  POLLERR and POLLHUP decode alike and are one   *)
(* value here.  The Reactor's watcher masks ("interest", the old_ev it     *)
(* passes) are not in the repository and follow spec 4.4.                 *)
(*                                                                         *)
(* pop_back() ends an entry's lifetime but leaves its bytes in the        *)
(* vector's storage, and resize() overwrites the first of them; "stale"  *)
(* is that storage past size(), which the walk reads once p passes the    *)
(* end.  Storage past the stale entries is uninitialised.                 *)
(***************************************************************************)
EXTENDS Integers, Sequences, FiniteSets

CONSTANTS
  Fds,              \* the descriptors sockets register
  MaxCallbackMods,  \* modify() calls one fd_event callback may make
  MaxWaits          \* bound on the number of wait() calls

VARIABLES
  fd_index,    \* EVBackend::_fd_index restricted to Fds
  poll_fd,     \* EVBackend::_poll_fd: [fd, events, revents]
  stale,       \* the popped entries still in _poll_fd's storage, nearest first
  interest,    \* the Reactor's watcher mask per fd (the old_ev it passes)
  phase,       \* "idle", "scan" (the for loop), "callback" (in fd_event),
               \* "overrun" (the walk read uninitialised storage)
  p,           \* the walk's slot, 0-based
  ev_count,    \* events poll() reported and the walk has not yet seen
  ready,       \* history: the [fd, ev] pairs poll() reported this wait
  dispatched,  \* history: the fd_event calls of this wait, in order
  cb_mods,     \* modify() calls made by the current wait's callbacks
  waits        \* number of wait() calls

vars == <<fd_index, poll_fd, stale, interest, phase, p, ev_count, ready, dispatched,
          cb_mods, waits>>

EV_READ  == "EV_READ"
EV_WRITE == "EV_WRITE"
POLLIN   == "POLLIN"
POLLOUT  == "POLLOUT"
POLLHUP  == "POLLHUP"   \* POLLERR | POLLHUP

EvMask  == SUBSET {EV_READ, EV_WRITE}
PollFd  == [fd : Fds, events : SUBSET {POLLIN, POLLOUT},
            revents : SUBSET {POLLIN, POLLOUT, POLLHUP}]

-----------------------------------------------------------------------------
(* Mutant: the WRITE bit is not translated into POLLOUT.                  *)
PollEventsNoWrite(ev) == IF EV_READ \in ev THEN {POLLIN} ELSE {}

(* modify: (new_ev & EV_READ ? POLLIN : 0) | (new_ev & EV_WRITE ? POLLOUT : 0) *)
PollEvents(ev) ==
  (IF EV_READ \in ev THEN {POLLIN} ELSE {}) \cup
  (IF EV_WRITE \in ev THEN {POLLOUT} ELSE {})

(* wait: POLLOUT|POLLERR|POLLHUP give EV_WRITE, POLLIN|POLLERR|POLLHUP     *)
(* give EV_READ.                                                           *)
Decode(rev) ==
  (IF rev \cap {POLLOUT, POLLHUP} # {} THEN {EV_WRITE} ELSE {}) \cup
  (IF rev \cap {POLLIN, POLLHUP} # {} THEN {EV_READ} ELSE {})

(* What stays readable of a popped entry: resize() value-initialises a  *)
(* reused slot, so only the walk reads it, and only fd and revents.       *)
Popped(e) == [fd |-> e.fd, revents |-> e.revents]

(* The slot an fd is given on first registration: resize(index + 1)      *)
(* value-initialises it, then its fd is set.                              *)
Registered(fi, pf, st, fd) ==
  IF fi[fd] < 0
  THEN [fi |-> [fi EXCEPT ![fd] = Len(pf)],
        pf |-> Append(pf, [fd |-> fd, events |-> {}, revents |-> {}]),
        st |-> IF st = <<>> THEN <<>> ELSE Tail(st)]
  ELSE [fi |-> fi, pf |-> pf, st |-> st]

(* Mutant: deregistration vacates the slot without pop_back.              *)
ModifyTableNoPop(fi, pf, st, fd, new) ==
  LET t == Registered(fi, pf, st, fd)
      index == t.fi[fd]
      last  == Len(t.pf) - 1
  IN  IF new # {}
      THEN [t EXCEPT !.pf[index + 1].events = PollEvents(new)]
      ELSE IF index < last
           THEN [fi |-> [t.fi EXCEPT ![fd] = -1, ![t.pf[last + 1].fd] = index],
                 pf |-> [t.pf EXCEPT ![index + 1] = t.pf[last + 1]], st |-> t.st]
           ELSE [t EXCEPT !.fi[fd] = -1]

(* Mutant: the moved entry's _fd_index is not updated.                   *)
ModifyTableNoReindex(fi, pf, st, fd, new) ==
  LET t == Registered(fi, pf, st, fd)
      index == t.fi[fd]
      last  == Len(t.pf) - 1
  IN  IF new # {}
      THEN [t EXCEPT !.pf[index + 1].events = PollEvents(new)]
      ELSE IF index < last
           THEN [fi |-> [t.fi EXCEPT ![fd] = -1],
                 pf |-> SubSeq([t.pf EXCEPT ![index + 1] = t.pf[last + 1]], 1, last),
                 st |-> <<Popped(t.pf[last + 1])>> \o t.st]
           ELSE [fi |-> [t.fi EXCEPT ![fd] = -1], pf |-> SubSeq(t.pf, 1, last),
                 st |-> <<Popped(t.pf[last + 1])>> \o t.st]

(* modify(fd, old_ev, new_ev) past its early return: register the fd if  *)
(* it has no slot; a non-empty mask sets the slot's events; an empty one *)
(* clears _fd_index[fd], moves the last entry into the slot (re-indexing *)
(* it) unless the slot is the last, and pops the back, whose bytes stay  *)
(* in the storage.                                                        *)
ModifyTable(fi, pf, st, fd, new) ==
  LET t == Registered(fi, pf, st, fd)
      index == t.fi[fd]
      last  == Len(t.pf) - 1
  IN  IF new # {}
      THEN [t EXCEPT !.pf[index + 1].events = PollEvents(new)]
      ELSE IF index < last
           THEN [fi |-> [t.fi EXCEPT ![fd] = -1, ![t.pf[last + 1].fd] = index],
                 pf |-> SubSeq([t.pf EXCEPT ![index + 1] = t.pf[last + 1]], 1, last),
                 st |-> <<Popped(t.pf[last + 1])>> \o t.st]
           ELSE [fi |-> [t.fi EXCEPT ![fd] = -1], pf |-> SubSeq(t.pf, 1, last),
                 st |-> <<Popped(t.pf[last + 1])>> \o t.st]

-----------------------------------------------------------------------------
(* The Reactor calls modify(fd, interest[fd], new) between waits or from  *)
(* inside a callback; old_ev == new_ev returns at once.                   *)
Modify(fd, new) ==
  /\ phase \in {"idle", "callback"}
  /\ phase = "callback" => cb_mods < MaxCallbackMods
  /\ new # interest[fd]
  /\ LET t == ModifyTable(fd_index, poll_fd, stale, fd, new)
     IN  fd_index' = t.fi /\ poll_fd' = t.pf /\ stale' = t.st
  /\ interest' = [interest EXCEPT ![fd] = new]
  /\ cb_mods' = IF phase = "callback" THEN cb_mods + 1 ELSE cb_mods
  /\ UNCHANGED <<phase, p, ev_count, ready, dispatched, waits>>

(* wait: poll() fills every slot's revents (a subset of its events, or an *)
(* error/hangup) and returns the number of slots with any; the walk       *)
(* starts at slot 0 if that number is positive.                           *)
Poll ==
  /\ phase = "idle" /\ waits < MaxWaits
  /\ \E rev \in [1..Len(poll_fd) -> SUBSET {POLLIN, POLLOUT, POLLHUP}] :
       /\ \A i \in 1..Len(poll_fd) : rev[i] \subseteq poll_fd[i].events \cup {POLLHUP}
       /\ poll_fd' = [i \in 1..Len(poll_fd) |-> [poll_fd[i] EXCEPT !.revents = rev[i]]]
       /\ ev_count' = Cardinality({i \in 1..Len(poll_fd) : rev[i] # {}})
       /\ ready' = {[fd |-> poll_fd[i].fd, ev |-> Decode(rev[i])] :
                      i \in {j \in 1..Len(poll_fd) : rev[j] # {}}}
       /\ phase' = IF ev_count' > 0 THEN "scan" ELSE "idle"
  /\ p' = 0 /\ dispatched' = <<>> /\ cb_mods' = 0 /\ waits' = waits + 1
  /\ UNCHANGED <<fd_index, stale, interest>>

(* What *p reads: a live slot below size(), a stale one past it.        *)
Storage == poll_fd \o stale

(* The for loop at a slot with no revents: continue (p++).                *)
ScanSkip ==
  /\ phase = "scan" /\ p < Len(Storage)
  /\ Storage[p + 1].revents = {}
  /\ p' = p + 1
  /\ UNCHANGED <<fd_index, poll_fd, stale, interest, phase, ev_count, ready,
                 dispatched, cb_mods, waits>>

(* The for loop at a slot with revents: fd_event(p->fd, events) inline.  *)
ScanDispatch ==
  /\ phase = "scan" /\ p < Len(Storage)
  /\ Storage[p + 1].revents # {}
  /\ dispatched' = Append(dispatched, [fd |-> Storage[p + 1].fd,
                                       ev |-> Decode(Storage[p + 1].revents)])
  /\ phase' = "callback"
  /\ UNCHANGED <<fd_index, poll_fd, stale, interest, p, ev_count, ready, cb_mods, waits>>

(* ev_count is still positive but p has passed the stale entries too:    *)
(* *p reads uninitialised storage.  What follows is not modelled.        *)
ScanOverrun ==
  /\ phase = "scan" /\ p >= Len(Storage)
  /\ phase' = "overrun"
  /\ UNCHANGED <<fd_index, poll_fd, stale, interest, p, ev_count, ready, dispatched,
                 cb_mods, waits>>

(* fd_event returns: ev_count--, p++, and the loop ends at ev_count = 0. *)
CallbackReturn ==
  /\ phase = "callback"
  /\ ev_count' = ev_count - 1
  /\ p' = p + 1
  /\ phase' = IF ev_count - 1 > 0 THEN "scan" ELSE "idle"
  /\ UNCHANGED <<fd_index, poll_fd, stale, interest, ready, dispatched, cb_mods, waits>>

Init ==
  /\ fd_index = [fd \in Fds |-> -1]
  /\ poll_fd = <<>> /\ stale = <<>>
  /\ interest = [fd \in Fds |-> {}]
  /\ phase = "idle" /\ p = 0 /\ ev_count = 0
  /\ ready = {} /\ dispatched = <<>> /\ cb_mods = 0 /\ waits = 0

Next ==
  \/ \E fd \in Fds, new \in EvMask : Modify(fd, new)
  \/ Poll \/ ScanSkip \/ ScanDispatch \/ ScanOverrun \/ CallbackReturn

Spec == Init /\ [][Next]_vars
-----------------------------------------------------------------------------
(* The slot table, with the stale entries left past its end, never spans *)
(* more slots than there are fds, whatever order of registrations,       *)
(* changes and removals the sockets make.                                *)
TypeOK ==
  /\ fd_index \in [Fds -> -1..(Cardinality(Fds) - 1)]
  /\ poll_fd \in Seq(PollFd)
  /\ stale \in Seq([fd : Fds, revents : SUBSET {POLLIN, POLLOUT, POLLHUP}])
  /\ Len(poll_fd) + Len(stale) <= Cardinality(Fds)
  /\ interest \in [Fds -> EvMask]
  /\ phase \in {"idle", "scan", "callback", "overrun"}
  /\ p \in Nat /\ ev_count \in Nat /\ cb_mods \in 0..MaxCallbackMods

(* _fd_index and _poll_fd stay inverse to each other through every swap *)
(* and pop of modify(), including modifies made from inside fd_event     *)
(* while wait() walks the array: each slot's fd indexes back to it, and  *)
(* an fd has an index only if some slot holds it.                        *)
IndexConsistent ==
  /\ \A i \in 1..Len(poll_fd) : fd_index[poll_fd[i].fd] = i - 1
  /\ \A fd \in Fds : fd_index[fd] >= 0 =>
        fd_index[fd] < Len(poll_fd) /\ poll_fd[fd_index[fd] + 1].fd = fd

(* What poll() is asked to watch is what the Reactor registered: an fd   *)
(* with a non-empty watcher mask has a slot whose events, read back the  *)
(* way wait() decodes them, are that mask,                               *)
(* and a deregistered fd has no slot (spec 4.4: "when interest becomes   *)
(* empty, the registration is removed").                                 *)
TableMatchesInterest ==
  \A fd \in Fds :
    IF interest[fd] = {} THEN fd_index[fd] = -1
    ELSE /\ fd_index[fd] >= 0
         /\ Decode(poll_fd[fd_index[fd] + 1].events) = interest[fd]

(* Within one wait(), fd_event is called at most once per fd, and only   *)
(* with an fd and mask poll() reported (spec 4.4: "for each fd with any   *)
(* ready events"), even when callbacks reshape the array under the walk: *)
(* the walk runs until ev_count events are seen, so an entry moved back  *)
(* past the pointer leaves ev_count positive and the walk reads on into  *)
(* the popped entries' storage.                                          *)
DispatchOnce ==
  /\ \A i \in 1..Len(dispatched) : dispatched[i] \in ready
  /\ \A i, j \in 1..Len(dispatched) :
       i # j => dispatched[i].fd # dispatched[j].fd

====
