------------------------------ MODULE AsyncLog ------------------------------
(***************************************************************************)
(* The double-buffered log of src/engine/src/log/log.cpp.  The main thread *)
(* writes entries into _cache (write_cache, under the caller's lock); the  *)
(* log thread swaps _cache and _flush (swap), writes _flush out without    *)
(* the lock (flush) and returns the entries to their pools under the lock  *)
(* (collect_mem).  The AsyncLog thread that calls these is not in the      *)
(* repository: its loop is taken to be swap, flush, collect, as the        *)
(* comments of the three functions describe.                               *)
(*                                                                         *)
(* An entry records the sizes set_ctx deals with: its _len, the index of  *)
(* the terminator it writes, the pool (LogSize) it came from, and the file *)
(* it goes to (its _path, or the fixed path of its output type).  The text *)
(* and time are left out.                                                  *)
(*                                                                         *)
(* Faults: fopen in flush_one_file may fail (permissions, path, full disk),*)
(* and any fwrite of flush_one_ctx may fail; both are nondeterministic.    *)
(* close_files is not called in the repository; when the AsyncLog thread  *)
(* calls it is not known, so it may run between two rounds of the loop.    *)
(***************************************************************************)
EXTENDS Naturals, Sequences, SequencesExt

CONSTANTS
  CtxSize,    \* LOG_CTX_SIZE: the context size of each pool, ascending;
              \* the last is LOG_MAX_LENGTH
  Lens,       \* the lengths write_cache is called with
  MaxWrites,  \* bound on the number of write_cache calls
  Paths       \* the log files

ASSUME /\ CtxSize \in Seq(Nat \ {0}) /\ Len(CtxSize) > 0
       /\ Lens \subseteq Nat /\ MaxWrites \in Nat /\ Paths # {}

LogMax == CtxSize[Len(CtxSize)]   \* LOG_MAX_LENGTH

VARIABLES
  cache,    \* Log::_cache, entries [id, len, term, lt, path]
  flushq,   \* Log::_flush
  lpc,      \* where the log thread is: "swap", "flush", "collect"
  fpos,     \* the flush loop's iterator, 1-based
  written,  \* history: [id, len] of every write_cache that allocated
  out,      \* history: [id, ok] of every entry flush handled, ok when
            \* the whole line reached its file
  files,    \* Log::_files: the paths whose FILE* is open
  nid       \* write_cache calls so far

vars == <<cache, flushq, lpc, fpos, written, out, files, nid>>

-----------------------------------------------------------------------------
(* allocate_one's loop: the first pool whose context holds len; 0 if none.*)
RECURSIVE FirstFit(_, _)
FirstFit(len, lt) ==
  IF lt > Len(CtxSize) THEN 0
  ELSE IF len > CtxSize[lt] THEN FirstFit(len, lt + 1) ELSE lt

(* allocate_one(len): clamp len to LOG_MAX_LENGTH, take the first fit.   *)
AllocateOne(len) == FirstFit(IF len > LogMax THEN LogMax ELSE len, 1)

(* set_ctx(ctx, len) on a context of size bytes: _len is the clamped     *)
(* length, the terminator goes to _context[len].                          *)
SetCtx(id, len, lt, p) ==
  [id |-> id, lt |-> lt, term |-> len, path |-> p,
   len |-> IF len > CtxSize[lt] THEN CtxSize[lt] ELSE len]

(* Mutant: the entry is sized for len bytes, without the terminator.     *)
WriteCacheExact(len, p) ==
  /\ nid < MaxWrites
  /\ LET lt == AllocateOne(len)
     IN  /\ lt # 0
         /\ cache' = Append(cache, SetCtx(nid + 1, len, lt, p))
         /\ written' = Append(written, [id |-> nid + 1, len |-> len])
  /\ nid' = nid + 1
  /\ UNCHANGED <<flushq, lpc, fpos, out, files>>

(* Mutant: the entry is put at the front of the cache.                   *)
WriteCacheFront(len, p) ==
  /\ nid < MaxWrites
  /\ LET lt == AllocateOne(len + 1)
     IN  /\ lt # 0
         /\ cache' = <<SetCtx(nid + 1, len, lt, p)>> \o cache
         /\ written' = Append(written, [id |-> nid + 1, len |-> len])
  /\ nid' = nid + 1
  /\ UNCHANGED <<flushq, lpc, fpos, out, files>>

(* write_cache(tm, path, ctx, len, out): allocate_one(len + 1) (a NULL   *)
(* returns -1), set_ctx, push_back onto _cache.                          *)
WriteCache(len, p) ==
  /\ nid < MaxWrites
  /\ LET lt == AllocateOne(len + 1)
     IN  /\ lt # 0
         /\ cache' = Append(cache, SetCtx(nid + 1, len, lt, p))
         /\ written' = Append(written, [id |-> nid + 1, len |-> len])
  /\ nid' = nid + 1
  /\ UNCHANGED <<flushq, lpc, fpos, out, files>>

(* swap(): refused while _flush is not empty, else exchange the lists.   *)
Swap ==
  /\ lpc = "swap"
  /\ IF flushq = <<>> THEN cache' = flushq /\ flushq' = cache
                      ELSE UNCHANGED <<cache, flushq>>
  /\ lpc' = "flush" /\ fpos' = 1
  /\ UNCHANGED <<written, out, files, nid>>

(* flush_one_file(path) with flush_one_ctx: the outcomes [files, ok].    *)
(* The FILE* cached in _files[path] is used; a missing or NULL one is     *)
(* fopen'ed and the result, NULL too, cached.  NULL returns false and the *)
(* line is lost.  flush_one_ctx's fwrite errors are logged and ignored.   *)
FlushOneFile(p) ==
  LET Written(fs) == {[files |-> fs, ok |-> w] : w \in BOOLEAN}
  IN  IF p \in files THEN Written(files)
      ELSE {[files |-> files, ok |-> FALSE]} \cup Written(files \cup {p})

(* flush(), one iteration: an entry with _len 0 is skipped; otherwise it  *)
(* goes to its file, whatever the outcome, and its _len is set to 0.     *)
FlushOne ==
  /\ lpc = "flush" /\ fpos <= Len(flushq)
  /\ LET e == flushq[fpos]
     IN  IF e.len = 0 THEN UNCHANGED <<flushq, out, files>>
         ELSE /\ \E r \in FlushOneFile(e.path) :
                   /\ files' = r.files
                   /\ out' = Append(out, [id |-> e.id, ok |-> r.ok])
              /\ flushq' = [flushq EXCEPT ![fpos].len = 0]
  /\ fpos' = fpos + 1
  /\ UNCHANGED <<cache, lpc, written, nid>>

FlushEnd ==
  /\ lpc = "flush" /\ fpos > Len(flushq)
  /\ lpc' = "collect"
  /\ UNCHANGED <<cache, flushq, fpos, written, out, files, nid>>

(* collect_mem(): every entry of _flush back to its pool, then clear.   *)
CollectMem ==
  /\ lpc = "collect"
  /\ flushq' = <<>>
  /\ lpc' = "swap"
  /\ UNCHANGED <<cache, fpos, written, out, files, nid>>

(* close_files(): fclose every open FILE* and set it to NULL, keeping the *)
(* names; the next line to a path opens it again.                         *)
CloseFiles ==
  /\ lpc = "swap" /\ files # {}
  /\ files' = {}
  /\ UNCHANGED <<cache, flushq, lpc, fpos, written, out, nid>>

Init ==
  /\ cache = <<>> /\ flushq = <<>>
  /\ lpc = "swap" /\ fpos = 1
  /\ written = <<>> /\ out = <<>> /\ files = {} /\ nid = 0

Next ==
  \/ \E len \in Lens, p \in Paths : WriteCache(len, p)
  \/ Swap \/ FlushOne \/ FlushEnd \/ CollectMem \/ CloseFiles

Spec == Init /\ [][Next]_vars

(* The log thread keeps running its loop.                                *)
FairSpec == Spec /\ WF_vars(Swap \/ FlushOne \/ FlushEnd \/ CollectMem)

-----------------------------------------------------------------------------
(* The ids of the non-empty lines written, in write order.               *)
Lines == [i \in 1..Len(SelectSeq(written, LAMBDA w : w.len > 0)) |->
            SelectSeq(written, LAMBDA w : w.len > 0)[i].id]

(* Through the swaps of _cache and _flush, the unlocked flush and        *)
(* collect_mem, and whatever fopen and fwrite return, the log implements *)
(* LineQueue: flush hands the non-empty lines write_cache accepted to     *)
(* their files each once, in the order they were accepted, and every one  *)
(* eventually; a failed open neither repeats nor reorders a line.         *)
LQ == INSTANCE LineQueue WITH lines <- Lines,
                              handed <- [i \in 1..Len(out) |-> out[i].id]
RefinesLineQueue == LQ!Spec

(* set_ctx's terminator _context[len] = 0 stays inside the context of   *)
(* the pool allocate_one chose.                                          *)
CtxInBounds ==
  \A i \in 1..Len(cache) : cache[i].term < CtxSize[cache[i].lt]

====
