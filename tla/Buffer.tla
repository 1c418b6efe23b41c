-------------------------------- MODULE Buffer --------------------------------
(***************************************************************************)
(* One network Buffer: the chunk list of src/engine/src/ev/buffer.hpp with *)
(* the append/remove loops of src/master/cpp_src/net/buffer.h (the only    *)
(* definitions of Buffer::append and Buffer::remove in the repository),    *)
(* driven by its callers: IO::recv and IO::send of                         *)
(* src/engine/src/net/io/io.cpp, Socket::append, and, from spec 4.6, a     *)
(* packer that reserves before writing and a framer that consumes whole    *)
(* messages.  All of them run on the main thread, one at a time.           *)
(*                                                                         *)
(* A chunk is [beg |-> _used_pos, data |-> the bytes in [_used_pos,        *)
(* _free_pos)]; the dead bytes before _used_pos are never read again and   *)
(* are not kept.  Chunk::MAX_CTX is Cap.                                   *)
(***************************************************************************)
EXTENDS Naturals, Sequences, SequencesExt

CONSTANTS
  Bytes,        \* the byte values written (two suffice to see reordering)
  Cap,          \* Chunk::MAX_CTX, the capacity of every chunk
  ChunkMax,     \* _chunk_max, the soft bound on the number of chunks
  MaxIn,        \* bound on the bytes written into the buffer over a run
  MaxAppend,    \* longest Socket::append
  FramerLens,   \* message lengths the framer consumes
  SpanMessages  \* FALSE: messages lie in the head chunk; TRUE: any length

ASSUME /\ Cap \in Nat \ {0} /\ ChunkMax \in Nat /\ MaxIn \in Nat
       /\ MaxAppend \in Nat /\ FramerLens \subseteq Nat \ {0}
       /\ SpanMessages \in BOOLEAN

VARIABLES
  chunks,   \* _front .. _back
  out,      \* history: bytes handed to ::send or to the framer's sink
  crashed   \* remove() dereferenced a null _front

vars == <<chunks, out, crashed>>

Chunk == [beg : 0..Cap, data : BoundedSeq(Bytes, Cap)]
EmptyChunk == [beg |-> 0, data |-> <<>>]

-----------------------------------------------------------------------------
(* Chunk                                                                   *)

Used(c)  == Len(c.data)                     \* used_size: _free_pos - _used_pos
SpaceFromUsed(c) == Cap - Len(c.data)       \* mutant: MAX_CTX - used_size
Space(c) == Cap - (c.beg + Len(c.data))     \* space_size: MAX_CTX - _free_pos

(* del_used: advance _used_pos by len.                                     *)
DelUsed(c, len) == [beg |-> c.beg + len, data |-> SubSeq(c.data, len + 1, Used(c))]

(* append: copy at _free_pos and advance it (add_used).                    *)
ChunkAppend(c, bytes) == [c EXCEPT !.data = @ \o bytes]

(* clear: both positions back to 0.                                        *)
Clear(c) == EmptyChunk

-----------------------------------------------------------------------------
(* Buffer                                                                  *)

(* The pending stream: the used regions of the chunks, front to back.      *)
Content(chs) == FlattenSeq([i \in 1..Len(chs) |-> chs[i].data])

(* get_used_size: the used size of the front chunk only (0 if none).       *)
GetUsedSize(chs) == IF chs = <<>> THEN 0 ELSE Used(Head(chs))

(* check_used_size: sum the used sizes from the front until the sum       *)
(* reaches len or the chunks run out (called only when _front exists).     *)
RECURSIVE CheckUsed(_, _, _)
CheckUsed(chs, len, used) ==
  LET sum == used + Used(Head(chs))
  IN  IF Tail(chs) # <<>> /\ sum < len THEN CheckUsed(Tail(chs), len, sum)
                                      ELSE sum >= len
CheckUsedSize(chs, len) == CheckUsed(chs, len, 0)

(* is_overflow: more chunks than _chunk_max.                               *)
IsOverflow(chs) == Len(chs) > ChunkMax

(* reserved(len): no chunk yet: allocate one.  The back chunk has no space *)
(* or less than len: link a new chunk (new_chunk ignores its size         *)
(* argument) and release the front if it is empty.  len is at most Cap.  *)
Reserved(chs, len) ==
  IF chs = <<>> THEN <<EmptyChunk>>
  ELSE IF Space(Last(chs)) = 0 \/ len > Space(Last(chs))
       THEN IF Used(Head(chs)) = 0 THEN Tail(Append(chs, EmptyChunk))
                                   ELSE Append(chs, EmptyChunk)
       ELSE chs

(* append(data, len): do { reserved(); copy min(space, remaining) into the*)
(* back chunk } while bytes remain.                                        *)
RECURSIVE AppendLoop(_, _)
AppendLoop(chs, data) ==
  LET r    == Reserved(chs, 0)
      size == IF Space(Last(r)) < Len(data) THEN Space(Last(r)) ELSE Len(data)
      f    == [r EXCEPT ![Len(r)] = ChunkAppend(@, SubSeq(data, 1, size))]
  IN  IF size = Len(data) THEN f
      ELSE AppendLoop(f, SubSeq(data, size + 1, Len(data)))

(* Mutant: the exhausted front is cleared even when a chunk follows.     *)
RemoveExactClearOnly(chs) == [chs EXCEPT ![1] = Clear(@)]

(* remove(len) when the front holds exactly len bytes.                    *)
RemoveExact(chs) == IF Len(chs) > 1 THEN Tail(chs) ELSE <<Clear(Head(chs))>>

(* remove(len): the front has more than len: del_used(len).  Exactly len: *)
(* release the front if another chunk follows, else clear it.  Less: drop *)
(* the front and loop; the loop compares the next front with the original *)
(* len again.  Dropping the last chunk leaves _front null: the next      *)
(* iteration dereferences it (ok = FALSE).                                 *)
RECURSIVE RemoveLoop(_, _)
RemoveLoop(chs, len) ==
  IF chs = <<>> THEN [ok |-> FALSE, chs |-> chs]
  ELSE LET used == Used(Head(chs)) IN
       IF used > len THEN [ok |-> TRUE, chs |-> [chs EXCEPT ![1] = DelUsed(@, len)]]
       ELSE IF used = len
            THEN [ok |-> TRUE, chs |-> RemoveExact(chs)]
            ELSE RemoveLoop(Tail(chs), len)

(* Mutant: the copy takes the whole chunk, without MATH_MIN.             *)
CopyTakeAll(len, used, nu) == nu

(* The bytes one iteration copies: MATH_MIN(len - used, next_used).       *)
CopyTake(len, used, nu) == IF len - used < nu THEN len - used ELSE nu

(* check_used_ctx(len): the front holds len bytes: its used region.      *)
(* Otherwise copy min(len - used, next_used) bytes of each chunk into the *)
(* scratch buffer while adding next_used to used; the loop stops once     *)
(* used >= len and the code then asserts used == len.                      *)
RECURSIVE CopyLoop(_, _, _, _)
CopyLoop(chs, len, ctx, used) ==
  LET nu   == Used(Head(chs))
      take == CopyTake(len, used, nu)
      ctx2 == ctx \o SubSeq(Head(chs).data, 1, take)
  IN  IF Tail(chs) # <<>> /\ used + nu < len
      THEN CopyLoop(Tail(chs), len, ctx2, used + nu)
      ELSE [ctx |-> ctx2, used |-> used + nu]
CheckUsedCtx(chs, len) ==
  IF Used(Head(chs)) >= len
  THEN [ctx |-> SubSeq(Head(chs).data, 1, len), used |-> len]
  ELSE CopyLoop(chs, len, <<>>, 0)

-----------------------------------------------------------------------------
(* Callers                                                                 *)

Pending == Content(chunks)

(* The bytes written over a run stay within MaxIn.                         *)
CanTake(n) == Len(out) + Len(Pending) + n <= MaxIn

(* Socket::append: Buffer::append of the caller's bytes.                   *)
SocketAppend(data) ==
  /\ ~crashed /\ CanTake(Len(data))
  /\ chunks' = AppendLoop(chunks, data)
  /\ UNCHANGED <<out, crashed>>

(* IO::recv: reserved(); ::recv into the back chunk's space; a positive   *)
(* count is add_used_offset.  data = <<>> is a recv returning 0, an error *)
(* or EAGAIN: only the reservation remains.                                *)
IoRecv(data) ==
  /\ ~crashed /\ CanTake(Len(data))
  /\ LET r == Reserved(chunks, 0)
     IN  /\ Len(data) <= Space(Last(r))
         /\ chunks' = [r EXCEPT ![Len(r)] = ChunkAppend(@, data)]
  /\ UNCHANGED <<out, crashed>>

(* Hand msg to its reader and remove(len); a null dereference in remove() *)
(* aborts the process instead.                                             *)
TakeOut(msg, len) ==
  LET rm == RemoveLoop(chunks, len)
  IN  IF rm.ok THEN /\ out' = out \o msg
                    /\ chunks' = rm.chs
                    /\ UNCHANGED crashed
               ELSE /\ crashed' = TRUE
                    /\ UNCHANGED <<chunks, out>>

(* Mutant: after a partial ::send, remove() the whole front size.         *)
IoSendRemoveAll(k) ==
  /\ ~crashed /\ GetUsedSize(chunks) > 0
  /\ k <= GetUsedSize(chunks)
  /\ TakeOut(SubSeq(Head(chunks).data, 1, k), GetUsedSize(chunks))

(* IO::send: ::send the front chunk's used region (asserted non-empty);   *)
(* a positive count k is removed.  A send of 0, an error or EAGAIN        *)
(* changes nothing.                                                        *)
IoSend(k) ==
  /\ ~crashed /\ GetUsedSize(chunks) > 0
  /\ k <= GetUsedSize(chunks)
  /\ TakeOut(SubSeq(Head(chunks).data, 1, k), k)

(* Spec 4.6 pack(msg): reserved(len) for the whole message, serialize it  *)
(* into the back chunk's space, add_used_offset(len).                      *)
Pack(data) ==
  /\ ~crashed /\ CanTake(Len(data))
  /\ LET r == Reserved(chunks, Len(data))
     IN  chunks' = [r EXCEPT ![Len(r)] = ChunkAppend(@, data)]
  /\ UNCHANGED <<out, crashed>>

(* Spec 4.6 on_readable: a whole message of len bytes is present          *)
(* (check_used_size), it is read contiguously (check_used_ctx), handed to *)
(* the sink, and removed.                                                 *)
FramerConsume(len) ==
  /\ ~crashed /\ chunks # <<>>
  /\ SpanMessages \/ len <= GetUsedSize(chunks)
  /\ CheckUsedSize(chunks, len)
  /\ TakeOut(CheckUsedCtx(chunks, len).ctx, len)

Init == chunks = <<>> /\ out = <<>> /\ crashed = FALSE

Next ==
  \/ \E d \in BoundedSeq(Bytes, MaxAppend) : SocketAppend(d)
  \/ \E d \in BoundedSeq(Bytes, Cap) : IoRecv(d)
  \/ \E k \in 1..Cap : IoSend(k)
  \/ \E d \in BoundedSeq(Bytes, Cap) \ {<<>>} : Pack(d)
  \/ \E len \in FramerLens : FramerConsume(len)

Spec == Init /\ [][Next]_vars

-----------------------------------------------------------------------------
(* No chunk is ever written past Chunk::MAX_CTX: every copy into a chunk *)
(* (append's loop, recv into the reserved space, pack after reserved) is  *)
(* bounded by the space the back chunk has.                                *)
TypeOK ==
  /\ chunks \in Seq(Chunk)
  /\ \A i \in 1..Len(chunks) : chunks[i].beg + Used(chunks[i]) <= Cap  \* _free_pos <= MAX_CTX
  /\ out \in Seq(Bytes)
  /\ crashed \in BOOLEAN

(* The chunk list implements the byte stream of spec 4.3: whatever mix of *)
(* appends, recv fills, reservations, partial sends and message removals  *)
(* runs, the bytes leave in the order they came in, none lost or doubled. *)
BS == INSTANCE ByteStream WITH stream <- Content(chunks), out <- out
RefinesByteStream == BS!Spec

(* No chunk before the back one is empty: a pending byte is always in the *)
(* front chunk, which is all get_used_size() (IO::send's assert and the   *)
(* socket's decision to keep WRITE interest) looks at.                    *)
NoEmptyInterior == \A i \in 1..Len(chunks) - 1 : Used(chunks[i]) > 0

(* check_used_ctx(len) yields exactly the first len pending bytes, for    *)
(* every len check_used_size admits, whatever the chunk layout.           *)
ContinuousCopy ==
  \A len \in 1..Len(Pending) :
    /\ CheckUsedSize(chunks, len)
    /\ CheckUsedCtx(chunks, len).ctx = SubSeq(Pending, 1, len)

(* check_used_ctx's assert("check_used_ctx fail", used == len) holds for  *)
(* every len the framer may ask for.                                      *)
ContinuousAssert ==
  \A len \in 1..Len(Pending) : CheckUsedCtx(chunks, len).used = len
====
