------------------------------ MODULE LuaClass ------------------------------
(***************************************************************************)
(* Object lifetime under the Lua class binding of                          *)
(* src/master/lua_cpp/lclass.h, for one class T.  A userdata holds a T*.   *)
(* cnew (the class's __call) creates the object and hands it to Lua;      *)
(* push(L, obj, gc) wraps an object of the C++ side, and with gc == false  *)
(* records the userdata in the weak-keyed table _notgc of the class's      *)
(* metatable, creating that table on first use, so that __gc leaves the    *)
(* object alone.  __gc (gc) deletes *ptr unless the metatable has _notgc   *)
(* and _notgc[userdata] is not true.                                       *)
(*                                                                         *)
(* Ownership follows push's comment: gc == true, like cnew, gives the      *)
(* object to Lua (pushed so at most once); gc == false leaves it with C++, *)
(* which may push it again.  The Lua stack, the metatable's other fields  *)
(* and method calls (fun_thunk) change no ownership and are left out.     *)
(***************************************************************************)
EXTENDS Naturals, Sequences

CONSTANTS
  Objs,      \* the objects of class T
  CppObjs,   \* those that exist on the C++ side from the start
  MaxUds,    \* bound on the number of userdata created
  NULL

ASSUME CppObjs \subseteq Objs /\ MaxUds \in Nat

VARIABLES
  has_notgc, \* the class metatable has a _notgc table
  uds,       \* userdata: [obj, ptr (the T* it holds), entry (_notgc[ud]),
             \*            st: "live", "dead" (unreachable), "finalized"]
  owner,     \* per object: "none" (not created), "cpp" or "lua"
  deleted    \* objects deleted by __gc

vars == <<has_notgc, uds, owner, deleted>>

NewUd(o, entry) == [obj |-> o, ptr |-> o, entry |-> entry, st |-> "live"]

-----------------------------------------------------------------------------
(* cnew: T *obj = new T(); a userdata holding obj, with the class          *)
(* metatable and no _notgc entry.                                          *)
Cnew(o) ==
  /\ owner[o] = "none" /\ o \notin CppObjs
  /\ Len(uds) < MaxUds
  /\ owner' = [owner EXCEPT ![o] = "lua"]
  /\ uds' = Append(uds, NewUd(o, NULL))
  /\ UNCHANGED <<has_notgc, deleted>>

(* push(L, obj, gc): a userdata holding obj; unless gc, subtable() makes  *)
(* sure _notgc exists and _notgc[userdata] = false is set.  The caller     *)
(* hands an object to Lua (gc == true) only while no userdata of it        *)
(* exists: one wrapped before would dangle once __gc deletes it.          *)
Push(o, gc) ==
  /\ owner[o] = "cpp"
  /\ gc => \A i \in 1..Len(uds) : uds[i].obj # o
  /\ Len(uds) < MaxUds
  /\ IF gc
     THEN /\ owner' = [owner EXCEPT ![o] = "lua"]
          /\ uds' = Append(uds, NewUd(o, NULL))
          /\ UNCHANGED has_notgc
     ELSE /\ has_notgc' = TRUE
          /\ uds' = Append(uds, NewUd(o, FALSE))
          /\ UNCHANGED owner
  /\ UNCHANGED deleted

(* The script drops its last reference to a userdata.                     *)
Drop(i) ==
  /\ uds[i].st = "live"
  /\ uds' = [uds EXCEPT ![i].st = "dead"]
  /\ UNCHANGED <<has_notgc, owner, deleted>>

(* The collector runs __gc on an unreachable userdata: with a _notgc      *)
(* table in the metatable and _notgc[ud] false or nil, return at once;    *)
(* otherwise delete *ptr if not NULL and set *ptr = NULL.                 *)
Gc(i) ==
  /\ uds[i].st = "dead"
  /\ IF has_notgc /\ uds[i].entry # TRUE
     THEN /\ uds' = [uds EXCEPT ![i].st = "finalized"]
          /\ UNCHANGED deleted
     ELSE /\ uds' = [uds EXCEPT ![i].st = "finalized", ![i].ptr = NULL]
          /\ deleted' = IF uds[i].ptr # NULL THEN deleted \cup {uds[i].ptr}
                                             ELSE deleted
  /\ UNCHANGED <<has_notgc, owner>>

Init ==
  /\ has_notgc = FALSE
  /\ uds = <<>>
  /\ owner = [o \in Objs |-> IF o \in CppObjs THEN "cpp" ELSE "none"]
  /\ deleted = {}

Next ==
  \/ \E o \in Objs : Cnew(o) \/ \E gc \in BOOLEAN : Push(o, gc)
  \/ \E i \in 1..Len(uds) : Drop(i) \/ Gc(i)

Spec == Init /\ [][Next]_vars

-----------------------------------------------------------------------------
(* An object Lua owns (made by cnew or pushed with gc == true) is deleted *)
(* when the collector finalizes its userdata, whatever other objects of  *)
(* the class were pushed with gc == false before.                         *)
LuaOwnedFreed ==
  \A i \in 1..Len(uds) :
    (uds[i].st = "finalized" /\ owner[uds[i].obj] = "lua") => uds[i].obj \in deleted
====
