----------------------------- MODULE MCLuaClass -----------------------------
(* Two objects the C++ side owns (pushed with or without gc) and one the *)
(* script creates through the class call.                                 *)
EXTENDS LuaClass

CONSTANTS c1, c2, l1
MCObjs == {c1, c2, l1}
MCCppObjs == {c1, c2}
====
