\* Objects owned by Lua once another object of the class was pushed with gc = false.
CONSTANTS
  c1 = c1
  c2 = c2
  l1 = l1
  Objs <- MCObjs
  CppObjs <- MCCppObjs
  MaxUds = 3
  NULL = NULL
SPECIFICATION Spec
INVARIANT LuaOwnedFreed
CHECK_DEADLOCK FALSE
