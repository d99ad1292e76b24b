----------------------- MODULE MCLockFreeListContains -----------------------
(* One Contains against one goroutine that moves an element to the front.  *)
EXTENDS LockFreeListContains, MCLockFreeList

ContainsMenus == {Race({FindQ({1})}, {InsertAllQ(0, <<1>>)}, {RemoveQ({1})})}
=============================================================================
