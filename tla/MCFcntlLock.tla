---------------------------- MODULE MCFcntlLock ----------------------------
EXTENDS FcntlLock, Sequences

(* Blocking and non-blocking requests for either block or both.             *)
LockCall(cmd, type, range, whence) ==
    [cmd |-> cmd, type |-> type, range |-> range, whence |-> whence]
CallList == <<LockCall("w", "r", {0}, ""), LockCall("w", "w", {0, 1}, ""),
              LockCall("s", "w", {0}, ""), LockCall("s", "u", {0}, ""),
              LockCall("g", "w", {1}, ""), LockCall("w", "w", {}, ""),
              LockCall("w", "w", {1}, "e")>>
Calls == {CallList[k] : k \in DOMAIN CallList}
Number(a) == CHOOSE k \in DOMAIN CallList : CallList[k] = a

CallsWithWhence ==
    [cmd : Command, type : {"w"}, range : {{1}}, whence : {"", "s", "c", "e"}]
=============================================================================
