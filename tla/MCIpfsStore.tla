----------------------------- MODULE MCIpfsStore -----------------------------
(* Instances of IpfsStore for TLC. *)
EXTENDS IpfsStore, TLC

CONSTANTS a, b,                \* callers
          x, y, f              \* blocks; f is a file manifest with chunk x

Pair        == {a, b}
Solo        == {a}
WithFile    == {x, f}
ThreeBlocks == {x, y, f}
OneFile     == {f}
FileOfX     == f :> {x}

\* Blocks without bytes keep the counter of bytes out of the state space.
FreeSizes  == [c \in WithFile |-> 0]
Uneven     == (x :> 1) @@ (y :> 2) @@ (f :> 1)

\* One caller adds and reads while the other pins, collects and closes.
Concurrent == (a :> {"add_unpinned", "add_file", "get"}) @@ (b :> {"gc", "stop", "pin"})
\* One caller makes every call, one after the other.
Sequential == a :> {"add", "add_file", "pin", "unpin", "gc", "stop"}
=============================================================================
