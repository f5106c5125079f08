------------------------------- MODULE PidMap -------------------------------
(***************************************************************************)
(* The key under which src/parser.c keeps a PID in the context's hash map: *)
(* a uint32_t with the mode in its upper and the PID in its lower half.    *)
(* A key is written here as the pair of its halves, and the map is a       *)
(* function from keys to entries.                                          *)
(***************************************************************************)
EXTENDS Integers, FiniteSetsExt

HALF == 65536  \* the values of half a key

\* a | b on half a key.
LOCAL Bits(n) == {k \in 0..15 : (n \div 2^k) % 2 = 1}

Or(a, b) == IF b = 0 THEN a ELSE SumSet({2^k : k \in Bits(a) \cup Bits(b)})

\* A number that is stored in a yobd_mode, which is one byte wide.  A yobd_pid
\* is as wide as the machine likes: it holds whatever it is given.
ToMode(n) == n % 256

\* Mutant: the mode is forgotten.
PidOnly(mode, pid) == << 0, pid % HALF >>

\* (mode << 16) | pid: nothing keeps a PID of more than 16 bits out of the
\* upper half.
get_modepid(mode, pid) == << Or(mode, (pid \div HALF) % HALF), pid % HALF >>

get_mode(modepid) == ToMode(modepid[1])

get_pid(modepid) == modepid[2]
=============================================================================
