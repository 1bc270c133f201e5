---------------------------- MODULE MCPosixTimer ----------------------------
(* Instances of PosixTimer for TLC. *)
EXTENDS PosixTimer
CONSTANTS t1, t2

(* Timespecs in units of half a microsecond (NSEC = 2).                    *)
Ts(s, n) == [sec |-> s, nsec |-> n]
OneShot == {Ts(0, 0)}
Period == {Ts(0, 4)}
SomeTimes == {Ts(0, 4), Ts(0, 9)}
ShortOrLong == {Ts(0, 4), Ts(1, 3)}
ZeroOrShort == {Ts(0, 0), Ts(0, 4)}

Sym == Permutations(Timer)
=============================================================================
