------------------------------ MODULE MCMQueue ------------------------------
(* Instances of MQueue for TLC.                                            *)
EXTENDS MQueue, TLC

CONSTANTS p1, p2, p3

Args(oflag, rdwr, attr) == [oflag |-> oflag, rdwr |-> rdwr, attr |-> attr]
Create == Args({"O_CREAT"}, TRUE, "block")
Plain  == Args({}, TRUE, "null")
Exclusive == Args({"O_CREAT", "O_EXCL"}, FALSE, "nonblock")
Invalid == Args({"O_CREAT"}, TRUE, "invalid")

(* Every path through mq_open.                                             *)
AllPaths == p1 :> {Create, Exclusive} @@ p2 :> {Create, Plain, Invalid}

(* The two ways in which the repository's tests open a queue.              *)
CreateOrPlain == [p \in Proc |-> {Create, Plain}]

JustCreate == [p \in Proc |-> {Create}]

SymInodes == Permutations(Inode)
=============================================================================
