------------------------------- MODULE Movers -------------------------------
(***************************************************************************)
(* The client program of the disk manager, moverBody of pingpong-disco2.c: *)
(* NUMTASKS tasks that together turn the disk end for end, each swapping   *)
(* its share of blocks with two buffers of its own.                        *)
(***************************************************************************)
EXTENDS Integers, Sequences

CONSTANTS numblocks, NUMTASKS

blocksPerTask == (numblocks \div NUMTASKS) \div 2

buffer1(n) == << n, 1 >>
buffer2(n) == << n, 2 >>

disk_block_read(b, buf)  == [op_type |-> "READ",  block |-> b, buffer |-> buf]
disk_block_write(b, buf) == [op_type |-> "WRITE", block |-> b, buffer |-> buf]

(* One iteration of its loop. *)
Swap(n, orig, dest) ==
  << disk_block_read(orig, buffer1(n)), disk_block_read(dest, buffer2(n)),
     disk_block_write(dest, buffer1(n)), disk_block_write(orig, buffer2(n)) >>

(* The calls of mover n, counted from 0: four for each iteration. *)
moverBody(n) ==
  [k \in 1..(4 * blocksPerTask) |->
     LET i == (k - 1) \div 4
     IN Swap(n, n * blocksPerTask + i,
             numblocks - 1 - (n * blocksPerTask) - i)[((k - 1) % 4) + 1]]
=============================================================================
