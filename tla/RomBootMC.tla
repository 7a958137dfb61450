----------------------------- MODULE RomBootMC -----------------------------
(* Media for RomBoot: sectors of two bytes, SRAM of eight blocks.          *)
EXTENDS RomBoot

Data(id) ==
    [id |-> id, ee |-> FALSE, gpt |-> "none", partition_entry_lba |-> 0,
     num_partition_entries |-> 0, sizeof_partition_entry |-> 0,
     nsih |-> FALSE, LoadSize |-> 0]
Mbr(id) == [Data(id) EXCEPT !.ee = TRUE]
Nsih(id, size) == [Data(id) EXCEPT !.nsih = TRUE, !.LoadSize = size]
\* A GPT header with two entries of one byte each in sector 2.
Gpt(id, valid) ==
    [Data(id) EXCEPT !.gpt = valid, !.partition_entry_lba = 2,
        !.num_partition_entries = 2, !.sizeof_partition_entry = 1]

\* A medium, from the sequence of its sectors.
Sectors(s) == [i \in 0 .. (CHOOSE n \in 0 .. 9 : DOMAIN s = 1 .. n) - 1
                 |-> s[i + 1]]

Plain == Sectors(<<Data("p0"), Nsih("p1", 3), Data("p2"), Data("p3")>>)
Partitioned ==
    Sectors(<<Mbr("g0"), Gpt("g1", "ok"), Data("g2"), Nsih("g3", 4),
              Data("g4"), Data("g5")>>)
\* A GPT header whose CRC is wrong.
Damaged ==
    Sectors(<<Mbr("d0"), Gpt("d1", "bad"), Data("d2"), Nsih("d3", 2),
              Data("d4")>>)
\* Type 0xee, but the boot header in place of the GPT header.
Hybrid == Sectors(<<Mbr("h0"), Nsih("h1", 2), Data("h2")>>)
\* No type 0xee, so the GPT header is looked at as a boot header.
Unmarked ==
    Sectors(<<Data("u0"), Gpt("u1", "ok"), Data("u2"), Nsih("u3", 2),
              Data("u4")>>)
\* Ends before its image does.
Short == Sectors(<<Data("s0"), Nsih("s1", 4), Data("s2")>>)
\* Image of exactly the 12 bytes that are left beside the stack.
Full ==
    Sectors(<<Data("f0"), Nsih("f1", 12), Data("f2"), Data("f3"), Data("f4"),
              Data("f5"), Data("f6"), Data("f7")>>)
Empty == Sectors(<<Data("e0")>>)

SignedFlash ==
    Sectors(<<Nsih("q0", 5), Data("q1"), Data("q2"), Data("q3"), Data("q4"),
              Data("q5"), Data("q6"), Data("q7")>>)
ErasedFlash == [i \in 0 .. 7 |-> Data("ff")]

AllDisks == {Plain, Partitioned, Damaged, Hybrid, Unmarked, Short, Empty}
BootableDisks == {Plain, Partitioned, Full}
NoDisks == {}
SignedFlashes == {SignedFlash}
AllFlashes == {SignedFlash, ErasedFlash}
=============================================================================
