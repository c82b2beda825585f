------------------------------- MODULE Seed -------------------------------
(***************************************************************************)
(* custom_wc_GenerateSeed, which fills wolfSSL's seed from the hardware    *)
(* random number generator: by whole words where the output is aligned and *)
(* a word fits, and by single bytes elsewhere.                             *)
(*                                                                         *)
(* Memory is an array of bytes with the output somewhere in it, at any     *)
(* alignment; what the generator has not written is "old".                 *)
(***************************************************************************)
EXTENDS Integers

CONSTANTS
    Word,    \* sizeof(word32)
    Memory,  \* bytes of memory
    MaxBase, \* bound: the first address of the output
    MaxSize  \* bound: its size

ASSUME SeedAssumption ==
    /\ Word \in Nat \ {0}
    /\ Memory \in Nat /\ MaxBase \in Nat /\ MaxSize \in Nat
    /\ MaxBase + MaxSize < Memory

VARIABLES
    output,  \* the address of the output
    sz,      \* its size
    mem,     \* memory
    i,       \* the bytes filled
    ret      \* the return value: "none" so far, 0, -1, or -105

seed_vars == <<output, sz, mem, i, ret>>

-----------------------------------------------------------------------------
Addresses == 0 .. Memory - 1

SeedInit ==
    /\ output \in 0 .. MaxBase
    /\ sz \in 0 .. MaxSize
    /\ mem = [a \in Addresses |-> "old"]
    /\ i = 0
    /\ ret = "none"

(* The function is called, again or for the first time. *)
NewCall ==
    /\ output' \in 0 .. MaxBase
    /\ sz' \in 0 .. MaxSize
    /\ mem' = [a \in Addresses |-> "old"]
    /\ i' = 0
    /\ ret' = "none"

Call == ret # "none" /\ NewCall

Refuse ==
    /\ ret = "none" /\ i = 0 /\ sz = 0
    /\ ret' = "-1"
    /\ UNCHANGED <<output, sz, mem, i>>

\* mutant: only the alignment is looked at
SingleAligned == (output + i) % Word # 0

(* Not a word: the rest is too short, or the address is not aligned. *)
Single == i + Word > sz \/ (output + i) % Word # 0

(* HAL_RNG_GenerateRandomNumber into the n bytes at the output's i-th *)
Generate(n) ==
    /\ mem' = [a \in Addresses |-> IF a \in output + i .. output + i + n - 1
                                   THEN "random" ELSE mem[a]]
    /\ i' = i + n
    /\ UNCHANGED <<output, sz, ret>>

Busy == ret = "none" /\ i < sz

\* mutant: a byte that is not aligned is passed over
OneSkips == Busy /\ Single /\ i' = i + 1 /\ UNCHANGED <<output, sz, mem, ret>>

One == Busy /\ Single /\ Generate(1)

Four == Busy /\ ~Single /\ Generate(Word)

(* The generator fails, at any number. *)
Fail ==
    /\ Busy
    /\ ret' = "-105"
    /\ UNCHANGED <<output, sz, mem, i>>

Done ==
    /\ ret = "none" /\ sz # 0 /\ i >= sz
    /\ ret' = "0"
    /\ UNCHANGED <<output, sz, mem, i>>

SeedNext == Call \/ Refuse \/ One \/ Four \/ Fail \/ Done

SeedSpec == SeedInit /\ [][SeedNext]_seed_vars

-----------------------------------------------------------------------------
SeedTypeOK ==
    /\ output \in 0 .. MaxBase /\ sz \in 0 .. MaxSize
    /\ mem \in [Addresses -> {"old", "random"}]
    /\ i \in 0 .. Memory
    /\ ret \in {"none", "0", "-1", "-105"}

(* No byte outside the output is written, at any alignment and size: the last word
   does not reach beyond it (main.c:137).                                  *)
OnlyTheOutput ==
    \A a \in Addresses : mem[a] = "random" => a \in output .. output + sz - 1

(* Success means that every byte of the output is random: none is left as it was
   for wolfSSL to take as seed (main.c:135-157).                           *)
EveryByte ==
    ret = "0" => \A a \in output .. output + sz - 1 : mem[a] = "random"

(* A seed is filled exactly: nothing outside it, and all of it when the call succeeds
   (main.c:135-157).                                                       *)
FilledExactly == OnlyTheOutput /\ EveryByte
=============================================================================
