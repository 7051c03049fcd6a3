------------------------------- MODULE Lists -------------------------------
(***************************************************************************)
(* What core::Vector stands for everywhere in the program: lists that are  *)
(* created, changed one element at a time, copied, moved and destroyed.    *)
(* An operation is called and later takes effect, or does so at once.      *)
(***************************************************************************)
EXTENDS Integers, SequencesExt

CONSTANTS
  Names,    \* the lists
  Values,   \* their elements
  Default,  \* the element a list of a given length is made of
  Sizes,    \* the lengths a list is created with, besides none
  MaxSize   \* bound: the positions of an element

VARIABLES
  list,     \* per name: whether the list exists, and its elements
  call      \* the operation that was called and has not taken effect

Dead     == [live |-> FALSE, elements |-> <<>>]
Alive(s) == [live |-> TRUE, elements |-> s]
NoCall   == [op |-> "none"]

Calls ==
  [op : {"sized"}, v : Names, size : Sizes \cup {0}]
    \cup [op : {"copy", "move"}, v : Names, w : Names]
    \cup [op : {"push"}, v : Names, x : Values]
    \cup [op : {"remove"}, v : Names, k : 1..MaxSize]
    \cup [op : {"pop", "clear", "destroy"}, v : Names]

Becomes(n, s) == list' = [list EXCEPT ![n] = Alive(s)]

\* What the operation does.
Apply(c) ==
  LET s == list[c.v].elements
  IN  \/ c.op = "sized" /\ Becomes(c.v, [i \in 1..c.size |-> Default])
      \/ c.op = "copy" /\ list' = [list EXCEPT ![c.v] = list[c.w]]
      \/ c.op = "move" /\ list' = [list EXCEPT ![c.v] = list[c.w], ![c.w] = Alive(<<>>)]
      \/ c.op = "push" /\ Becomes(c.v, Append(s, c.x))
      \/ c.op = "remove" /\ c.k \in DOMAIN s /\ Becomes(c.v, RemoveAt(s, c.k))
      \/ c.op = "pop" /\ s # <<>> /\ Becomes(c.v, Front(s))
      \/ c.op = "clear" /\ Becomes(c.v, <<>>)
      \/ c.op = "destroy" /\ list' = [list EXCEPT ![c.v] = Dead]

\* Only a list that is not there is created, the others are.
Legal(c) ==
  /\ c.op = "sized" => ~list[c.v].live
  /\ c.op \notin {"sized", "copy", "move"} => list[c.v].live
  /\ c.op \in {"copy", "move"} => c.v # c.w /\ list[c.w].live

Init == list = [n \in Names |-> Dead] /\ call = NoCall

Next ==
  \/ call = NoCall /\ \E c \in Calls : Legal(c) /\ call' = c /\ UNCHANGED list
  \/ call = NoCall /\ \E c \in Calls : Legal(c) /\ Apply(c) /\ UNCHANGED call
  \/ call # NoCall /\ Apply(call) /\ call' = NoCall

Spec == Init /\ [][Next]_<<list, call>>
=============================================================================
