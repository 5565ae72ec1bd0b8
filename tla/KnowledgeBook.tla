---------------------------- MODULE KnowledgeBook ----------------------------
(***************************************************************************)
(* What the knowledge ledger promises its readers: it is a book that is     *)
(* only written on.  No entry is taken out or changed; an entry may end, and *)
(* may be opened again.  Each publication is the next revision: it opens     *)
(* entries of facts that none in force has, each fact once.                 *)
(***************************************************************************)
EXTENDS Naturals, Sequences, Functions

CONSTANT Fact

VARIABLES
  revision,
  book,      \* the fact of each entry
  ended      \* the entries that no longer hold

vars == <<revision, book, ended>>

InForce == DOMAIN book \ ended

Init == revision = 1 /\ book = <<>> /\ ended = {}

Publish ==
  LET opened == InForce' \ InForce
  IN  /\ book' \in Seq(Fact)
      /\ DOMAIN book \subseteq DOMAIN book' /\ Restrict(book', DOMAIN book) = book
      /\ ended' \subseteq DOMAIN book
      /\ IsInjective(Restrict(book', opened))
      /\ \A i \in InForce, j \in opened : book[i] # book'[j]
      /\ revision' = revision + 1

Spec == Init /\ [][Publish]_vars

=============================================================================
