--------------------------- MODULE ExactPartition ---------------------------
(***************************************************************************)
(* What an e-graph promises, without its data structure: a set of          *)
(* mathematical terms and an equivalence relation on it that grows only by *)
(* identifying two terms of one numeric domain.  Nothing is ever forgotten *)
(* or separated again.                                                     *)
(***************************************************************************)
CONSTANTS
  Term,      \* semantic hashes of mathematical documents
  DomainOf   \* the numeric domain each term declares (or a "none" value)

VARIABLES
  terms,     \* the terms known so far
  same       \* the pairs of terms considered exactly equal

pvars == <<terms, same>>

PInit == terms = {} /\ same = {}

\* A new term is equal to itself only.
Learn(t) ==
  /\ t \in Term \ terms
  /\ terms' = terms \cup {t}
  /\ same' = same \cup {<<t, t>>}

\* Two terms of one domain become equal, and with them their whole classes.
Identify(a, b) ==
  /\ a \in terms /\ b \in terms
  /\ DomainOf[a] = DomainOf[b]
  /\ same' = same \cup
       {xy \in terms \X terms :
          \/ <<xy[1], a>> \in same /\ <<b, xy[2]>> \in same
          \/ <<xy[1], b>> \in same /\ <<a, xy[2]>> \in same}
  /\ UNCHANGED terms

\* A new term comes with one it is equal to, and joins its class.
LearnAs(t, a) ==
  /\ t \in Term \ terms /\ a \in terms
  /\ DomainOf[t] = DomainOf[a]
  /\ terms' = terms \cup {t}
  /\ LET class == {t} \cup {x \in terms : <<x, a>> \in same}
     IN  same' = same \cup ({t} \X class) \cup (class \X {t})

PNext ==
  \/ \E t \in Term : Learn(t)
  \/ \E t \in Term, a \in terms : LearnAs(t, a)
  \/ \E a, b \in terms : Identify(a, b)

PSpec == PInit /\ [][PNext]_pvars
=============================================================================
