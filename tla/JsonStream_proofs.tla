------------------------- MODULE JsonStream_proofs -------------------------
(***************************************************************************)
(* Proofs about JsonStream, for payloads of any length made of any pieces. *)
(*                                                                         *)
(* The argument: what the parser has made of a text depends on the places  *)
(* it has dealt with and on its mode (ReadTo), or on the lines it has      *)
(* dealt with (LinesGood).  Each turn extends that by a piece, a message   *)
(* or a line, and the whole text says the same of those places.  A wrong   *)
(* piece (WrongAt) ends what can be acceptable, whatever follows it, and   *)
(* what the messages of the text are.  So the invariant relates the state  *)
(* to the text alone, and chunks occur in the step that receives one only. *)
(*                                                                         *)
(* The ends of values are a table over the places of a text; that there is *)
(* one is shown from the end of the text towards its beginning.            *)
(***************************************************************************)
EXTENDS JsonStream, QueueLemmas, SequenceTheorems, WellFoundedInduction, TLAPS

------------------------------------------------------------------------------
(* The table of ends: there is one, and its entries lie in range *)

\* What a place may begin, and what it is for "end" to be the table of a text.
Modes == {"value", "first", "rest"}
IsEnds(end, s) == end = [j \in 1 .. Len(s) + 1 |-> [m \in Modes |-> EndAt(end, s, j, m)]]

\* Ends is such a table when there is one.
LEMMA EndsIsTable ==
  ASSUME NEW s, \E f : IsEnds(f, s)
  PROVE  IsEnds(Ends(s), s)
<1>. DEFINE E == CHOOSE end : IsEnds(end, s)
<1>1. Ends(s) = E
  BY DEF Ends, IsEnds, Modes
<1>2. IsEnds(E, s)
  OBVIOUS
<1>. HIDE DEF E
<1>. QED  BY <1>1, <1>2

\* An entry of the table.
LEMMA EntryIs ==
  ASSUME NEW s, NEW f, IsEnds(f, s), Len(s) \in Nat, NEW j \in 1 .. Len(s) + 1, NEW m \in Modes
  PROVE  f[j][m] = EndAt(f, s, j, m)
  BY DEF IsEnds

\* A set of naturals that is not empty has a least element.
LEMMA Least ==
  ASSUME NEW S \in SUBSET Nat, S # {}
  PROVE  \E m \in S : \A k \in S : m <= k
<1>1. \E x \in S : \A y \in S : ~(<<y, x>> \in OpToRel(<, Nat))
  BY NatLessThanWellFounded, WFMin
<1>2. PICK x \in S : \A y \in S : ~(<<y, x>> \in OpToRel(<, Nat))
  BY <1>1
<1>3. \A y \in S : ~(y < x)
  BY <1>2 DEF OpToRel
<1>. QED  BY <1>3

\* What holds of a place when it holds of those after it holds of every place.
LEMMA Downward ==
  ASSUME NEW n \in Nat, NEW S, \A j \in 1 .. n : (\A k \in j + 1 .. n : k \in S) => j \in S
  PROVE  1 .. n \subseteq S
<1>. DEFINE Rest == {m \in Nat : \E j \in 1 .. n : j \notin S /\ m = n - j}
<1>. SUFFICES ASSUME Rest # {} PROVE FALSE
  <2>1. ASSUME NEW j \in 1 .. n, j \notin S PROVE n - j \in Rest
    BY <2>1
  <2>. QED  BY <2>1
<1>1. PICK m \in Rest : \A k \in Rest : m <= k
  <2>1. Rest \in SUBSET Nat
    OBVIOUS
  <2>. HIDE DEF Rest
  <2>. QED  BY Least, <2>1
<1>2. PICK j \in 1 .. n : j \notin S /\ m = n - j
  BY <1>1
<1>3. ASSUME NEW k \in j + 1 .. n, k \notin S PROVE FALSE
  <2>1. n - k \in Rest
    BY <1>3
  <2>2. m <= n - k
    BY <2>1, <1>1
  <2>. QED  BY <2>2, <1>2
<1>. QED  BY <1>2, <1>3

------------------------------------------------------------------------------

\* Where a message is, and where it ends.
LEMMA MessageEndIs ==
  ASSUME NEW P, NEW s \in Seq(P), NEW i \in 1 .. Len(s)
  PROVE  /\ MessageAt(s, i) <=> s[i] = "m" \/ (s[i] = "<" /\ i < Len(s) /\ s[i + 1] = ">")
         /\ MessageAt(s, i) /\ s[i] = "m" => MessageEnd(s, i) = i + 1
         /\ MessageAt(s, i) /\ s[i] = "<" => MessageEnd(s, i) = i + 2
         /\ MessageEnd(s, i) = 0 \/ MessageEnd(s, i) \in i + 1 .. Len(s) + 1
  BY DEF MessageAt, MessageEnd

\* An end lies after its beginning; f and g are tables that agree after place i; those
\* of f lie in range there.
InRange(e, s, i) == e = 0 \/ e \in i + 1 .. Len(s) + 1
SameAfter(f, g, s, i) == \A k \in i + 1 .. Len(s) + 1 : f[k] = g[k]
RangeAfter(f, s, i) == \A k \in i + 1 .. Len(s) + 1, m \in Modes : InRange(f[k][m], s, k)

\* Where an element ends depends on the places after it alone.
LEMMA ElementLocal ==
  ASSUME NEW P, NEW s \in Seq(P), NEW i \in 1 .. Len(s), NEW f, NEW g,
         SameAfter(f, g, s, i), RangeAfter(f, s, i)
  PROVE  /\ ElementEnd(f, s, i) = ElementEnd(g, s, i)
         /\ InRange(ElementEnd(f, s, i), s, i)
<1>1. i + 1 \in i + 1 .. Len(s) + 1 /\ "first" \in Modes
  BY DEF Modes
<1>2. InRange(MessageEnd(s, i), s, i)
  BY MessageEndIs DEF InRange
<1>3. f[i + 1]["first"] = g[i + 1]["first"] /\ InRange(f[i + 1]["first"], s, i)
  BY <1>1 DEF InRange, SameAfter, RangeAfter
<1>. QED  BY <1>1, <1>2, <1>3 DEF ElementEnd, InRange

\* So does the end of a list, after one of its elements.
LEMMA ListLocal ==
  ASSUME NEW P, NEW s \in Seq(P), NEW i \in 1 .. Len(s), NEW f, NEW g,
         SameAfter(f, g, s, i), RangeAfter(f, s, i),
         NEW e, InRange(e, s, i)
  PROVE  /\ ListEnd(f, e) = ListEnd(g, e)
         /\ InRange(ListEnd(f, e), s, i)
<1>1. CASE e = 0
  BY <1>1 DEF ListEnd, InRange
<1>2. CASE e # 0
  <2>1. e \in i + 1 .. Len(s) + 1 /\ "rest" \in Modes
    BY <1>2 DEF InRange, Modes
  <2>2. f[e]["rest"] = g[e]["rest"] /\ InRange(f[e]["rest"], s, i)
    BY <2>1 DEF InRange, SameAfter, RangeAfter
  <2>. QED  BY <1>2, <2>2 DEF ListEnd
<1>. QED  BY <1>1, <1>2

\* So does an entry of the table, whatever it is an entry for.
LEMMA EndLocal ==
  ASSUME NEW P, NEW s \in Seq(P), NEW i \in 1 .. Len(s) + 1, NEW f, NEW g,
         SameAfter(f, g, s, i), RangeAfter(f, s, i),
         NEW m \in Modes
  PROVE  /\ EndAt(f, s, i, m) = EndAt(g, s, i, m)
         /\ InRange(EndAt(f, s, i, m), s, i)
<1>1. CASE i > Len(s)
  BY <1>1 DEF EndAt, InRange
<1>2. CASE i <= Len(s)
  <2>1. i \in 1 .. Len(s) /\ i + 1 \in i + 1 .. Len(s) + 1 /\ "value" \in Modes /\ ~(i > Len(s))
    BY <1>2 DEF Modes
  <2>2. ElementEnd(f, s, i) = ElementEnd(g, s, i) /\ InRange(ElementEnd(f, s, i), s, i)
    BY <2>1, ElementLocal
  <2>3. /\ ListEnd(f, ElementEnd(f, s, i)) = ListEnd(g, ElementEnd(g, s, i))
        /\ InRange(ListEnd(f, ElementEnd(f, s, i)), s, i)
    BY <2>1, <2>2, ListLocal
  <2>4. f[i + 1]["value"] = g[i + 1]["value"] /\ InRange(f[i + 1]["value"], s, i)
    BY <2>1 DEF InRange, SameAfter, RangeAfter
  <2>5. /\ ListEnd(f, f[i + 1]["value"]) = ListEnd(g, g[i + 1]["value"])
        /\ InRange(ListEnd(f, f[i + 1]["value"]), s, i)
    BY <2>1, <2>4, ListLocal
  <2>6. f[i + 1][m] = g[i + 1][m] /\ InRange(f[i + 1][m], s, i)
    BY <2>1 DEF InRange, SameAfter, RangeAfter
  <2>7. InRange(0, s, i) /\ InRange(i + 1, s, i)
    BY <2>1 DEF InRange
  <2>8. CASE s[i] \in Space
    BY <2>1, <2>6, <2>8 DEF EndAt, Space
  <2>9. CASE s[i] = "]"
    BY <2>1, <2>7, <2>9 DEF EndAt, Space
  <2>10. CASE s[i] = "comma"
    BY <2>1, <2>5, <2>7, <2>10 DEF EndAt, Space
  <2>11. CASE s[i] \notin Space \cup {"]", "comma"}
    BY <2>1, <2>2, <2>3, <2>7, <2>11 DEF EndAt, Space, Modes
  <2>. QED  BY <2>8, <2>9, <2>10, <2>11
<1>. QED  BY <1>1, <1>2

\* Induction, stated of sets.
LEMMA Induct ==
  ASSUME NEW S, 0 \in S, \A n \in Nat : n \in S => n + 1 \in S
  PROVE  Nat \subseteq S
<1>. SUFFICES ASSUME Nat \ S # {} PROVE FALSE
  OBVIOUS
<1>1. PICK m \in Nat \ S : \A k \in Nat \ S : m <= k
  BY Least
<1>2. m # 0 /\ m - 1 \in Nat
  BY <1>1
<1>3. m - 1 \in S
  BY <1>1, <1>2
<1>. QED  BY <1>1, <1>2, <1>3

\* f is right from place a on.
Tabled(f, s, a) ==
  /\ f \in [1 .. Len(s) + 1 -> [Modes -> Nat]]
  /\ \A i \in a .. Len(s) + 1, m \in Modes : f[i][m] = EndAt(f, s, i, m) /\ InRange(f[i][m], s, i)

\* A table that is right from j + 1 on can be made right at j, and so there is a table.
LEMMA ExtendTable ==
  ASSUME NEW P, NEW s \in Seq(P), NEW j \in 1 .. Len(s) + 1, NEW f, Tabled(f, s, j + 1)
  PROVE  \E g : Tabled(g, s, j)
<1>. DEFINE g == [f EXCEPT ![j] = [m \in Modes |-> EndAt(f, s, j, m)]]
<1>1. f \in [1 .. Len(s) + 1 -> [Modes -> Nat]]
  BY DEF Tabled
<1>2. ASSUME NEW i \in 1 .. Len(s) + 1, i >= j, NEW m \in Modes
      PROVE  EndAt(f, s, i, m) = EndAt(g, s, i, m) /\ InRange(EndAt(f, s, i, m), s, i)
  <2>1. SameAfter(f, g, s, i)
    BY <1>1, <1>2 DEF SameAfter
  <2>2. RangeAfter(f, s, i)
    BY <1>2 DEF Tabled, RangeAfter
  <2>. HIDE DEF g
  <2>. QED  BY <2>1, <2>2, EndLocal
<1>3. \A m \in Modes : EndAt(f, s, j, m) \in Nat
  <2>1. ASSUME NEW m \in Modes PROVE EndAt(f, s, j, m) \in Nat
    <3>1. j >= j
      OBVIOUS
    <3>2. InRange(EndAt(f, s, j, m), s, j)
      BY <1>2, <3>1
    <3>. QED  BY <3>2 DEF InRange
  <2>. QED  BY <2>1
<1>4. ASSUME NEW i \in 1 .. Len(s) + 1, i >= j, NEW m \in Modes
      PROVE  g[i][m] = EndAt(f, s, i, m)
  <2>1. CASE i = j
    BY <1>1, <2>1
  <2>2. CASE i # j
    BY <1>1, <1>4, <2>2 DEF Tabled
  <2>. QED  BY <2>1, <2>2
<1>5. g \in [1 .. Len(s) + 1 -> [Modes -> Nat]]
  BY <1>1, <1>3
<1>. HIDE DEF g
<1>6. Tabled(g, s, j)
  <2>1. ASSUME NEW i \in j .. Len(s) + 1, NEW m \in Modes
        PROVE  g[i][m] = EndAt(g, s, i, m) /\ InRange(g[i][m], s, i)
    <3>1. i \in 1 .. Len(s) + 1 /\ i >= j
      OBVIOUS
    <3>. QED  BY <3>1, <1>2, <1>4
  <2>. QED  BY <2>1, <1>5 DEF Tabled
<1>. QED  BY <1>6

LEMMA EndsExist ==
  ASSUME NEW P, NEW s \in Seq(P)
  PROVE  \E f : Tabled(f, s, 1)
<1>. DEFINE Reached == {k \in Nat : k <= Len(s) + 1 => \E f : Tabled(f, s, Len(s) + 2 - k)}
<1>1. Len(s) \in Nat
  OBVIOUS
<1>2. 0 \in Reached
  <2>1. Tabled([j \in 1 .. Len(s) + 1 |-> [m \in Modes |-> 0]], s, Len(s) + 2 - 0)
    BY <1>1 DEF Tabled
  <2>. QED  BY <2>1
<1>3. ASSUME NEW k \in Nat, k \in Reached PROVE k + 1 \in Reached
  <2>. SUFFICES ASSUME k + 1 <= Len(s) + 1 PROVE \E f : Tabled(f, s, Len(s) + 2 - (k + 1))
    OBVIOUS
  <2>1. PICK f : Tabled(f, s, Len(s) + 2 - k)
    BY <1>1, <1>3
  <2>2. /\ Len(s) + 1 - k \in 1 .. Len(s) + 1
        /\ Len(s) + 2 - k = (Len(s) + 1 - k) + 1
        /\ Len(s) + 2 - (k + 1) = Len(s) + 1 - k
    BY <1>1
  <2>3. \E g : Tabled(g, s, Len(s) + 1 - k)
    BY <2>1, <2>2, ExtendTable
  <2>. QED  BY <2>2, <2>3
<1>4. Len(s) + 1 \in Reached
  <2>. HIDE DEF Reached
  <2>. QED  BY <1>1, <1>2, <1>3, Induct
<1>. QED  BY <1>1, <1>4

\* The grammar: every entry of Ends is the end its rule says, and lies in range.
LEMMA EndsAre ==
  ASSUME NEW P, NEW s \in Seq(P)
  PROVE  \A i \in 1 .. Len(s) + 1, m \in Modes :
           Ends(s)[i][m] = EndAt(Ends(s), s, i, m) /\ InRange(Ends(s)[i][m], s, i)
<1>. DEFINE n == Len(s)
            E == Ends(s)
            Fits == {i \in 1 .. n + 1 : \A m \in Modes : InRange(E[i][m], s, i)}
<1>1. n \in Nat
  OBVIOUS
<1>2. PICK f : Tabled(f, s, 1)
  BY EndsExist
<1>3. IsEnds(f, s)
  <2>1. \A i \in 1 .. n + 1 : f[i] = [m \in Modes |-> EndAt(f, s, i, m)]
    BY <1>1, <1>2 DEF Tabled
  <2>2. f = [i \in 1 .. n + 1 |-> f[i]]
    BY <1>2 DEF Tabled
  <2>. QED  BY <2>1, <2>2 DEF IsEnds
<1>4. IsEnds(E, s)
  BY <1>3, EndsIsTable
<1>. HIDE DEF E
<1>5. \A i \in 1 .. n + 1, m \in Modes : E[i][m] = EndAt(E, s, i, m)
  BY <1>1, <1>4, EntryIs
<1>6. 1 .. n + 1 \subseteq Fits
  <2>1. ASSUME NEW i \in 1 .. n + 1, \A k \in i + 1 .. n + 1 : k \in Fits
        PROVE  i \in Fits
    <3>1. SameAfter(E, E, s, i) /\ RangeAfter(E, s, i)
      BY <2>1 DEF SameAfter, RangeAfter
    <3>2. ASSUME NEW m \in Modes PROVE InRange(EndAt(E, s, i, m), s, i)
      BY <3>1, EndLocal
    <3>. QED  BY <3>2, <1>5
  <2>. HIDE DEF Fits, n
  <2>2. n + 1 \in Nat
    BY <1>1
  <2>. QED  BY <2>1, <2>2, Downward
<1>. QED  BY <1>5, <1>6 DEF E

------------------------------------------------------------------------------
(* What the operators of the model return *)

\* The rules, one by one.
LEMMA EndAtIs ==
  ASSUME NEW P, NEW s \in Seq(P), NEW i \in 1 .. Len(s), NEW f, NEW m \in Modes
  PROVE  /\ s[i] \in Space => EndAt(f, s, i, m) = f[i + 1][m]
         /\ s[i] = "]" /\ m = "value" => EndAt(f, s, i, m) = 0
         /\ s[i] = "]" /\ m # "value" => EndAt(f, s, i, m) = i + 1
         /\ s[i] = "comma" /\ m = "rest" => EndAt(f, s, i, m) = ListEnd(f, f[i + 1]["value"])
         /\ s[i] = "comma" /\ m # "rest" => EndAt(f, s, i, m) = 0
         /\ s[i] \notin Space \cup {"]", "comma"} /\ m = "value" => EndAt(f, s, i, m) = ElementEnd(f, s, i)
         /\ s[i] \notin Space \cup {"]", "comma"} /\ m = "first" =>
              EndAt(f, s, i, m) = ListEnd(f, ElementEnd(f, s, i))
         /\ s[i] \notin Space \cup {"]", "comma"} /\ m = "rest" => EndAt(f, s, i, m) = 0
<1>1. ~(i > Len(s))
  OBVIOUS
<1>2. CASE s[i] \in Space
  BY <1>1, <1>2 DEF EndAt, Space
<1>3. CASE s[i] = "]"
  BY <1>1, <1>3 DEF EndAt, Space
<1>4. CASE s[i] = "comma"
  BY <1>1, <1>4 DEF EndAt, Space
<1>5. CASE s[i] \notin Space \cup {"]", "comma"}
  <2>1. EndAt(f, s, i, m) = CASE m = "value" -> ElementEnd(f, s, i)
                              [] m = "first" -> ListEnd(f, ElementEnd(f, s, i))
                              [] m = "rest" -> 0
    BY <1>1, <1>5 DEF EndAt
  <2>. QED  BY <1>5, <2>1 DEF Modes, Space
<1>. QED  BY <1>2, <1>3, <1>4, <1>5

\* Nothing begins after the text.
LEMMA EndAfterAll ==
  ASSUME NEW s, NEW i, i > Len(s), NEW f, NEW m
  PROVE  EndAt(f, s, i, m) = 0
  BY DEF EndAt

\* A value ends within the text, after it has begun.
LEMMA ValueEndRange ==
  ASSUME NEW P, NEW s \in Seq(P), NEW i \in 1 .. Len(s) + 1
  PROVE  InRange(ValueEnd(s, i), s, i)
  BY EndsAre DEF ValueEnd, Modes

\* A value that is neither a list nor "x" is a message.
LEMMA ValueIsMessage ==
  ASSUME NEW P, NEW s \in Seq(P), NEW i \in 1 .. Len(s), s[i] \notin Space \cup {"x", "["}
  PROVE  ValueEnd(s, i) = MessageEnd(s, i)
<1>1. ValueEnd(s, i) = EndAt(Ends(s), s, i, "value")
  BY EndsAre DEF ValueEnd, Modes
<1>2. CASE s[i] \in {"]", "comma"}
  <2>1. "value" \in Modes /\ "value" # "rest"
    BY DEF Modes
  <2>2. EndAt(Ends(s), s, i, "value") = 0
    <3>1. CASE s[i] = "]"
      BY <3>1, EndAtIs DEF Modes
    <3>2. CASE s[i] = "comma"
      BY <3>2, <2>1, EndAtIs DEF Modes
    <3>. QED  BY <1>2, <3>1, <3>2
  <2>. QED  BY <1>1, <1>2, <2>2 DEF MessageEnd
<1>3. CASE s[i] \notin {"]", "comma"}
  <2>1. EndAt(Ends(s), s, i, "value") = ElementEnd(Ends(s), s, i)
    BY <1>3, EndAtIs DEF Modes
  <2>. QED  BY <1>1, <2>1 DEF ElementEnd
<1>. QED  BY <1>2, <1>3

\* There is no value where the text is over, and spaces before one do not matter.
LEMMA NoValueAfterAll ==
  ASSUME NEW P, NEW s \in Seq(P)
  PROVE  ValueEnd(s, Len(s) + 1) = 0
<1>1. ValueEnd(s, Len(s) + 1) = EndAt(Ends(s), s, Len(s) + 1, "value")
  BY EndsAre DEF ValueEnd, Modes
<1>2. Len(s) + 1 > Len(s)
  OBVIOUS
<1>. QED  BY <1>1, <1>2, EndAfterAll

LEMMA ValueAfterSpaces ==
  ASSUME NEW P, NEW s \in Seq(P), NEW j \in 1 .. Len(s) + 1
  PROVE  \A i \in 1 .. j : Spaces(s, i, j - 1) => ValueEnd(s, i) = ValueEnd(s, j)
<1>. DEFINE Same == {i \in 1 .. j : Spaces(s, i, j - 1) => ValueEnd(s, i) = ValueEnd(s, j)}
<1>1. ASSUME NEW i \in 1 .. j, \A k \in i + 1 .. j : k \in Same PROVE i \in Same
  <2>1. CASE i = j
    BY <2>1
  <2>2. CASE i # j
    <3>. SUFFICES ASSUME Spaces(s, i, j - 1) PROVE ValueEnd(s, i) = ValueEnd(s, j)
      OBVIOUS
    <3>1. i \in 1 .. Len(s) /\ s[i] \in Space /\ Spaces(s, i + 1, j - 1) /\ i + 1 \in Same
      BY <1>1, <2>2 DEF Spaces
    <3>2. ValueEnd(s, i) = EndAt(Ends(s), s, i, "value")
      BY EndsAre DEF ValueEnd, Modes
    <3>3. EndAt(Ends(s), s, i, "value") = ValueEnd(s, i + 1)
      BY <3>1, EndAtIs DEF ValueEnd, Modes
    <3>. QED  BY <3>1, <3>2, <3>3
  <2>. QED  BY <2>1, <2>2
<1>2. 1 .. j \subseteq Same
  <2>. HIDE DEF Same
  <2>1. j \in Nat
    OBVIOUS
  <2>. QED  BY <1>1, <2>1, Downward
<1>. QED  BY <1>2

\* The next place that is no space: what it is, and that nothing else is.
LEMMA NextUsedIs ==
  ASSUME NEW P, NEW s \in Seq(P), NEW i \in 1 .. Len(s) + 1
  PROVE  /\ NextUsed(s, i) \in i .. Len(s) + 1
         /\ Spaces(s, i, NextUsed(s, i) - 1)
         /\ NextUsed(s, i) <= Len(s) => s[NextUsed(s, i)] \notin Space
<1>. DEFINE Used == {j \in i .. Len(s) + 1 : j <= Len(s) => s[j] \notin Space}
<1>1. PICK m \in Used : \A k \in Used : m <= k
  <2>1. Used \in SUBSET Nat /\ Len(s) + 1 \in Used
    OBVIOUS
  <2>. HIDE DEF Used
  <2>. QED  BY <2>1, Least
<1>2. \A k \in i .. m - 1 : s[k] \in Space
  BY <1>1
<1>3. \E j \in i .. Len(s) + 1 : Spaces(s, i, j - 1) /\ (j <= Len(s) => s[j] \notin Space)
  BY <1>1, <1>2 DEF Spaces
<1>. QED  BY <1>3 DEF NextUsed

LEMMA NextUsedIsOnly ==
  ASSUME NEW P, NEW s \in Seq(P), NEW i \in 1 .. Len(s) + 1, NEW j \in i .. Len(s) + 1,
         Spaces(s, i, j - 1), j <= Len(s) => s[j] \notin Space
  PROVE  NextUsed(s, i) = j
<1>. DEFINE u == NextUsed(s, i)
<1>1. u \in i .. Len(s) + 1 /\ Spaces(s, i, u - 1) /\ (u <= Len(s) => s[u] \notin Space)
  BY NextUsedIs
<1>. HIDE DEF u
<1>2. ~(u < j) /\ ~(j < u)
  BY <1>1 DEF Spaces
<1>. QED  BY <1>1, <1>2 DEF u

------------------------------------------------------------------------------
(* Where lines begin *)

\* The start of a line, likewise.
LEMMA LineStartIs ==
  ASSUME NEW P, NEW s \in Seq(P), NEW i \in 1 .. Len(s) + 1
  PROVE  /\ LineStart(s, i) \in 1 .. i
         /\ LineStart(s, i) = 1 \/ s[LineStart(s, i) - 1] = "nl"
         /\ \A k \in LineStart(s, i) .. i - 1 : s[k] # "nl"
<1>. DEFINE Back == {d \in 0 .. i - 1 : i - d = 1 \/ s[i - d - 1] = "nl"}
<1>1. PICK m \in Back : \A k \in Back : m <= k
  <2>1. Back \in SUBSET Nat /\ i - 1 \in Back
    OBVIOUS
  <2>. HIDE DEF Back
  <2>. QED  BY <2>1, Least
<1>2. ASSUME NEW k \in i - m .. i - 1 PROVE s[k] # "nl"
  <2>. SUFFICES ASSUME s[k] = "nl" PROVE FALSE
    OBVIOUS
  <2>1. i - (k + 1) \in 0 .. i - 1 /\ i - (i - (k + 1)) - 1 = k /\ ~(m <= i - (k + 1))
    BY <1>1
  <2>2. i - (k + 1) \in Back
    BY <2>1
  <2>. QED  BY <2>1, <2>2, <1>1
<1>3. \A e \in i - m .. i - 1 : e \in DOMAIN s
  BY <1>1
<1>4. \A a \in 2 .. i : a - 1 \in LineEnds(s) <=> s[a - 1] = "nl"
  BY DEF LineEnds
<1>5. i - m \in 1 .. i /\ (i - m = 1 \/ i - m - 1 \in LineEnds(s))
  BY <1>1, <1>4
<1>6. \A k \in i - m .. i - 1 : k \notin LineEnds(s)
  BY <1>2 DEF LineEnds
<1>7. \E a \in 1 .. i : (a = 1 \/ a - 1 \in LineEnds(s)) /\ \A k \in a .. i - 1 : k \notin LineEnds(s)
  BY <1>5, <1>6
<1>8. /\ LineStart(s, i) \in 1 .. i
      /\ LineStart(s, i) = 1 \/ LineStart(s, i) - 1 \in LineEnds(s)
      /\ \A k \in LineStart(s, i) .. i - 1 : k \notin LineEnds(s)
  BY <1>7 DEF LineStart
<1>. QED  BY <1>8 DEF LineEnds

LEMMA LineStartIsOnly ==
  ASSUME NEW P, NEW s \in Seq(P), NEW i \in 1 .. Len(s) + 1, NEW a \in 1 .. i,
         a = 1 \/ s[a - 1] = "nl", \A k \in a .. i - 1 : s[k] # "nl"
  PROVE  LineStart(s, i) = a
<1>. DEFINE b == LineStart(s, i)
<1>1. b \in 1 .. i /\ (b = 1 \/ s[b - 1] = "nl") /\ \A k \in b .. i - 1 : s[k] # "nl"
  BY LineStartIs
<1>. HIDE DEF b
<1>2. ~(a < b) /\ ~(b < a)
  BY <1>1
<1>. QED  BY <1>1, <1>2 DEF b

------------------------------------------------------------------------------
(* Lists of messages *)

\* A list of messages grows at its front, at its seam, by a message.
LEMMA ListedFront ==
  ASSUME NEW P, NEW s \in Seq(P), NEW i \in 1 .. Len(s), NEW j \in Int,
         s[i] \in Space \cup {"comma"}, Listed(s, i + 1, j)
  PROVE  Listed(s, i, j)
<1>1. ASSUME NEW k \in i .. j
      PROVE  s[k] \in Space \cup {"comma"} \/ MessageAt(s, k) \/ (k > i /\ MessageEnd(s, k - 1) = k + 1)
  <2>1. CASE k = i
    BY <2>1
  <2>2. CASE k # i
    <3>1. k \in i + 1 .. j
      BY <2>2
    <3>. QED  BY <3>1 DEF Listed
  <2>. QED  BY <2>1, <2>2
<1>. QED  BY <1>1 DEF Listed

LEMMA ListedJoin ==
  ASSUME NEW P, NEW s \in Seq(P), NEW i \in 1 .. Len(s) + 1, NEW j \in 1 .. Len(s) + 1, NEW k \in Int,
         i <= j, Listed(s, i, j - 1), Listed(s, j, k)
  PROVE  Listed(s, i, k)
<1>1. ASSUME NEW l \in i .. k
      PROVE  s[l] \in Space \cup {"comma"} \/ MessageAt(s, l) \/ (l > i /\ MessageEnd(s, l - 1) = l + 1)
  <2>1. CASE l <= j - 1
    <3>1. l \in i .. j - 1
      BY <2>1
    <3>. QED  BY <3>1 DEF Listed
  <2>2. CASE ~(l <= j - 1)
    <3>1. l \in j .. k
      BY <2>2
    <3>. QED  BY <3>1 DEF Listed
  <2>. QED  BY <2>1, <2>2
<1>. QED  BY <1>1 DEF Listed

LEMMA ListedMessage ==
  ASSUME NEW P, NEW s \in Seq(P), NEW i \in 1 .. Len(s), MessageAt(s, i)
  PROVE  Listed(s, i, MessageEnd(s, i) - 1)
<1>1. MessageEnd(s, i) = i + 1 \/ MessageEnd(s, i) = i + 2
  BY MessageEndIs
<1>. QED  BY <1>1 DEF Listed

\* A list from j on that ends with its bracket before e; what the entries of place j
\* say of a text whose elements are messages.
ClosedList(s, j, e) == e - 1 \in j .. Len(s) /\ s[e - 1] = "]" /\ Listed(s, j, e - 2)

Fine(s, j) ==
  /\ Ends(s)[j]["value"] # 0 => Listed(s, j, Ends(s)[j]["value"] - 1)
  /\ Ends(s)[j]["first"] # 0 => ClosedList(s, j, Ends(s)[j]["first"])
  /\ Ends(s)[j]["rest"] # 0 => ClosedList(s, j, Ends(s)[j]["rest"])

\* A value, then the rest of the list.
LEMMA ValueThenRest ==
  ASSUME NEW P, NEW s \in Seq(P), NEW j \in 1 .. Len(s), NEW v \in Nat,
         \A k \in j + 1 .. Len(s) + 1 : Fine(s, k),
         InRange(v, s, j), v # 0 => Listed(s, j, v - 1), ListEnd(Ends(s), v) # 0
  PROVE  ClosedList(s, j, ListEnd(Ends(s), v))
<1>1. v # 0 /\ ListEnd(Ends(s), v) = Ends(s)[v]["rest"]
  BY DEF ListEnd
<1>2. v \in j + 1 .. Len(s) + 1
  BY <1>1 DEF InRange
<1>3. v \in 1 .. Len(s) + 1 /\ "rest" \in Modes
  BY <1>2 DEF Modes
<1>4. InRange(Ends(s)[v]["rest"], s, v)
  BY <1>3, EndsAre
<1>5. PICK e \in Nat : e = Ends(s)[v]["rest"]
  BY <1>3, <1>4 DEF InRange
<1>6. ClosedList(s, v, e)
  BY <1>1, <1>2, <1>5 DEF Fine
<1>7. e - 1 \in v .. Len(s) /\ s[e - 1] = "]" /\ Listed(s, v, e - 2)
  BY <1>6 DEF ClosedList
<1>8. Listed(s, j, e - 2)
  <2>1. /\ j \in 1 .. Len(s) + 1 /\ j <= v /\ e - 2 \in Int
        /\ Listed(s, j, v - 1) /\ Listed(s, v, e - 2)
    BY <1>1, <1>2, <1>7
  <2>. QED  BY <1>3, <2>1, ListedJoin
<1>9. e - 1 \in j .. Len(s)
  BY <1>2, <1>7
<1>10. ClosedList(s, j, e)
  BY <1>7, <1>8, <1>9 DEF ClosedList
<1>. QED  BY <1>1, <1>5, <1>10

\* By the places after it, what holds of j, and so of every place of such a list.
LEMMA FineStep ==
  ASSUME NEW P, NEW s \in Seq(P), NEW j \in 1 .. Len(s), s[j] \notin {"x", "["},
         \A k \in j + 1 .. Len(s) + 1 : Fine(s, k)
  PROVE  Fine(s, j)
<1>. DEFINE end(m) == Ends(s)[j][m]
            next(m) == Ends(s)[j + 1][m]
<1>1. /\ j + 1 \in j + 1 .. Len(s) + 1 /\ j \in 1 .. Len(s) + 1 /\ j + 1 \in 1 .. Len(s) + 1
      /\ "value" \in Modes /\ "first" \in Modes /\ "rest" \in Modes
  BY DEF Modes
<1>2. \A m \in Modes : end(m) = EndAt(Ends(s), s, j, m)
  BY <1>1, EndsAre
<1>3. \A m \in Modes : InRange(next(m), s, j + 1)
  BY <1>1, EndsAre
<1>4. Fine(s, j + 1)
  BY <1>1
<1>5. CASE s[j] \in Space
  <2>1. \A m \in Modes : end(m) = next(m)
    BY <1>2, <1>5, EndAtIs
  <2>2. ASSUME NEW e \in Int, Listed(s, j + 1, e) PROVE Listed(s, j, e)
    BY <1>5, <2>2, ListedFront
  <2>3. ASSUME NEW m \in Modes, next(m) # 0 PROVE next(m) \in j + 2 .. Len(s) + 1
    BY <1>3, <2>3 DEF InRange
  <2>4. next("value") # 0 => Listed(s, j, next("value") - 1)
    <3>. SUFFICES ASSUME next("value") # 0 PROVE Listed(s, j, next("value") - 1)
      OBVIOUS
    <3>1. Listed(s, j + 1, next("value") - 1) /\ next("value") - 1 \in Int
      BY <1>1, <1>4, <2>3 DEF Fine
    <3>. QED  BY <2>2, <3>1
  <2>5. ASSUME NEW e \in j + 2 .. Len(s) + 1, ClosedList(s, j + 1, e) PROVE ClosedList(s, j, e)
    BY <2>2, <2>5 DEF ClosedList
  <2>6. next("first") # 0 => ClosedList(s, j, next("first"))
    BY <1>1, <1>4, <2>3, <2>5 DEF Fine
  <2>7. next("rest") # 0 => ClosedList(s, j, next("rest"))
    BY <1>1, <1>4, <2>3, <2>5 DEF Fine
  <2>. QED  BY <1>1, <2>1, <2>4, <2>6, <2>7 DEF Fine
<1>6. CASE s[j] = "]"
  <2>1. end("value") = 0 /\ end("first") = j + 1 /\ end("rest") = j + 1
    <3>1. EndAt(Ends(s), s, j, "value") = 0
      BY <1>6, EndAtIs DEF Modes
    <3>2. EndAt(Ends(s), s, j, "first") = j + 1
      BY <1>6, EndAtIs DEF Modes
    <3>3. EndAt(Ends(s), s, j, "rest") = j + 1
      BY <1>6, EndAtIs DEF Modes
    <3>. QED  BY <1>1, <1>2, <3>1, <3>2, <3>3
  <2>2. ClosedList(s, j, j + 1)
    BY <1>6 DEF ClosedList, Listed
  <2>. QED  BY <2>1, <2>2 DEF Fine
<1>7. CASE s[j] = "comma"
  <2>1. end("value") = 0 /\ end("first") = 0 /\ end("rest") = ListEnd(Ends(s), next("value"))
    <3>1. EndAt(Ends(s), s, j, "value") = 0
      BY <1>7, EndAtIs DEF Modes
    <3>2. EndAt(Ends(s), s, j, "first") = 0
      BY <1>7, EndAtIs DEF Modes
    <3>3. EndAt(Ends(s), s, j, "rest") = ListEnd(Ends(s), next("value"))
      BY <1>7, EndAtIs DEF Modes
    <3>. QED  BY <1>1, <1>2, <3>1, <3>2, <3>3
  <2>2. PICK v : v = next("value")
    OBVIOUS
  <2>3. InRange(v, s, j) /\ v \in Nat
    BY <1>1, <1>3, <2>2 DEF InRange
  <2>4. v # 0 => Listed(s, j, v - 1)
    <3>1. v # 0 => Listed(s, j + 1, v - 1)
      BY <1>4, <2>2 DEF Fine
    <3>. QED  BY <1>7, <2>3, <3>1, ListedFront
  <2>5. end("rest") # 0 => ClosedList(s, j, end("rest"))
    BY <2>1, <2>2, <2>3, <2>4, ValueThenRest
  <2>. QED  BY <2>1, <2>5 DEF Fine
<1>8. CASE s[j] \notin Space \cup {"]", "comma"}
  <2>1. ElementEnd(Ends(s), s, j) = MessageEnd(s, j)
    BY DEF ElementEnd
  <2>2. end("value") = MessageEnd(s, j) /\ end("first") = ListEnd(Ends(s), MessageEnd(s, j)) /\ end("rest") = 0
    <3>1. EndAt(Ends(s), s, j, "value") = ElementEnd(Ends(s), s, j)
      BY <1>8, EndAtIs DEF Modes
    <3>2. EndAt(Ends(s), s, j, "first") = ListEnd(Ends(s), ElementEnd(Ends(s), s, j))
      BY <1>8, EndAtIs DEF Modes
    <3>3. EndAt(Ends(s), s, j, "rest") = 0
      BY <1>8, EndAtIs DEF Modes
    <3>. QED  BY <1>1, <1>2, <2>1, <3>1, <3>2, <3>3
  <2>3. MessageEnd(s, j) \in Nat /\ InRange(MessageEnd(s, j), s, j)
    BY MessageEndIs DEF InRange
  <2>4. MessageEnd(s, j) # 0 => Listed(s, j, MessageEnd(s, j) - 1)
    BY ListedMessage DEF MessageAt
  <2>5. end("first") # 0 => ClosedList(s, j, end("first"))
    BY <2>2, <2>3, <2>4, ValueThenRest
  <2>. QED  BY <2>2, <2>4, <2>5 DEF Fine
<1>. QED  BY <1>5, <1>6, <1>7, <1>8

LEMMA ListsAreFine ==
  ASSUME NEW P, NEW s \in Seq(P), NEW o \in 1 .. Len(s),
         \A k \in o + 1 .. Len(s) : s[k] \notin {"x", "["}
  PROVE  \A j \in o + 1 .. Len(s) + 1 : Fine(s, j)
<1>. DEFINE S == {j \in 1 .. Len(s) + 1 : j > o => Fine(s, j)}
<1>1. ASSUME NEW j \in 1 .. Len(s) + 1, \A k \in j + 1 .. Len(s) + 1 : k \in S PROVE j \in S
  <2>. SUFFICES ASSUME j > o PROVE Fine(s, j)
    OBVIOUS
  <2>1. CASE j = Len(s) + 1
    <3>1. j > Len(s)
      BY <2>1
    <3>2. \A m \in Modes : Ends(s)[j][m] = 0
      BY <3>1, EndsAre, EndAfterAll
    <3>. QED  BY <3>2 DEF Fine, Modes
  <2>2. CASE j # Len(s) + 1
    <3>1. j \in 1 .. Len(s) /\ s[j] \notin {"x", "["}
      BY <2>2
    <3>2. \A k \in j + 1 .. Len(s) + 1 : Fine(s, k)
      BY <1>1
    <3>. QED  BY <3>1, <3>2, FineStep
  <2>. QED  BY <2>1, <2>2
<1>2. 1 .. Len(s) + 1 \subseteq S
  <2>. HIDE DEF S
  <2>1. Len(s) + 1 \in Nat
    OBVIOUS
  <2>. QED  BY <1>1, <2>1, Downward
<1>. QED  BY <1>2

------------------------------------------------------------------------------
(* What is true of the places that are dealt with *)

\* No message is cut after place p.
Whole(s, p) == p = 0 \/ s[p] # "<"

\* The three shapes of what has been read: a list that is open, one message, a list
\* that is closed.
ListFrom(s, o, p) == o \in 1 .. p /\ Spaces(s, 1, o - 1) /\ s[o] = "[" /\ Listed(s, o + 1, p)
OneDone(s, p) ==
  \E k \in 1 .. p : MessageAt(s, k) /\ Spaces(s, 1, k - 1) /\ Spaces(s, MessageEnd(s, k), p)
ListDone(s, p) ==
  \E e \in 1 .. p : (\E o \in 1 .. p : ListFrom(s, o, e - 1)) /\ s[e] = "]" /\ Spaces(s, e + 1, p)

\* What the JSON parser has made of the places up to p, by its mode.
ReadTo(s, p, m) ==
  /\ Whole(s, p)
  /\ m \in {"unknown", "single"} => Spaces(s, 1, p)
  /\ m = "array" => \E o \in 1 .. p : ListFrom(s, o, p)
  /\ m = "done" => OneDone(s, p) \/ ListDone(s, p)

\* The first piece after place p that is no space is h, and nothing that may be there.
WrongAt(s, p, m, h) ==
  /\ h \in p + 1 .. Len(s) /\ Spaces(s, p + 1, h - 1) /\ s[h] \notin Space
  /\ m # "done" => /\ ~MessageAt(s, h)
                   /\ s[h] \notin IF m = "array" THEN {"]", "comma"} ELSE {"["}

\* The messages that begin in the first p places.
MessagesTo(s, p) == {k \in 1 .. p : MessageAt(s, k)}

\* The elements of y are these, each once and in their order.
Ordered(y, places) == ToSet(y) = places /\ \A i, j \in DOMAIN y : i < j => y[i] < y[j]

\* The places that are dealt with, and how the buffer stands in the text.
Taken == dropped + cursor

BufferIs == dropped \in Nat /\ Len(text) <= MaxText /\ buffer = From(text, dropped + 1)

\* The JSON parser: its mode says what has been read; "single" waits for the rest of
\* a value; and when it waits with something left over, no message can begin there.
JsonInv ==
  /\ ReadTo(text, Taken, mode)
  /\ mode = "single" => Taken < Len(text) /\ text[Taken + 1] \notin Space \cup {"["}
  /\ step # "parsing" =>
       \/ Taken = Len(text) /\ mode # "single"
       \/ mode \in {"single", "array"} /\ WrongAt(text, Taken, mode, Taken + 1)
  /\ step = "accepted" => Taken = Len(text)

\* The NDJSON parser: whole lines have been dealt with, all of them good, and when it
\* waits there is no other.
LinesInv ==
  /\ cursor = 0 /\ mode = "unknown"
  /\ LinesGood(text, dropped + 1)
  /\ step # "accepted" => dropped = 0 \/ text[dropped] = "nl"
  /\ step \in {"waiting", "undecodable"} => \A k \in dropped + 1 .. Len(text) : text[k] # "nl"
  /\ step = "accepted" => /\ dropped = Len(text)
                          /\ Item(text, LineStart(text, Len(text) + 1), Len(text))

\* Whatever still arrives, the payload is not acceptable.
Hopeless == \A whole \in Continuations : ~Acceptable(whole)

\* The inductive invariant.
IInv ==
  /\ TypeOK
  /\ BufferIs
  /\ step = "rejected" => Hopeless
  /\ step = "incomplete" => ~Acceptable(text)
  /\ step \in {"rejected", "incomplete"} => NothingElse /\ YieldedAre(Messages(text, FALSE))
  /\ step \notin {"rejected", "incomplete"} =>
       /\ Ordered(yielded, MessagesTo(text, Taken))
       /\ ctype = "json" => JsonInv
       /\ ctype = "ndjson" => LinesInv

------------------------------------------------------------------------------
(* The text grows *)

\* What a longer text says of the places before the seam.
LEMMA Longer ==
  ASSUME NEW P, NEW s \in Seq(P), NEW t \in Seq(P), Len(s) <= Len(t),
         \A k \in 1 .. Len(s) : t[k] = s[k], NEW p \in 0 .. Len(s), Whole(s, p)
  PROVE  /\ Whole(t, p)
         /\ \A k \in 1 .. p : MessageEnd(t, k) = MessageEnd(s, k) /\ (MessageAt(t, k) <=> MessageAt(s, k))
         /\ \A i, j \in Int : 1 <= i /\ j <= Len(s) => (Spaces(t, i, j) <=> Spaces(s, i, j))
<1>1. Whole(t, p)
  BY DEF Whole
<1>2. ASSUME NEW k \in 1 .. p PROVE MessageEnd(t, k) = MessageEnd(s, k)
  <2>1. CASE k < Len(s)
    BY <2>1 DEF MessageEnd
  <2>2. CASE k = Len(s)
    BY <2>2 DEF MessageEnd, Whole
  <2>. QED  BY <2>1, <2>2
<1>3. ASSUME NEW i \in Int, NEW j \in Int, 1 <= i, j <= Len(s)
      PROVE  Spaces(t, i, j) <=> Spaces(s, i, j)
  BY <1>3 DEF Spaces
<1>. QED  BY <1>1, <1>2, <1>3 DEF MessageAt

\* A longer list, and whatever else has been read.
LEMMA LongerListed ==
  ASSUME NEW P, NEW s \in Seq(P), NEW t \in Seq(P), Len(s) <= Len(t),
         \A k \in 1 .. Len(s) : t[k] = s[k], NEW p \in 0 .. Len(s), Whole(s, p),
         NEW i \in Nat \ {0}, NEW j \in Int, j <= p, Listed(s, i, j)
  PROVE  Listed(t, i, j)
<1>1. \A k \in 1 .. p : MessageEnd(t, k) = MessageEnd(s, k) /\ (MessageAt(t, k) <=> MessageAt(s, k))
  BY Longer
<1>2. ASSUME NEW k \in i .. j
      PROVE  t[k] \in Space \cup {"comma"} \/ MessageAt(t, k) \/ (k > i /\ MessageEnd(t, k - 1) = k + 1)
  <2>1. k \in 1 .. p /\ (k > i => k - 1 \in 1 .. p) /\ t[k] = s[k]
    OBVIOUS
  <2>. QED  BY <1>1, <2>1 DEF Listed
<1>. QED  BY <1>2 DEF Listed

LEMMA LongerRead ==
  ASSUME NEW P, NEW s \in Seq(P), NEW t \in Seq(P), Len(s) <= Len(t),
         \A k \in 1 .. Len(s) : t[k] = s[k], NEW p \in 0 .. Len(s), NEW m, ReadTo(s, p, m)
  PROVE  ReadTo(t, p, m) /\ MessagesTo(t, p) = MessagesTo(s, p)
<1>1. /\ Whole(s, p) /\ Whole(t, p)
      /\ \A k \in 1 .. p : MessageEnd(t, k) = MessageEnd(s, k) /\ (MessageAt(t, k) <=> MessageAt(s, k))
      /\ \A i, j \in Int : 1 <= i /\ j <= Len(s) => (Spaces(t, i, j) <=> Spaces(s, i, j))
  BY Longer DEF ReadTo
<1>2. MessagesTo(t, p) = MessagesTo(s, p)
  BY <1>1 DEF MessagesTo
<1>3. Spaces(t, 1, p) <=> Spaces(s, 1, p)
  BY <1>1
<1>4. ASSUME NEW o \in 1 .. p, NEW q \in 1 .. p, ListFrom(s, o, q) PROVE ListFrom(t, o, q)
  <2>1. Spaces(t, 1, o - 1) /\ t[o] = "["
    BY <1>1, <1>4 DEF ListFrom
  <2>2. Listed(t, o + 1, q)
    BY <1>1, <1>4, LongerListed DEF ListFrom
  <2>. QED  BY <1>4, <2>1, <2>2 DEF ListFrom
<1>5. m = "array" => \E o \in 1 .. p : ListFrom(t, o, p)
  BY <1>4 DEF ReadTo
<1>6. OneDone(s, p) => OneDone(t, p)
  <2>1. ASSUME NEW k \in 1 .. p, MessageAt(s, k), Spaces(s, 1, k - 1), Spaces(s, MessageEnd(s, k), p)
        PROVE  MessageAt(t, k) /\ Spaces(t, 1, k - 1) /\ Spaces(t, MessageEnd(t, k), p)
    <3>1. MessageEnd(s, k) \in Int /\ 1 <= MessageEnd(s, k)
      BY <2>1, MessageEndIs DEF MessageAt
    <3>. QED  BY <1>1, <2>1, <3>1
  <2>. QED  BY <2>1 DEF OneDone
<1>7. ListDone(s, p) => ListDone(t, p)
  <2>1. ASSUME NEW e \in 1 .. p, NEW o \in 1 .. p, ListFrom(s, o, e - 1), s[e] = "]", Spaces(s, e + 1, p)
        PROVE  ListFrom(t, o, e - 1) /\ t[e] = "]" /\ Spaces(t, e + 1, p)
    <3>1. e - 1 \in 1 .. p
      BY <2>1 DEF ListFrom
    <3>. QED  BY <1>1, <1>4, <2>1, <3>1
  <2>. QED  BY <2>1 DEF ListDone
<1>. QED  BY <1>1, <1>2, <1>3, <1>5, <1>6, <1>7 DEF ReadTo

------------------------------------------------------------------------------
(* What a turn of the JSON loop does to what has been read *)

\* What a piece that is neither a message nor half of one tells.
LEMMA PlainPiece ==
  ASSUME NEW P, NEW s \in Seq(P), NEW k \in 1 .. Len(s), s[k] \notin {"m", "<", ">"}
  PROVE  /\ ~MessageAt(s, k)
         /\ s[k] \notin Space \cup {"comma"} =>
              \A i, j \in Int : 1 <= i /\ i <= k /\ k <= j => ~Listed(s, i, j)
<1>1. ~MessageAt(s, k)
  BY MessageEndIs
<1>2. ASSUME s[k] \notin Space \cup {"comma"}, NEW i \in Int, NEW j \in Int, 1 <= i, i <= k, k <= j, Listed(s, i, j)
      PROVE  FALSE
  <2>1. k \in i .. j
    BY <1>2
  <2>2. k > i /\ MessageEnd(s, k - 1) = k + 1
    BY <1>1, <1>2, <2>1 DEF Listed
  <2>3. k - 1 \in 1 .. Len(s) /\ k + 1 = (k - 1) + 2
    BY <1>2, <2>2
  <2>4. s[k] = ">"
    BY <2>2, <2>3 DEF MessageEnd
  <2>. QED  BY <2>4
<1>. QED  BY <1>1, <1>2

\* Spaces, and then spaces.
LEMMA SpacesJoin ==
  ASSUME NEW s, NEW i \in Int, NEW j \in Int, NEW k \in Int, Spaces(s, i, j), Spaces(s, j + 1, k)
  PROVE  Spaces(s, i, k)
  BY DEF Spaces

\* Places without a message add none.
LEMMA MessagesToSpaces ==
  ASSUME NEW P, NEW s \in Seq(P), NEW p \in 0 .. Len(s), NEW q \in p .. Len(s),
         \A k \in p + 1 .. q : ~MessageAt(s, k)
  PROVE  MessagesTo(s, q) = MessagesTo(s, p)
  BY DEF MessagesTo

\* Spaces change nothing, in any mode.
LEMMA ReadSpaces ==
  ASSUME NEW P, NEW s \in Seq(P), NEW p \in 0 .. Len(s), NEW q \in p .. Len(s), NEW m,
         ReadTo(s, p, m), Spaces(s, p + 1, q)
  PROVE  ReadTo(s, q, m) /\ MessagesTo(s, q) = MessagesTo(s, p)
<1>1. Whole(s, q)
  BY DEF ReadTo, Whole, Spaces, Space
<1>2. \A k \in p + 1 .. q : ~MessageAt(s, k)
  <2>1. \A k \in p + 1 .. q : k \in 1 .. Len(s) /\ s[k] \in Space
    BY DEF Spaces
  <2>. QED  BY <2>1, PlainPiece DEF Space
<1>3. m \in {"unknown", "single"} => Spaces(s, 1, q)
  BY DEF ReadTo, Spaces
<1>4. ASSUME m = "array" PROVE \E o \in 1 .. q : ListFrom(s, o, q)
  <2>1. PICK o \in 1 .. p : ListFrom(s, o, p)
    BY <1>4 DEF ReadTo
  <2>2. Listed(s, o + 1, q)
    <3>1. ASSUME NEW k \in o + 1 .. q
          PROVE  s[k] \in Space \cup {"comma"} \/ MessageAt(s, k) \/ (k > o + 1 /\ MessageEnd(s, k - 1) = k + 1)
      <4>1. CASE k \in p + 1 .. q
        BY <4>1 DEF Spaces
      <4>2. CASE k \notin p + 1 .. q
        <5>1. k \in o + 1 .. p
          BY <4>2
        <5>. QED  BY <2>1, <5>1 DEF ListFrom, Listed
      <4>. QED  BY <4>1, <4>2
    <3>. QED  BY <3>1 DEF Listed
  <2>3. ListFrom(s, o, q)
    BY <2>1, <2>2 DEF ListFrom
  <2>. QED  BY <2>3
<1>5. ASSUME m = "done" PROVE OneDone(s, q) \/ ListDone(s, q)
  <2>1. CASE OneDone(s, p)
    <3>1. PICK k \in 1 .. p : MessageAt(s, k) /\ Spaces(s, 1, k - 1) /\ Spaces(s, MessageEnd(s, k), p)
      BY <2>1 DEF OneDone
    <3>2. MessageEnd(s, k) \in Int
      BY <3>1, MessageEndIs DEF MessageAt
    <3>3. Spaces(s, MessageEnd(s, k), q)
      BY <3>1, <3>2, SpacesJoin
    <3>. QED  BY <3>1, <3>3 DEF OneDone
  <2>2. CASE ListDone(s, p)
    <3>1. PICK e \in 1 .. p : (\E o \in 1 .. p : ListFrom(s, o, e - 1)) /\ s[e] = "]" /\ Spaces(s, e + 1, p)
      BY <2>2 DEF ListDone
    <3>2. Spaces(s, e + 1, q)
      BY <3>1, SpacesJoin
    <3>3. \E o \in 1 .. q : ListFrom(s, o, e - 1)
      BY <3>1
    <3>. QED  BY <3>1, <3>2, <3>3 DEF ListDone
  <2>. QED  BY <1>5, <2>1, <2>2 DEF ReadTo
<1>. QED  BY <1>1, <1>2, <1>3, <1>4, <1>5, MessagesToSpaces DEF ReadTo

\* The bracket that opens the list.
LEMMA ReadOpen ==
  ASSUME NEW P, NEW s \in Seq(P), NEW h \in 1 .. Len(s), ReadTo(s, h - 1, "unknown"), s[h] = "["
  PROVE  ReadTo(s, h, "array") /\ MessagesTo(s, h) = MessagesTo(s, h - 1)
<1>1. ListFrom(s, h, h)
  BY DEF ListFrom, ReadTo, Listed
<1>2. MessagesTo(s, h) = MessagesTo(s, h - 1)
  BY PlainPiece, MessagesToSpaces
<1>. QED  BY <1>1, <1>2 DEF ReadTo, Whole

\* The bracket that closes it.
LEMMA ReadClose ==
  ASSUME NEW P, NEW s \in Seq(P), NEW h \in 1 .. Len(s), ReadTo(s, h - 1, "array"), s[h] = "]"
  PROVE  ReadTo(s, h, "done") /\ MessagesTo(s, h) = MessagesTo(s, h - 1)
<1>1. PICK o \in 1 .. h - 1 : ListFrom(s, o, h - 1)
  BY DEF ReadTo
<1>2. Spaces(s, h + 1, h)
  BY DEF Spaces
<1>3. ListDone(s, h)
  BY <1>1, <1>2 DEF ListDone
<1>4. MessagesTo(s, h) = MessagesTo(s, h - 1)
  BY PlainPiece, MessagesToSpaces
<1>. QED  BY <1>3, <1>4 DEF ReadTo, Whole

\* A comma within it.
LEMMA ReadComma ==
  ASSUME NEW P, NEW s \in Seq(P), NEW h \in 1 .. Len(s), ReadTo(s, h - 1, "array"), s[h] = "comma"
  PROVE  ReadTo(s, h, "array") /\ MessagesTo(s, h) = MessagesTo(s, h - 1)
<1>1. PICK o \in 1 .. h - 1 : ListFrom(s, o, h - 1)
  BY DEF ReadTo
<1>2. Listed(s, h, h)
  BY DEF Listed
<1>3. Listed(s, o + 1, h)
  BY <1>1, <1>2, ListedJoin DEF ListFrom
<1>4. ListFrom(s, o, h)
  BY <1>1, <1>3 DEF ListFrom
<1>5. MessagesTo(s, h) = MessagesTo(s, h - 1)
  BY PlainPiece, MessagesToSpaces
<1>. QED  BY <1>4, <1>5 DEF ReadTo, Whole

\* A message, alone or within the list.
LEMMA ReadMessage ==
  ASSUME NEW P, NEW s \in Seq(P), NEW h \in 1 .. Len(s), NEW at \in {"unknown", "single", "array"},
         ReadTo(s, h - 1, at), MessageAt(s, h)
  PROVE  /\ ReadTo(s, MessageEnd(s, h) - 1, IF at = "array" THEN "array" ELSE "done")
         /\ MessagesTo(s, MessageEnd(s, h) - 1) = MessagesTo(s, h - 1) \cup {h}
<1>. DEFINE p == MessageEnd(s, h) - 1
<1>1. \/ p = h /\ s[h] = "m"
      \/ p = h + 1 /\ s[h] = "<" /\ h < Len(s) /\ s[h + 1] = ">"
  BY DEF MessageAt, MessageEnd
<1>2. p \in h .. Len(s) /\ p \in Nat
  BY <1>1
<1>3. Whole(s, p)
  BY <1>1 DEF Whole
<1>4. MessagesTo(s, p) = MessagesTo(s, h - 1) \cup {h}
  <2>1. \A k \in h + 1 .. p : ~MessageAt(s, k)
    BY <1>1, MessageEndIs
  <2>. HIDE DEF p
  <2>. QED  BY <1>2, <2>1 DEF MessagesTo
<1>5. ASSUME at = "array" PROVE \E o \in 1 .. p : ListFrom(s, o, p)
  <2>1. PICK o \in 1 .. h - 1 : ListFrom(s, o, h - 1)
    BY <1>5 DEF ReadTo
  <2>2. Listed(s, h, p)
    BY ListedMessage
  <2>. HIDE DEF p
  <2>3. Listed(s, o + 1, p)
    BY <1>2, <2>1, <2>2, ListedJoin DEF ListFrom
  <2>4. ListFrom(s, o, p) /\ o \in 1 .. p
    BY <1>2, <2>1, <2>3 DEF ListFrom
  <2>. QED  BY <2>4
<1>6. ASSUME at # "array" PROVE OneDone(s, p)
  <2>1. Spaces(s, 1, h - 1)
    BY <1>6 DEF ReadTo
  <2>2. Spaces(s, MessageEnd(s, h), p)
    <3>1. MessageEnd(s, h) = p + 1
      BY MessageEndIs DEF MessageAt
    <3>. HIDE DEF p
    <3>. QED  BY <1>2, <3>1 DEF Spaces
  <2>. HIDE DEF p
  <2>3. h \in 1 .. p
    BY <1>2
  <2>. QED  BY <2>1, <2>2, <2>3 DEF OneDone
<1>. HIDE DEF p
<1>7. ReadTo(s, p, IF at = "array" THEN "array" ELSE "done")
  <2>1. CASE at = "array"
    BY <2>1, <1>3, <1>5 DEF ReadTo
  <2>2. CASE at # "array"
    BY <2>2, <1>3, <1>6 DEF ReadTo
  <2>. QED  BY <2>1, <2>2
<1>. QED  BY <1>4, <1>7 DEF p

------------------------------------------------------------------------------
(* What has been read, and what the whole text says *)

\* Where a list begins, and where a message alone stands.
LEMMA FirstOfList ==
  ASSUME NEW P, NEW s \in Seq(P), NEW p \in 0 .. Len(s), NEW o, NEW q \in 0 .. p, ListFrom(s, o, q)
  PROVE  o \in 1 .. Len(s) /\ NextUsed(s, 1) = o /\ IsList(s)
<1>1. o \in 1 .. Len(s) /\ Spaces(s, 1, o - 1) /\ s[o] = "["
  BY DEF ListFrom
<1>2. NextUsed(s, 1) = o
  BY <1>1, NextUsedIsOnly DEF Space
<1>. QED  BY <1>1, <1>2 DEF IsList

\* A message with nothing before it comes first, and the text is no list.
LEMMA FirstIsMessage ==
  ASSUME NEW P, NEW s \in Seq(P), NEW k \in 1 .. Len(s), MessageAt(s, k), Spaces(s, 1, k - 1)
  PROVE  NextUsed(s, 1) = k /\ ~IsList(s)
<1>1. s[k] \in {"m", "<"}
  BY MessageEndIs
<1>2. NextUsed(s, 1) = k
  BY <1>1, NextUsedIsOnly DEF Space
<1>. QED  BY <1>1, <1>2 DEF IsList

\* What a space is not.
LEMMA SpaceIsPlain ==
  ASSUME NEW P, NEW s \in Seq(P), NEW i \in Int, NEW j \in Int, Spaces(s, i, j),
         NEW k \in i .. j, k \in 1 .. Len(s)
  PROVE  s[k] \in Space /\ ~MessageAt(s, k)
<1>1. s[k] \in Space
  BY DEF Spaces
<1>. QED  BY <1>1, PlainPiece DEF Space

\* A message with nothing but spaces around it is the only one.
LEMMA OnlyMessage ==
  ASSUME NEW P, NEW s \in Seq(P), NEW p \in 0 .. Len(s), Whole(s, p), NEW k \in 1 .. p,
         MessageAt(s, k), Spaces(s, 1, k - 1), Spaces(s, MessageEnd(s, k), p)
  PROVE  /\ MessageEnd(s, k) \in k + 1 .. p + 1
         /\ \A j \in 1 .. p : MessageAt(s, j) => j = k
<1>1. \/ MessageEnd(s, k) = k + 1
      \/ MessageEnd(s, k) = k + 2 /\ s[k] = "<" /\ k < Len(s) /\ s[k + 1] = ">"
  BY DEF MessageAt, MessageEnd
<1>2. MessageEnd(s, k) \in k + 1 .. p + 1
  BY <1>1 DEF Whole
<1>3. ASSUME NEW j \in 1 .. p, MessageAt(s, j), j # k PROVE FALSE
  <2>1. CASE j < k
    <3>1. j \in 1 .. k - 1 /\ j \in 1 .. Len(s) /\ 1 \in Int /\ k - 1 \in Int
      BY <2>1
    <3>. QED  BY <1>3, <3>1, SpaceIsPlain
  <2>2. CASE j = k + 1 /\ MessageEnd(s, k) = k + 2
    <3>1. s[j] = ">" /\ j \in 1 .. Len(s)
      BY <1>1, <2>2
    <3>. QED  BY <1>3, <3>1, MessageEndIs
  <2>3. CASE j \in MessageEnd(s, k) .. p
    <3>1. MessageEnd(s, k) \in Int /\ j \in 1 .. Len(s) /\ p \in Int
      BY <1>2
    <3>. QED  BY <1>3, <2>3, <3>1, SpaceIsPlain
  <2>. QED  BY <1>1, <1>3, <2>1, <2>2, <2>3
<1>. QED  BY <1>2, <1>3

\* The messages up to p are messages of the text.
LEMMA PrefixMessages ==
  ASSUME NEW P, NEW s \in Seq(P), NEW p \in 0 .. Len(s),
         NEW mo \in {"unknown", "single", "array", "done"}, ReadTo(s, p, mo),
         ctype = "json", NEW b
  PROVE  MessagesTo(s, p) = {k \in Messages(s, b) : k <= p}
<1>. SUFFICES ASSUME NEW k \in 1 .. p, MessageAt(s, k)
              PROVE  IF IsList(s) THEN Listed(s, NextUsed(s, 1) + 1, k - 1) ELSE k = NextUsed(s, 1)
  BY DEF MessagesTo, Messages
<1>1. CASE mo \in {"unknown", "single"}
  <2>1. Spaces(s, 1, p) /\ 1 \in Int /\ p \in Int /\ k \in 1 .. Len(s)
    BY <1>1 DEF ReadTo
  <2>. QED  BY <2>1, SpaceIsPlain
<1>2. ASSUME NEW o, NEW q \in 0 .. p, ListFrom(s, o, q), k <= q
      PROVE  IsList(s) /\ Listed(s, NextUsed(s, 1) + 1, k - 1)
  <2>1. o \in 1 .. Len(s) /\ NextUsed(s, 1) = o /\ IsList(s)
    BY <1>2, FirstOfList
  <2>. QED  BY <1>2, <2>1 DEF ListFrom, Listed
<1>3. CASE mo = "array"
  <2>1. PICK o \in 1 .. p : ListFrom(s, o, p)
    BY <1>3 DEF ReadTo
  <2>2. p \in 0 .. p /\ k <= p
    OBVIOUS
  <2>. QED  BY <1>2, <2>1, <2>2
<1>4. CASE mo = "done" /\ OneDone(s, p)
  <2>1. PICK j \in 1 .. p : MessageAt(s, j) /\ Spaces(s, 1, j - 1) /\ Spaces(s, MessageEnd(s, j), p)
    BY <1>4 DEF OneDone
  <2>2. k = j
    BY <2>1, OnlyMessage DEF ReadTo
  <2>3. j \in 1 .. Len(s)
    OBVIOUS
  <2>4. NextUsed(s, 1) = j /\ ~IsList(s)
    BY <2>1, <2>3, FirstIsMessage
  <2>. QED  BY <2>2, <2>4
<1>5. CASE mo = "done" /\ ListDone(s, p)
  <2>1. PICK e \in 1 .. p : (\E o \in 1 .. p : ListFrom(s, o, e - 1)) /\ s[e] = "]" /\ Spaces(s, e + 1, p)
    BY <1>5 DEF ListDone
  <2>2. k # e
    BY <2>1, PlainPiece
  <2>3. ~(k > e)
    <3>. SUFFICES ASSUME k > e PROVE FALSE
      OBVIOUS
    <3>1. k \in e + 1 .. p /\ k \in 1 .. Len(s) /\ e + 1 \in Int /\ p \in Int
      OBVIOUS
    <3>. QED  BY <2>1, <3>1, SpaceIsPlain
  <2>4. k <= e - 1 /\ e - 1 \in 0 .. p
    BY <2>2, <2>3
  <2>. QED  BY <1>2, <2>1, <2>4
<1>. QED  BY <1>1, <1>3, <1>4, <1>5 DEF ReadTo

\* A text that is dealt with to its end is acceptable.
LEMMA ReadIsAcceptable ==
  ASSUME NEW P, NEW s \in Seq(P), NEW mo \in {"unknown", "array", "done"}, ReadTo(s, Len(s), mo),
         ctype = "json"
  PROVE  Acceptable(s)
<1>1. CASE mo = "unknown"
  BY <1>1 DEF ReadTo, Acceptable, Item
<1>2. CASE mo = "array"
  <2>1. PICK o \in 1 .. Len(s) : ListFrom(s, o, Len(s))
    BY <1>2 DEF ReadTo
  <2>2. NextUsed(s, 1) = o /\ IsList(s)
    BY <2>1, FirstOfList
  <2>3. Listed(s, o + 1, Len(s) + 1 - 1) /\ Spaces(s, Len(s) + 1 + 1, Len(s)) /\ Len(s) + 1 \in o + 1 .. Len(s) + 1
    BY <2>1 DEF ListFrom, Spaces
  <2>4. ~(Len(s) + 1 <= Len(s))
    OBVIOUS
  <2>. QED  BY <2>2, <2>3, <2>4 DEF Acceptable
<1>3. CASE mo = "done" /\ OneDone(s, Len(s))
  BY <1>3 DEF OneDone, Acceptable, Item
<1>4. CASE mo = "done" /\ ListDone(s, Len(s))
  <2>1. PICK e \in 1 .. Len(s), o \in 1 .. Len(s) : ListFrom(s, o, e - 1) /\ s[e] = "]" /\ Spaces(s, e + 1, Len(s))
    BY <1>4 DEF ListDone
  <2>2. NextUsed(s, 1) = o /\ IsList(s)
    <3>1. e - 1 \in 0 .. Len(s) /\ Len(s) \in 0 .. Len(s)
      OBVIOUS
    <3>. QED  BY <2>1, <3>1, FirstOfList
  <2>3. Listed(s, o + 1, e - 1) /\ e \in o + 1 .. Len(s) + 1
    BY <2>1 DEF ListFrom
  <2>. QED  BY <2>1, <2>2, <2>3 DEF Acceptable
<1>. QED  BY <1>1, <1>2, <1>3, <1>4 DEF ReadTo

------------------------------------------------------------------------------
(* Nothing that is wrong is part of anything acceptable *)

\* What is wrong at h is in no list.
LEMMA WrongNotListed ==
  ASSUME NEW P, NEW s \in Seq(P), NEW p \in 0 .. Len(s), Whole(s, p), NEW h \in 1 .. Len(s),
         WrongAt(s, p, "array", h), NEW i \in 1 .. p + 1, NEW j \in Int, h <= j
  PROVE  ~Listed(s, i, j)
<1>. SUFFICES ASSUME Listed(s, i, j) PROVE FALSE
  OBVIOUS
<1>1. /\ h \in p + 1 .. Len(s) /\ Spaces(s, p + 1, h - 1)
      /\ s[h] \notin Space \cup {"comma"} /\ ~MessageAt(s, h)
  BY DEF WrongAt
<1>2. h \in i .. j
  BY <1>1
<1>3. h > i /\ MessageEnd(s, h - 1) = h + 1
  BY <1>1, <1>2 DEF Listed
<1>4. h - 1 \in 1 .. Len(s) /\ s[h - 1] = "<"
  <2>1. h - 1 \in 1 .. Len(s) /\ h + 1 = (h - 1) + 2
    BY <1>1, <1>3
  <2>. QED  BY <1>3, <2>1 DEF MessageEnd
<1>5. CASE h - 1 = p
  BY <1>4, <1>5 DEF Whole
<1>6. CASE h - 1 # p
  <2>1. h - 1 \in p + 1 .. h - 1
    BY <1>1, <1>6
  <2>2. s[h - 1] \in Space
    BY <1>1, <2>1 DEF Spaces
  <2>. QED  BY <1>4, <2>2 DEF Space
<1>. QED  BY <1>5, <1>6

\* No message counts after the place where it went wrong.
LEMMA NothingAfterWrong ==
  ASSUME NEW P, NEW s \in Seq(P), NEW p \in 0 .. Len(s), NEW mo \in {"unknown", "single", "array"},
         ReadTo(s, p, mo), ctype = "json", NEW h \in 1 .. Len(s), WrongAt(s, p, mo, h),
         NEW b, NEW k \in Messages(s, b)
  PROVE  k <= p
<1>. SUFFICES ASSUME k > p PROVE FALSE
  <2>1. k \in 1 .. Len(s)
    BY DEF Messages
  <2>. QED  BY <2>1
<1>1. /\ h \in p + 1 .. Len(s) /\ Spaces(s, p + 1, h - 1) /\ s[h] \notin Space /\ ~MessageAt(s, h)
  BY DEF WrongAt
<1>2. /\ k \in 1 .. Len(s) /\ MessageAt(s, k)
      /\ IF IsList(s) THEN Listed(s, NextUsed(s, 1) + 1, k - 1) ELSE k = NextUsed(s, 1)
  BY DEF Messages
<1>3. k > h
  <2>1. k # h
    BY <1>1, <1>2
  <2>2. ~(k < h)
    <3>. SUFFICES ASSUME k < h PROVE FALSE
      OBVIOUS
    <3>1. k \in p + 1 .. h - 1 /\ p + 1 \in Int /\ h - 1 \in Int
      BY <1>1, <1>2
    <3>. QED  BY <1>1, <1>2, <3>1, SpaceIsPlain
  <2>. QED  BY <1>1, <1>2, <2>1, <2>2
<1>4. CASE mo \in {"unknown", "single"}
  <2>1. Spaces(s, 1, h - 1)
    BY <1>1, <1>4, SpacesJoin DEF ReadTo
  <2>2. NextUsed(s, 1) = h
    BY <1>1, <2>1, NextUsedIsOnly
  <2>3. ~IsList(s)
    BY <1>1, <1>4, <2>2 DEF IsList, WrongAt
  <2>. QED  BY <1>2, <1>3, <2>2, <2>3
<1>5. CASE mo = "array"
  <2>1. PICK o \in 1 .. p : ListFrom(s, o, p)
    BY <1>5 DEF ReadTo
  <2>2. NextUsed(s, 1) = o /\ IsList(s)
    BY <2>1, FirstOfList
  <2>3. Listed(s, o + 1, k - 1) /\ h <= k - 1 /\ k - 1 \in Int /\ o + 1 \in 1 .. p + 1
    BY <1>1, <1>2, <1>3, <2>2
  <2>. QED  BY <1>5, <2>3, WrongNotListed DEF ReadTo
<1>. QED  BY <1>4, <1>5

\* The bracket that closes a list is in none.
LEMMA ClosedOnce ==
  ASSUME NEW P, NEW s \in Seq(P), NEW k \in 1 .. Len(s), s[k] = "]",
         NEW i \in 1 .. k, NEW j \in Int, Listed(s, i, j)
  PROVE  j < k
<1>1. s[k] \notin {"m", "<", ">"} /\ s[k] \notin Space \cup {"comma"}
  BY DEF Space
<1>. QED  BY <1>1, PlainPiece

\* Nothing counts after one message, or after a list that is closed.
LEMMA NothingAfterDone ==
  ASSUME NEW P, NEW s \in Seq(P), NEW p \in 0 .. Len(s), ReadTo(s, p, "done"), ctype = "json",
         NEW b, NEW k \in Messages(s, b)
  PROVE  k <= p
<1>1. /\ k \in 1 .. Len(s)
      /\ IF IsList(s) THEN Listed(s, NextUsed(s, 1) + 1, k - 1) ELSE k = NextUsed(s, 1)
  BY DEF Messages
<1>2. CASE OneDone(s, p)
  <2>1. PICK j \in 1 .. p : MessageAt(s, j) /\ Spaces(s, 1, j - 1)
    BY <1>2 DEF OneDone
  <2>2. j \in 1 .. Len(s)
    OBVIOUS
  <2>3. NextUsed(s, 1) = j /\ ~IsList(s)
    BY <2>1, <2>2, FirstIsMessage
  <2>. QED  BY <1>1, <2>3
<1>3. CASE ListDone(s, p)
  <2>1. PICK c \in 1 .. p, o \in 1 .. p : ListFrom(s, o, c - 1) /\ s[c] = "]"
    BY <1>3 DEF ListDone
  <2>2. NextUsed(s, 1) = o /\ IsList(s) /\ o \in 1 .. c - 1
    <3>1. c - 1 \in 0 .. p
      OBVIOUS
    <3>. QED  BY <2>1, <3>1, FirstOfList DEF ListFrom
  <2>3. c \in 1 .. Len(s) /\ o + 1 \in 1 .. c /\ k - 1 \in Int /\ Listed(s, o + 1, k - 1)
    BY <1>1, <2>2
  <2>4. k - 1 < c
    BY <2>1, <2>3, ClosedOnce
  <2>. QED  BY <1>1, <2>4
<1>. QED  BY <1>2, <1>3 DEF ReadTo

\* With a wrong piece the text is neither a message,
LEMMA WrongIsNoItem ==
  ASSUME NEW P, NEW s \in Seq(P), NEW p \in 0 .. Len(s), NEW mo \in {"unknown", "single", "array", "done"},
         ReadTo(s, p, mo), NEW h \in 1 .. Len(s), WrongAt(s, p, mo, h)
  PROVE  ~Item(s, 1, Len(s))
<1>1. /\ h \in p + 1 .. Len(s) /\ Spaces(s, p + 1, h - 1) /\ s[h] \notin Space
  BY DEF WrongAt
<1>2. ~Spaces(s, 1, Len(s))
  BY <1>1 DEF Spaces
<1>. SUFFICES ASSUME NEW k \in 1 .. Len(s), MessageAt(s, k), Spaces(s, 1, k - 1),
                     Spaces(s, MessageEnd(s, k), Len(s))
              PROVE  FALSE
  BY <1>2 DEF Item
<1>3. NextUsed(s, 1) = k /\ ~IsList(s)
  BY FirstIsMessage
<1>4. CASE mo \in {"unknown", "single"}
  <2>1. Spaces(s, 1, h - 1)
    BY <1>1, <1>4, SpacesJoin DEF ReadTo
  <2>2. NextUsed(s, 1) = h
    BY <1>1, <2>1, NextUsedIsOnly
  <2>. QED  BY <1>3, <1>4, <2>2 DEF WrongAt
<1>5. ASSUME NEW o, NEW q \in 0 .. p, ListFrom(s, o, q) PROVE FALSE
  BY <1>3, <1>5, FirstOfList
<1>6. CASE mo = "array"
  <2>1. p \in 0 .. p
    OBVIOUS
  <2>. QED  BY <1>5, <1>6, <2>1 DEF ReadTo
<1>7. CASE mo = "done" /\ OneDone(s, p)
  <2>1. PICK j \in 1 .. p : MessageAt(s, j) /\ Spaces(s, 1, j - 1) /\ Spaces(s, MessageEnd(s, j), p)
    BY <1>7 DEF OneDone
  <2>2. MessageEnd(s, j) \in j + 1 .. p + 1
    BY <2>1, OnlyMessage DEF ReadTo
  <2>3. j \in 1 .. Len(s)
    OBVIOUS
  <2>4. j = k
    BY <1>3, <2>1, <2>3, FirstIsMessage
  <2>5. h \in MessageEnd(s, k) .. Len(s)
    BY <1>1, <2>2, <2>4
  <2>. QED  BY <1>1, <2>5 DEF Spaces
<1>8. CASE mo = "done" /\ ListDone(s, p)
  <2>1. PICK e \in 1 .. p, o \in 1 .. p : ListFrom(s, o, e - 1)
    BY <1>8 DEF ListDone
  <2>2. e - 1 \in 0 .. p
    OBVIOUS
  <2>. QED  BY <1>5, <2>1, <2>2
<1>. QED  BY <1>4, <1>6, <1>7, <1>8 DEF ReadTo

\* nor a list.
LEMMA WrongIsNoList ==
  ASSUME NEW P, NEW s \in Seq(P), NEW p \in 0 .. Len(s), NEW mo \in {"unknown", "single", "array", "done"},
         ReadTo(s, p, mo), NEW h \in 1 .. Len(s), WrongAt(s, p, mo, h), IsList(s),
         NEW e \in NextUsed(s, 1) + 1 .. Len(s) + 1, Listed(s, NextUsed(s, 1) + 1, e - 1),
         e <= Len(s) => s[e] = "]", Spaces(s, e + 1, Len(s))
  PROVE  FALSE
<1>1. /\ h \in p + 1 .. Len(s) /\ Spaces(s, p + 1, h - 1) /\ s[h] \notin Space
  BY DEF WrongAt
<1>2. NextUsed(s, 1) \in 1 .. Len(s) /\ s[NextUsed(s, 1)] = "["
  <2>1. 1 \in 1 .. Len(s) + 1
    OBVIOUS
  <2>2. NextUsed(s, 1) \in 1 .. Len(s) + 1
    BY <2>1, NextUsedIs
  <2>. QED  BY <2>2 DEF IsList
<1>3. e \in Nat /\ NextUsed(s, 1) < e /\ e <= Len(s) + 1
  BY <1>2
<1>4. CASE mo \in {"unknown", "single"}
  <2>1. Spaces(s, 1, h - 1)
    BY <1>1, <1>4, SpacesJoin DEF ReadTo
  <2>2. NextUsed(s, 1) = h
    BY <1>1, <2>1, NextUsedIsOnly
  <2>. QED  BY <1>2, <1>4, <2>2 DEF WrongAt
<1>5. CASE mo = "array"
  <2>1. PICK o \in 1 .. p : ListFrom(s, o, p)
    BY <1>5 DEF ReadTo
  <2>2. NextUsed(s, 1) = o /\ o \in 1 .. p
    BY <2>1, FirstOfList
  <2>3. s[h] # "]"
    BY <1>5 DEF WrongAt
  <2>4. CASE e <= p
    <3>1. e \in 1 .. Len(s) /\ s[e] = "]" /\ o + 1 \in 1 .. e /\ p \in Int
      BY <1>3, <2>2, <2>4
    <3>2. p < e
      BY <2>1, <3>1, ClosedOnce DEF ListFrom
    <3>. QED  BY <1>3, <2>4, <3>2
  <2>5. CASE p < e /\ e < h
    <3>1. e \in p + 1 .. h - 1 /\ e <= Len(s)
      BY <1>1, <1>3, <2>5
    <3>2. s[e] \in Space
      BY <1>1, <3>1 DEF Spaces
    <3>. QED  BY <3>1, <3>2 DEF Space
  <2>6. CASE e = h
    BY <1>1, <2>3, <2>6
  <2>7. CASE h < e
    <3>1. h <= e - 1 /\ e - 1 \in Int /\ o + 1 \in 1 .. p + 1 /\ Listed(s, o + 1, e - 1)
      BY <1>1, <1>3, <2>2, <2>7
    <3>. QED  BY <1>5, <3>1, WrongNotListed DEF ReadTo
  <2>. QED  BY <1>1, <1>3, <2>4, <2>5, <2>6, <2>7
<1>6. CASE mo = "done" /\ OneDone(s, p)
  <2>1. PICK j \in 1 .. p : MessageAt(s, j) /\ Spaces(s, 1, j - 1)
    BY <1>6 DEF OneDone
  <2>2. j \in 1 .. Len(s)
    OBVIOUS
  <2>. QED  BY <2>1, <2>2, FirstIsMessage
<1>7. CASE mo = "done" /\ ListDone(s, p)
  <2>1. PICK c \in 1 .. p, o \in 1 .. p : ListFrom(s, o, c - 1) /\ s[c] = "]"
    BY <1>7 DEF ListDone
  <2>2. NextUsed(s, 1) = o /\ o \in 1 .. c - 1 /\ Listed(s, o + 1, c - 1)
    <3>1. c - 1 \in 0 .. p
      OBVIOUS
    <3>. QED  BY <2>1, <3>1, FirstOfList DEF ListFrom
  <2>3. CASE e < c
    <3>1. e \in 1 .. Len(s) /\ s[e] = "]" /\ o + 1 \in 1 .. e /\ c - 1 \in Int
      BY <1>3, <2>2, <2>3
    <3>2. c - 1 < e
      BY <2>2, <3>1, ClosedOnce
    <3>. QED  BY <1>3, <2>3, <3>2
  <2>4. CASE e = c
    <3>1. h \in e + 1 .. Len(s)
      BY <1>1, <2>4
    <3>. QED  BY <1>1, <3>1 DEF Spaces
  <2>5. CASE c < e
    <3>1. c \in 1 .. Len(s) /\ o + 1 \in 1 .. c /\ e - 1 \in Int /\ Listed(s, o + 1, e - 1)
      BY <1>3, <2>2
    <3>2. e - 1 < c
      BY <2>1, <3>1, ClosedOnce
    <3>. QED  BY <1>3, <2>5, <3>2
  <2>. QED  BY <1>3, <2>3, <2>4, <2>5
<1>. QED  BY <1>4, <1>5, <1>6, <1>7 DEF ReadTo

\* A text with something wrong after what is dealt with is not acceptable.
LEMMA WrongIsRefused ==
  ASSUME NEW P, NEW s \in Seq(P), NEW p \in 0 .. Len(s), NEW mo \in {"unknown", "single", "array", "done"},
         ReadTo(s, p, mo), ctype = "json", NEW h \in 1 .. Len(s), WrongAt(s, p, mo, h)
  PROVE  ~Acceptable(s)
<1>1. ~Item(s, 1, Len(s))
  BY WrongIsNoItem
<1>2. ASSUME IsList(s), NEW e \in NextUsed(s, 1) + 1 .. Len(s) + 1, Listed(s, NextUsed(s, 1) + 1, e - 1),
             e <= Len(s) => s[e] = "]", Spaces(s, e + 1, Len(s))
      PROVE  FALSE
  BY <1>2, WrongIsNoList
<1>. QED  BY <1>1, <1>2 DEF Acceptable

\* What is wrong stays wrong whatever follows, but for a message that is cut.
LEMMA WrongForEver ==
  ASSUME NEW P, NEW s \in Seq(P), NEW t \in Seq(P), Len(s) <= Len(t),
         \A k \in 1 .. Len(s) : t[k] = s[k],
         NEW p \in 0 .. Len(s), NEW mo \in {"unknown", "single", "array", "done"}, ReadTo(s, p, mo),
         ctype = "json", NEW h \in 1 .. Len(s), WrongAt(s, p, mo, h), mo = "done" \/ s[h] # "<"
  PROVE  ~Acceptable(t)
<1>1. h \in p + 1 .. Len(s) /\ Spaces(s, p + 1, h - 1) /\ s[h] \notin Space /\ t[h] = s[h]
  BY DEF WrongAt
<1>2. ReadTo(t, p, mo)
  BY LongerRead
<1>3. h \in p + 1 .. Len(t) /\ h \in 1 .. Len(t) /\ p \in 0 .. Len(t)
  BY <1>1
<1>4. Spaces(t, p + 1, h - 1)
  BY <1>1 DEF Spaces
<1>5. ASSUME mo # "done" PROVE ~MessageAt(t, h)
  <2>1. ~MessageAt(s, h) /\ s[h] # "<"
    BY <1>5 DEF WrongAt
  <2>. QED  BY <1>1, <1>3, <2>1, MessageEndIs
<1>6. WrongAt(t, p, mo, h)
  BY <1>1, <1>3, <1>4, <1>5 DEF WrongAt
<1>. QED  BY <1>2, <1>3, <1>6, WrongIsRefused

\* What the JSON library takes is acceptable, if it is of messages.
LEMMA WellFormedIsAcceptable ==
  ASSUME NEW P, NEW s \in Seq(P), ctype = "json", Loads(s),
         \A k \in DOMAIN s : s[k] # "x" /\ (s[k] = "[" => k = NextUsed(s, 1))
  PROVE  Acceptable(s)
<1>. DEFINE u == NextUsed(s, 1)
            e == ValueEnd(s, 1)
<1>1. u \in 1 .. Len(s) + 1 /\ Spaces(s, 1, u - 1) /\ (u <= Len(s) => s[u] \notin Space)
  <2>1. 1 \in 1 .. Len(s) + 1
    OBVIOUS
  <2>. QED  BY <2>1, NextUsedIs
<1>2. e = ValueEnd(s, u) /\ e # 0 /\ Spaces(s, e, Len(s))
  <2>1. 1 \in 1 .. u
    BY <1>1
  <2>. QED  BY <1>1, <2>1, ValueAfterSpaces DEF Loads
<1>3. u \in 1 .. Len(s) /\ s[u] \notin Space
  BY <1>1, <1>2, NoValueAfterAll
<1>4. InRange(e, s, u)
  BY <1>2, <1>3, ValueEndRange
<1>5. e \in u + 1 .. Len(s) + 1
  BY <1>2, <1>4 DEF InRange
<1>6. CASE s[u] # "["
  <2>1. s[u] \notin Space \cup {"x", "["}
    BY <1>3, <1>6
  <2>2. e = MessageEnd(s, u)
    BY <1>2, <1>3, <2>1, ValueIsMessage
  <2>3. MessageAt(s, u)
    BY <1>2, <2>2 DEF MessageAt
  <2>. QED  BY <1>1, <1>2, <1>3, <2>2, <2>3 DEF Acceptable, Item
<1>7. CASE s[u] = "["
  <2>1. \A k \in u + 1 .. Len(s) : s[k] \notin {"x", "["}
    BY <1>3
  <2>2. Fine(s, u + 1)
    <3>1. u + 1 \in u + 1 .. Len(s) + 1
      BY <1>3
    <3>. HIDE DEF u
    <3>. QED  BY <1>3, <2>1, <3>1, ListsAreFine
  <2>3. e = Ends(s)[u + 1]["first"]
    <3>1. e = EndAt(Ends(s), s, u, "value")
      BY <1>2, <1>3, EndsAre DEF ValueEnd, Modes
    <3>2. EndAt(Ends(s), s, u, "value") = ElementEnd(Ends(s), s, u)
      BY <1>3, <1>7, EndAtIs DEF Modes, Space
    <3>3. ElementEnd(Ends(s), s, u) = Ends(s)[u + 1]["first"]
      BY <1>7 DEF ElementEnd
    <3>. QED  BY <3>1, <3>2, <3>3
  <2>4. ClosedList(s, u + 1, e)
    BY <1>2, <2>2, <2>3 DEF Fine
  <2>. HIDE DEF u, e
  <2>5. e - 1 \in u + 1 .. Len(s) + 1 /\ e - 1 <= Len(s) /\ s[e - 1] = "]" /\ Listed(s, u + 1, (e - 1) - 1)
    BY <1>3, <1>5, <2>4 DEF ClosedList
  <2>6. Spaces(s, (e - 1) + 1, Len(s)) /\ IsList(s)
    BY <1>2, <1>3, <1>5, <1>7 DEF IsList, u
  <2>. QED  BY <2>5, <2>6 DEF Acceptable, u
<1>. QED  BY <1>6, <1>7

------------------------------------------------------------------------------
(* The buffer as a window of the text *)

\* t is what s holds after its place d, to its end or to a place where nothing is cut.
Window(t, s, d) ==
  /\ d \in Nat /\ d + Len(t) <= Len(s)
  /\ \A k \in 1 .. Len(t) : t[k] = s[d + k]
  /\ d + Len(t) = Len(s) \/ Len(t) = 0 \/ t[Len(t)] # "<"

\* In a window everything stands where it stands in the text.
LEMMA WindowIs ==
  ASSUME NEW P, NEW s \in Seq(P), NEW t \in Seq(P), NEW d \in Nat, Window(t, s, d)
  PROVE  /\ \A k \in 1 .. Len(t) : /\ d + k \in 1 .. Len(s) /\ t[k] = s[d + k]
                                   /\ MessageAt(t, k) <=> MessageAt(s, d + k)
                                   /\ MessageAt(t, k) => MessageEnd(s, d + k) = d + MessageEnd(t, k)
         /\ \A i, j \in Int : 1 <= i /\ j <= Len(t) => (Spaces(t, i, j) <=> Spaces(s, d + i, d + j))
<1>1. /\ d + Len(t) <= Len(s) /\ \A k \in 1 .. Len(t) : t[k] = s[d + k]
      /\ d + Len(t) = Len(s) \/ Len(t) = 0 \/ t[Len(t)] # "<"
  BY DEF Window
<1>2. ASSUME NEW k \in 1 .. Len(t)
      PROVE  /\ d + k \in 1 .. Len(s) /\ t[k] = s[d + k]
             /\ MessageAt(t, k) <=> MessageAt(s, d + k)
             /\ MessageAt(t, k) => MessageEnd(s, d + k) = d + MessageEnd(t, k)
  <2>1. d + k \in 1 .. Len(s) /\ t[k] = s[d + k]
    BY <1>1
  <2>2. CASE k < Len(t)
    <3>1. k + 1 \in 1 .. Len(t) /\ t[k + 1] = s[d + k + 1] /\ d + k < Len(s)
      BY <1>1, <2>2
    <3>2. MessageAt(t, k) <=> MessageAt(s, d + k)
      BY <2>1, <2>2, <3>1, MessageEndIs
    <3>3. MessageAt(t, k) => MessageEnd(s, d + k) = d + MessageEnd(t, k)
      <4>. SUFFICES ASSUME MessageAt(t, k) PROVE MessageEnd(s, d + k) = d + MessageEnd(t, k)
        OBVIOUS
      <4>1. CASE t[k] = "m"
        <5>1. MessageEnd(t, k) = k + 1
          BY <4>1, MessageEndIs
        <5>2. d + k \in 1 .. Len(s) /\ MessageAt(s, d + k) /\ s[d + k] = "m"
          BY <2>1, <3>2, <4>1
        <5>3. MessageEnd(s, d + k) = d + k + 1
          BY <5>2, MessageEndIs
        <5>. QED  BY <5>1, <5>3
      <4>2. CASE t[k] = "<"
        <5>1. MessageEnd(t, k) = k + 2
          BY <4>2, MessageEndIs
        <5>2. d + k \in 1 .. Len(s) /\ MessageAt(s, d + k) /\ s[d + k] = "<"
          BY <2>1, <3>2, <4>2
        <5>3. MessageEnd(s, d + k) = d + k + 2
          BY <5>2, MessageEndIs
        <5>. QED  BY <5>1, <5>3
      <4>. QED  BY <4>1, <4>2, MessageEndIs
    <3>. QED  BY <2>1, <3>2, <3>3
  <2>3. CASE k = Len(t)
    <3>1. MessageAt(t, k) <=> t[k] = "m"
      BY <2>3, MessageEndIs
    <3>2. MessageAt(s, d + k) <=> s[d + k] = "m"
      BY <1>1, <2>1, <2>3, MessageEndIs
    <3>3. MessageAt(t, k) => MessageEnd(s, d + k) = d + MessageEnd(t, k)
      <4>. SUFFICES ASSUME MessageAt(t, k) PROVE MessageEnd(s, d + k) = d + MessageEnd(t, k)
        OBVIOUS
      <4>1. MessageEnd(t, k) = k + 1 /\ MessageEnd(s, d + k) = d + k + 1
        BY <2>1, <3>1, <3>2, MessageEndIs
      <4>. QED  BY <4>1
    <3>. QED  BY <2>1, <3>1, <3>2, <3>3
  <2>. QED  BY <2>2, <2>3
<1>3. ASSUME NEW i \in Int, NEW j \in Int, 1 <= i, j <= Len(t)
      PROVE  Spaces(t, i, j) <=> Spaces(s, d + i, d + j)
  <2>1. ASSUME Spaces(t, i, j), NEW k \in d + i .. d + j PROVE s[k] \in Space
    <3>1. k - d \in i .. j /\ k - d \in 1 .. Len(t) /\ d + (k - d) = k
      BY <1>3
    <3>2. t[k - d] \in Space /\ t[k - d] = s[k]
      BY <1>1, <2>1, <3>1 DEF Spaces
    <3>. QED  BY <3>2
  <2>2. ASSUME Spaces(s, d + i, d + j), NEW k \in i .. j PROVE t[k] \in Space
    <3>1. d + k \in d + i .. d + j /\ k \in 1 .. Len(t)
      BY <1>3
    <3>2. s[d + k] \in Space /\ t[k] = s[d + k]
      BY <1>1, <2>2, <3>1 DEF Spaces
    <3>. QED  BY <3>2
  <2>. QED  BY <2>1, <2>2 DEF Spaces
<1>. QED  BY <1>2, <1>3

\* So an item of the window is one of the text.
LEMMA WindowItem ==
  ASSUME NEW P, NEW s \in Seq(P), NEW t \in Seq(P), NEW d \in Nat, Window(t, s, d)
  PROVE  Item(t, 1, Len(t)) <=> Item(s, d + 1, d + Len(t))
<1>1. /\ \A k \in 1 .. Len(t) : /\ d + k \in 1 .. Len(s) /\ t[k] = s[d + k]
                                /\ MessageAt(t, k) <=> MessageAt(s, d + k)
                                /\ MessageAt(t, k) => MessageEnd(s, d + k) = d + MessageEnd(t, k)
      /\ \A i, j \in Int : 1 <= i /\ j <= Len(t) => (Spaces(t, i, j) <=> Spaces(s, d + i, d + j))
  BY WindowIs
<1>2. Spaces(t, 1, Len(t)) <=> Spaces(s, d + 1, d + Len(t))
  BY <1>1
<1>3. ASSUME NEW k \in 1 .. Len(t), MessageAt(t, k)
      PROVE  /\ Spaces(t, 1, k - 1) <=> Spaces(s, d + 1, d + k - 1)
             /\ Spaces(t, MessageEnd(t, k), Len(t)) <=> Spaces(s, MessageEnd(s, d + k), d + Len(t))
  <2>1. Spaces(t, 1, k - 1) <=> Spaces(s, d + 1, d + (k - 1))
    BY <1>1
  <2>2. PICK e \in Int : e = MessageEnd(t, k) /\ 1 <= e
    BY <1>3, MessageEndIs DEF MessageAt
  <2>3. Spaces(t, e, Len(t)) <=> Spaces(s, d + e, d + Len(t))
    <3>1. PICK n \in Int : n = Len(t)
      OBVIOUS
    <3>2. \A i, j \in Int : 1 <= i /\ j <= n => (Spaces(t, i, j) <=> Spaces(s, d + i, d + j))
      BY <1>1, <3>1
    <3>3. 1 <= e /\ n <= n
      BY <2>2, <3>1
    <3>4. Spaces(t, e, n) <=> Spaces(s, d + e, d + n)
      BY <3>2, <3>3
    <3>. QED  BY <3>1, <3>4
  <2>4. d + (k - 1) = d + k - 1
    OBVIOUS
  <2>. QED  BY <1>1, <1>3, <2>1, <2>2, <2>3, <2>4
<1>4. ASSUME NEW k \in 1 .. Len(t), MessageAt(t, k), Spaces(t, 1, k - 1), Spaces(t, MessageEnd(t, k), Len(t))
      PROVE  Item(s, d + 1, d + Len(t))
  <2>1. d + k \in d + 1 .. d + Len(t) /\ MessageAt(s, d + k)
    BY <1>1, <1>4
  <2>2. Spaces(s, d + 1, d + k - 1) /\ Spaces(s, MessageEnd(s, d + k), d + Len(t))
    BY <1>3, <1>4
  <2>. QED  BY <2>1, <2>2 DEF Item
<1>5. ASSUME NEW k \in d + 1 .. d + Len(t), MessageAt(s, k), Spaces(s, d + 1, k - 1), Spaces(s, MessageEnd(s, k), d + Len(t))
      PROVE  Item(t, 1, Len(t))
  <2>1. k - d \in 1 .. Len(t) /\ d + (k - d) = k
    OBVIOUS
  <2>2. MessageAt(t, k - d)
    BY <1>1, <1>5, <2>1
  <2>3. Spaces(t, 1, k - d - 1) /\ Spaces(t, MessageEnd(t, k - d), Len(t))
    BY <1>3, <1>5, <2>1, <2>2
  <2>. QED  BY <2>1, <2>2, <2>3 DEF Item
<1>. QED  BY <1>2, <1>4, <1>5 DEF Item

\* json.loads and _decode_message tell whether a line is one.
LEMMA LineIsItem ==
  ASSUME NEW P, NEW s \in Seq(P)
  PROVE  /\ Blank(s) => Item(s, 1, Len(s))
         /\ Loads(s) => NextUsed(s, 1) \in 1 .. Len(s)
         /\ Loads(s) /\ MessageAt(s, NextUsed(s, 1)) => Item(s, 1, Len(s))
         /\ Item(s, 1, Len(s)) => Blank(s) \/ (Loads(s) /\ MessageAt(s, NextUsed(s, 1)))
<1>. DEFINE u == NextUsed(s, 1)
            e == ValueEnd(s, 1)
<1>1. u \in 1 .. Len(s) + 1 /\ Spaces(s, 1, u - 1) /\ (u <= Len(s) => s[u] \notin Space)
  <2>1. 1 \in 1 .. Len(s) + 1
    OBVIOUS
  <2>. QED  BY <2>1, NextUsedIs
<1>2. e = ValueEnd(s, u)
  <2>1. 1 \in 1 .. u
    BY <1>1
  <2>. QED  BY <1>1, <2>1, ValueAfterSpaces
<1>3. Loads(s) => u \in 1 .. Len(s)
  BY <1>1, <1>2, NoValueAfterAll DEF Loads
<1>4. ASSUME u \in 1 .. Len(s), MessageAt(s, u) PROVE e = MessageEnd(s, u)
  <2>1. s[u] \in {"m", "<"}
    BY <1>4, MessageEndIs
  <2>2. s[u] \notin Space \cup {"x", "["}
    BY <2>1 DEF Space
  <2>. QED  BY <1>2, <1>4, <2>2, ValueIsMessage
<1>5. ASSUME Loads(s), MessageAt(s, u) PROVE Item(s, 1, Len(s))
  <2>1. u \in 1 .. Len(s) /\ Spaces(s, MessageEnd(s, u), Len(s))
    BY <1>3, <1>4, <1>5 DEF Loads
  <2>. QED  BY <1>1, <1>5, <2>1 DEF Item
<1>6. ASSUME NEW k \in 1 .. Len(s), MessageAt(s, k), Spaces(s, 1, k - 1), Spaces(s, MessageEnd(s, k), Len(s))
      PROVE  Loads(s) /\ MessageAt(s, u)
  <2>1. u = k
    BY <1>6, FirstIsMessage
  <2>2. e = MessageEnd(s, k) /\ MessageEnd(s, k) # 0
    BY <1>4, <1>6, <2>1 DEF MessageAt
  <2>. QED  BY <1>6, <2>1, <2>2 DEF Loads
<1>. QED  BY <1>3, <1>5, <1>6 DEF Item, Blank

\* The first end of a line in the buffer.
LEMMA FirstEndIs ==
  ASSUME NEW P, buffer \in Seq(P), HasLine
  PROVE  FirstEnd \in 1 .. Len(buffer) /\ buffer[FirstEnd] = "nl" /\ \A k \in 1 .. FirstEnd - 1 : buffer[k] # "nl"
<1>. DEFINE I == {i \in 1 .. Len(buffer) : buffer[i] = "nl"}
<1>1. I # {}
  BY DEF HasLine, Contains
<1>2. FirstEnd = CHOOSE x \in I : \A y \in I : x <= y
  BY <1>1 DEF FirstEnd, SelectInSeq, Min
<1>3. \E x \in I : \A y \in I : x <= y
  <2>1. I \in SUBSET Nat
    OBVIOUS
  <2>. HIDE DEF I
  <2>. QED  BY <1>1, <2>1, Least
<1>4. FirstEnd \in I /\ \A y \in I : FirstEnd <= y
  <2>. HIDE DEF I
  <2>. QED  BY <1>2, <1>3
<1>. QED  BY <1>4

------------------------------------------------------------------------------
(* Lines *)

\* A line begins after place d.
AtLineStart(s, d) == d = 0 \/ s[d] = "nl"

\* Where lines end.
LEMMA EndsOfLines ==
  ASSUME NEW P, NEW s \in Seq(P)
  PROVE  \A e : e \in LineEnds(s) <=> e \in 1 .. Len(s) /\ s[e] = "nl"
  BY DEF LineEnds

\* A line more is good.
LEMMA OneMoreLine ==
  ASSUME NEW P, NEW s \in Seq(P), NEW d \in Nat, NEW e \in d + 1 .. Len(s), AtLineStart(s, d),
         s[e] = "nl", \A k \in d + 1 .. e - 1 : s[k] # "nl", LinesGood(s, d + 1)
  PROVE  /\ LineStart(s, e) = d + 1
         /\ Item(s, d + 1, e) <=> LinesGood(s, e + 1)
<1>1. e \in 1 .. Len(s) + 1 /\ d + 1 \in 1 .. e /\ e \in Nat
  OBVIOUS
<1>2. LineStart(s, e) = d + 1
  BY <1>1, LineStartIsOnly DEF AtLineStart
<1>3. ASSUME Item(s, d + 1, e), NEW f \in LineEnds(s), f < e + 1 PROVE Item(s, LineStart(s, f), f)
  <2>1. f \in 1 .. Len(s) /\ s[f] = "nl"
    BY EndsOfLines
  <2>2. CASE f < d + 1
    BY <2>2 DEF LinesGood
  <2>3. CASE ~(f < d + 1)
    <3>1. f = e
      BY <1>3, <2>1, <2>3
    <3>. QED  BY <1>2, <1>3, <3>1
  <2>. QED  BY <2>2, <2>3
<1>4. ASSUME LinesGood(s, e + 1) PROVE Item(s, d + 1, e)
  <2>1. e \in LineEnds(s) /\ e < e + 1
    BY <1>1, EndsOfLines
  <2>. QED  BY <1>2, <1>4, <2>1 DEF LinesGood
<1>. QED  BY <1>2, <1>3, <1>4 DEF LinesGood

\* A bad line makes the text bad.
LEMMA LinesGoodBefore ==
  ASSUME NEW s, NEW i \in Int, NEW j \in Int, i <= j, LinesGood(s, j), LineEnds(s) \subseteq Nat
  PROVE  LinesGood(s, i)
  BY DEF LinesGood

\* The line that does not end.
LEMMA LastStart ==
  ASSUME NEW P, NEW s \in Seq(P), NEW d \in 0 .. Len(s), AtLineStart(s, d),
         \A k \in d + 1 .. Len(s) : s[k] # "nl", LinesGood(s, d + 1)
  PROVE  LineStart(s, Len(s) + 1) = d + 1 /\ LinesGood(s, Len(s) + 1)
<1>1. Len(s) + 1 \in 1 .. Len(s) + 1 /\ d + 1 \in 1 .. Len(s) + 1 /\ Len(s) + 1 - 1 = Len(s)
  OBVIOUS
<1>2. LineStart(s, Len(s) + 1) = d + 1
  BY <1>1, LineStartIsOnly DEF AtLineStart
<1>3. \A e \in LineEnds(s) : e < d + 1
  BY EndsOfLines
<1>. QED  BY <1>2, <1>3 DEF LinesGood

\* Lines that have ended stay what they are when the text grows.
LEMMA LongerLines ==
  ASSUME NEW P, NEW s \in Seq(P), NEW t \in Seq(P), Len(s) <= Len(t),
         \A k \in 1 .. Len(s) : t[k] = s[k], NEW d \in 0 .. Len(s), AtLineStart(s, d),
         LinesGood(s, d + 1)
  PROVE  AtLineStart(t, d) /\ LinesGood(t, d + 1) /\ MessagesTo(t, d) = MessagesTo(s, d)
<1>1. AtLineStart(t, d) /\ Whole(s, d)
  BY DEF AtLineStart, Whole
<1>2. /\ \A k \in 1 .. d : MessageEnd(t, k) = MessageEnd(s, k) /\ (MessageAt(t, k) <=> MessageAt(s, k))
      /\ \A i, j \in Int : 1 <= i /\ j <= Len(s) => (Spaces(t, i, j) <=> Spaces(s, i, j))
  BY <1>1, Longer
<1>3. MessagesTo(t, d) = MessagesTo(s, d)
  BY <1>2 DEF MessagesTo
<1>4. ASSUME NEW e \in 1 .. d, t[e] = "nl" PROVE Item(t, LineStart(t, e), e)
  <2>1. e \in 1 .. Len(s) + 1 /\ e \in 1 .. Len(t) + 1 /\ s[e] = "nl" /\ e \in 1 .. Len(s)
    BY <1>4
  <2>2. PICK a \in 1 .. e : a = LineStart(s, e)
    BY <2>1, LineStartIs
  <2>3. (a = 1 \/ s[a - 1] = "nl") /\ \A k \in a .. e - 1 : s[k] # "nl"
    BY <2>1, <2>2, LineStartIs
  <2>4. LineStart(t, e) = a
    <3>1. a = 1 \/ t[a - 1] = "nl"
      <4>1. a = 1 \/ a - 1 \in 1 .. Len(s)
        BY <2>1
      <4>. QED  BY <2>3, <4>1
    <3>2. ASSUME NEW k \in a .. e - 1 PROVE t[k] # "nl"
      <4>1. k \in 1 .. Len(s)
        BY <2>1
      <4>. QED  BY <2>3, <4>1
    <3>. QED  BY <2>1, <3>1, <3>2, LineStartIsOnly
  <2>5. Item(s, a, e)
    <3>1. e \in LineEnds(s) /\ e < d + 1
      BY <2>1, EndsOfLines
    <3>. QED  BY <2>2, <3>1 DEF LinesGood
  <2>6. Spaces(s, a, e) => Spaces(t, a, e)
    BY <1>2
  <2>7. ASSUME NEW k \in a .. e, MessageAt(s, k), Spaces(s, a, k - 1), Spaces(s, MessageEnd(s, k), e)
        PROVE  MessageAt(t, k) /\ Spaces(t, a, k - 1) /\ Spaces(t, MessageEnd(t, k), e)
    <3>1. PICK f \in Int : f = MessageEnd(s, k) /\ 1 <= f
      BY <2>7, MessageEndIs DEF MessageAt
    <3>2. MessageAt(t, k) /\ MessageEnd(t, k) = f
      BY <1>2, <2>7, <3>1
    <3>3. Spaces(t, a, k - 1)
      BY <1>2, <2>7
    <3>4. Spaces(t, f, e)
      BY <1>2, <2>7, <3>1
    <3>. QED  BY <3>2, <3>3, <3>4
  <2>8. Item(t, a, e)
    BY <2>5, <2>6, <2>7 DEF Item
  <2>. QED  BY <2>4, <2>8
<1>5. LinesGood(t, d + 1)
  <2>1. \A e \in LineEnds(t) : e < d + 1 => e \in 1 .. d /\ t[e] = "nl"
    BY EndsOfLines
  <2>. QED  BY <1>4, <2>1 DEF LinesGood
<1>. QED  BY <1>1, <1>3, <1>5

\* A line that has ended and is bad stays bad whatever follows.
LEMMA BadLineForEver ==
  ASSUME NEW P, NEW s \in Seq(P), NEW t \in Seq(P), Len(s) <= Len(t),
         \A k \in 1 .. Len(s) : t[k] = s[k], NEW d \in 0 .. Len(s), AtLineStart(s, d),
         LinesGood(s, d + 1), NEW e \in d + 1 .. Len(s), s[e] = "nl",
         \A k \in d + 1 .. e - 1 : s[k] # "nl", ~Item(s, d + 1, e), ctype = "ndjson"
  PROVE  ~Acceptable(t)
<1>1. AtLineStart(t, d) /\ LinesGood(t, d + 1)
  BY LongerLines
<1>2. Whole(s, e) /\ e \in 0 .. Len(s)
  BY DEF Whole
<1>3. /\ \A k \in 1 .. e : MessageEnd(t, k) = MessageEnd(s, k) /\ (MessageAt(t, k) <=> MessageAt(s, k))
      /\ \A i, j \in Int : 1 <= i /\ j <= Len(s) => (Spaces(t, i, j) <=> Spaces(s, i, j))
  BY <1>2, Longer
<1>4. ~Item(t, d + 1, e)
  <2>. SUFFICES ASSUME Item(t, d + 1, e) PROVE Item(s, d + 1, e)
    OBVIOUS
  <2>1. CASE Spaces(t, d + 1, e)
    <3>1. Spaces(s, d + 1, e)
      BY <1>3, <2>1
    <3>. QED  BY <3>1 DEF Item
  <2>2. ASSUME NEW k \in d + 1 .. e, MessageAt(t, k), Spaces(t, d + 1, k - 1), Spaces(t, MessageEnd(t, k), e)
        PROVE  Item(s, d + 1, e)
    <3>1. k \in 1 .. e /\ k \in 1 .. Len(s) /\ k \in Int /\ k - 1 <= Len(s)
      OBVIOUS
    <3>2. MessageAt(s, k) /\ MessageEnd(t, k) = MessageEnd(s, k)
      BY <1>3, <2>2, <3>1
    <3>3. PICK f \in Int : f = MessageEnd(s, k) /\ 1 <= f
      BY <3>1, <3>2, MessageEndIs DEF MessageAt
    <3>4. Spaces(s, d + 1, k - 1)
      BY <1>3, <2>2, <3>1
    <3>5. Spaces(s, f, e)
      BY <1>3, <2>2, <3>2, <3>3
    <3>. QED  BY <3>2, <3>3, <3>4, <3>5 DEF Item
  <2>. QED  BY <2>1, <2>2 DEF Item
<1>5. ~LinesGood(t, e + 1)
  <2>1. e \in d + 1 .. Len(t) /\ t[e] = "nl" /\ \A k \in d + 1 .. e - 1 : t[k] # "nl"
    OBVIOUS
  <2>. QED  BY <1>1, <1>4, <2>1, OneMoreLine
<1>6. ~LinesGood(t, Len(t) + 1)
  <2>1. e + 1 <= Len(t) + 1 /\ e + 1 \in Int /\ Len(t) + 1 \in Int /\ LineEnds(t) \subseteq Nat
    BY EndsOfLines
  <2>. QED  BY <1>5, <2>1, LinesGoodBefore
<1>. QED  BY <1>6 DEF Acceptable

\* No message counts after the lines before a bad one.
LEMMA NothingAfterBadLine ==
  ASSUME NEW P, NEW s \in Seq(P), NEW d \in 0 .. Len(s), AtLineStart(s, d),
         NEW e \in d + 1 .. Len(s), s[e] = "nl", \A k \in d + 1 .. e - 1 : s[k] # "nl",
         ~Item(s, d + 1, e), ctype = "ndjson", NEW k \in Messages(s, FALSE)
  PROVE  k <= d
<1>. SUFFICES ASSUME k > d PROVE FALSE
  <2>1. k \in 1 .. Len(s)
    BY DEF Messages
  <2>. QED  BY <2>1
<1>1. k \in 1 .. Len(s) /\ MessageAt(s, k) /\ LinesGood(s, k)
  BY DEF Messages
<1>2. PICK f \in LineEnds(s) : f > k /\ Item(s, LineStart(s, k), f)
  BY DEF Messages
<1>3. f \in 1 .. Len(s) /\ s[f] = "nl" /\ e \in LineEnds(s)
  BY <1>2, EndsOfLines
<1>4. ~(k > e)
  <2>. SUFFICES ASSUME e < k PROVE FALSE
    BY <1>1
  <2>1. LineStart(s, e) = d + 1
    <3>1. e \in 1 .. Len(s) + 1 /\ d + 1 \in 1 .. e
      OBVIOUS
    <3>. QED  BY <3>1, LineStartIsOnly DEF AtLineStart
  <2>. QED  BY <1>1, <1>3, <2>1 DEF LinesGood
<1>5. k # e
  BY <1>1, MessageEndIs
<1>6. k \in d + 1 .. e - 1 /\ e <= f
  BY <1>1, <1>2, <1>3, <1>4, <1>5
<1>7. LineStart(s, k) = d + 1
  <2>1. k \in 1 .. Len(s) + 1 /\ d + 1 \in 1 .. k /\ \A l \in d + 1 .. k - 1 : s[l] # "nl"
    BY <1>1, <1>6
  <2>. QED  BY <2>1, LineStartIsOnly DEF AtLineStart
<1>8. ~Spaces(s, d + 1, f)
  <2>1. k \in d + 1 .. f /\ d + 1 \in Int /\ f \in Int
    BY <1>3, <1>6
  <2>. QED  BY <1>1, <2>1, SpaceIsPlain
<1>9. PICK l \in d + 1 .. f : MessageAt(s, l) /\ Spaces(s, d + 1, l - 1) /\ Spaces(s, MessageEnd(s, l), f)
  BY <1>2, <1>7, <1>8 DEF Item
<1>10. l \in d + 1 .. k
  <2>. SUFFICES ASSUME k < l PROVE FALSE
    BY <1>1, <1>3, <1>9
  <2>1. k \in d + 1 .. l - 1 /\ d + 1 \in Int /\ l - 1 \in Int
    BY <1>1, <1>6
  <2>. QED  BY <1>1, <1>9, <2>1, SpaceIsPlain
<1>11. Spaces(s, MessageEnd(s, l), e)
  BY <1>3, <1>6, <1>9 DEF Spaces
<1>12. l \in d + 1 .. e
  BY <1>6, <1>10
<1>. QED  BY <1>9, <1>11, <1>12 DEF Item

\* The end of the line a place is in.
LEMMA NextEnd ==
  ASSUME NEW P, NEW s \in Seq(P), NEW k \in 1 .. Len(s), NEW d \in k .. Len(s), s[d] = "nl"
  PROVE  \E e \in k .. d : s[e] = "nl" /\ (\A l \in k .. e - 1 : s[l] # "nl") /\ LineStart(s, e) = LineStart(s, k)
<1>. DEFINE I == {i \in k .. d : s[i] = "nl"}
<1>1. PICK e \in I : \A i \in I : e <= i
  <2>1. I \in SUBSET Nat /\ d \in I
    OBVIOUS
  <2>. HIDE DEF I
  <2>. QED  BY <2>1, Least
<1>2. e \in k .. d /\ s[e] = "nl" /\ \A l \in k .. e - 1 : s[l] # "nl"
  BY <1>1
<1>3. k \in 1 .. Len(s) + 1 /\ e \in 1 .. Len(s) + 1
  BY <1>2
<1>4. PICK a \in 1 .. k : a = LineStart(s, k)
  BY <1>3, LineStartIs
<1>5. (a = 1 \/ s[a - 1] = "nl") /\ \A l \in a .. k - 1 : s[l] # "nl"
  BY <1>3, <1>4, LineStartIs
<1>6. a \in 1 .. e /\ \A l \in a .. e - 1 : s[l] # "nl"
  BY <1>2, <1>5
<1>7. LineStart(s, e) = a
  BY <1>3, <1>5, <1>6, LineStartIsOnly
<1>. QED  BY <1>2, <1>4, <1>7

\* The messages of lines that have ended.
LEMMA LinesMessages ==
  ASSUME NEW P, NEW s \in Seq(P), NEW d \in 0 .. Len(s), AtLineStart(s, d), LinesGood(s, d + 1),
         ctype = "ndjson", NEW b
  PROVE  MessagesTo(s, d) = {k \in Messages(s, b) : k <= d}
<1>1. LineEnds(s) \subseteq Nat
  BY EndsOfLines
<1>. SUFFICES ASSUME NEW k \in 1 .. d, MessageAt(s, k)
              PROVE  LinesGood(s, k) /\ \E e \in LineEnds(s) : e > k /\ Item(s, LineStart(s, k), e)
  BY DEF MessagesTo, Messages
<1>2. LinesGood(s, k)
  BY <1>1, LinesGoodBefore
<1>3. s[d] = "nl" /\ k \in 1 .. Len(s) /\ d \in k .. Len(s)
  BY DEF AtLineStart
<1>4. PICK e \in k .. d : s[e] = "nl" /\ LineStart(s, e) = LineStart(s, k)
  BY <1>3, NextEnd
<1>5. e \in LineEnds(s) /\ e < d + 1
  BY <1>3, <1>4, EndsOfLines
<1>6. e # k
  BY <1>3, <1>4, MessageEndIs
<1>7. Item(s, LineStart(s, k), e)
  BY <1>4, <1>5 DEF LinesGood
<1>. QED  BY <1>2, <1>4, <1>5, <1>6, <1>7

\* Without the end of its line no message is complete.
LEMMA NoLineNoMessage ==
  ASSUME NEW P, NEW s \in Seq(P), NEW d \in 0 .. Len(s), \A k \in d + 1 .. Len(s) : s[k] # "nl",
         ctype = "ndjson", NEW k \in Messages(s, FALSE)
  PROVE  k <= d
<1>1. k \in 1 .. Len(s)
  BY DEF Messages
<1>2. PICK e \in LineEnds(s) : e > k
  BY DEF Messages
<1>. QED  BY <1>1, <1>2, EndsOfLines

\* The messages of a payload that is over.
LEMMA AllLinesMessages ==
  ASSUME NEW P, NEW s \in Seq(P), LinesGood(s, Len(s) + 1), Item(s, LineStart(s, Len(s) + 1), Len(s)),
         ctype = "ndjson"
  PROVE  MessagesTo(s, Len(s)) = Messages(s, TRUE)
<1>1. LineEnds(s) \subseteq Nat
  BY EndsOfLines
<1>. SUFFICES ASSUME NEW k \in 1 .. Len(s), MessageAt(s, k)
              PROVE  LinesGood(s, k) /\ \E e \in {e \in LineEnds(s) : e > k} \cup {Len(s)} : Item(s, LineStart(s, k), e)
  BY DEF MessagesTo, Messages
<1>2. LinesGood(s, k)
  BY <1>1, LinesGoodBefore
<1>3. CASE \E d \in k .. Len(s) : s[d] = "nl"
  <2>1. PICK d \in k .. Len(s) : s[d] = "nl"
    BY <1>3
  <2>2. PICK e \in k .. d : s[e] = "nl" /\ LineStart(s, e) = LineStart(s, k)
    BY <2>1, NextEnd
  <2>3. e \in LineEnds(s) /\ e < Len(s) + 1
    BY <2>2, EndsOfLines
  <2>4. e # k
    BY <2>2, MessageEndIs
  <2>. QED  BY <1>2, <2>2, <2>3, <2>4 DEF LinesGood
<1>4. CASE \A d \in k .. Len(s) : s[d] # "nl"
  <2>1. k \in 1 .. Len(s) + 1 /\ Len(s) + 1 \in 1 .. Len(s) + 1
    OBVIOUS
  <2>2. PICK a \in 1 .. k : a = LineStart(s, k)
    BY <2>1, LineStartIs
  <2>3. (a = 1 \/ s[a - 1] = "nl") /\ \A l \in a .. k - 1 : s[l] # "nl"
    BY <2>1, <2>2, LineStartIs
  <2>4. a \in 1 .. Len(s) + 1 /\ \A l \in a .. Len(s) + 1 - 1 : s[l] # "nl"
    BY <1>4, <2>3
  <2>5. LineStart(s, Len(s) + 1) = a
    BY <2>1, <2>3, <2>4, LineStartIsOnly
  <2>. QED  BY <1>2, <2>2, <2>5
<1>. QED  BY <1>3, <1>4

------------------------------------------------------------------------------
(* The state *)

\* What is left of a sequence after its place n.
LEMMA FromIs ==
  ASSUME NEW S, NEW s \in Seq(S), NEW n \in 0 .. Len(s)
  PROVE  /\ From(s, n + 1) \in Seq(S) /\ Len(From(s, n + 1)) = Len(s) - n
         /\ \A i \in 1 .. Len(s) - n : From(s, n + 1)[i] = s[n + i]
  BY Cut DEF From

\* What the invariant says of the state, in one place.
LEMMA StateFacts ==
  ASSUME IInv
  PROVE  /\ text \in Seq(Pieces[ctype]) /\ buffer \in Seq(Pieces[ctype])
         /\ Len(text) \in Nat /\ dropped \in Nat /\ Len(buffer) \in Nat
         /\ dropped + Len(buffer) = Len(text) /\ Len(text) <= MaxText /\ MaxText \in Nat
         /\ cursor \in 0 .. Len(buffer) /\ Taken \in 0 .. Len(text)
         /\ Window(buffer, text, dropped)
         /\ ctype \in {"json", "ndjson"}
         /\ yielded \in Seq(Places)
<1>1. /\ text \in Seq(Pieces[ctype]) /\ buffer \in Seq(Pieces[ctype]) /\ yielded \in Seq(Places)
      /\ Len(text) \in Nat /\ dropped \in Nat /\ Len(buffer) \in Nat
      /\ dropped + Len(buffer) = Len(text) /\ Len(text) <= MaxText /\ MaxText \in Nat
      /\ cursor \in 0 .. Len(buffer) /\ ctype \in {"json", "ndjson"}
  BY StreamAssumption DEF IInv, TypeOK, BufferIs
<1>2. Taken \in 0 .. Len(text)
  BY <1>1 DEF Taken
<1>3. Window(buffer, text, dropped)
  <2>1. dropped \in 0 .. Len(text) /\ buffer = SubSeq(text, dropped + 1, Len(text))
    BY <1>1 DEF IInv, BufferIs, From
  <2>2. \A i \in 1 .. Len(text) - dropped : buffer[i] = text[dropped + i]
    BY <1>1, <2>1, FromIs DEF From
  <2>. QED  BY <1>1, <2>2 DEF Window
<1>. QED  BY <1>1, <1>2, <1>3

\* Where a turn of the JSON loop begins.
LEMMA HereIs ==
  ASSUME IInv, ctype = "json", step \notin {"rejected", "incomplete"}
  PROVE  /\ Here \in cursor + 1 .. Len(buffer) + 1 /\ Here \in Nat
         /\ ~Exhausted => /\ Here \in 1 .. Len(buffer) /\ dropped + Here \in 1 .. Len(text)
                          /\ buffer[Here] = text[dropped + Here] /\ text[dropped + Here] \notin Space
                          /\ MessageAt(buffer, Here) <=> MessageAt(text, dropped + Here)
         /\ Spaces(text, Taken + 1, dropped + Here - 1)
         /\ ReadTo(text, dropped + Here - 1, mode)
         /\ MessagesTo(text, dropped + Here - 1) = MessagesTo(text, Taken)
<1>1. /\ text \in Seq(Pieces[ctype]) /\ buffer \in Seq(Pieces[ctype]) /\ cursor \in 0 .. Len(buffer)
      /\ dropped \in Nat /\ dropped + Len(buffer) = Len(text) /\ Taken \in 0 .. Len(text)
      /\ Window(buffer, text, dropped)
  BY StateFacts
<1>2. cursor + 1 \in 1 .. Len(buffer) + 1
  BY <1>1
<1>3. /\ Here \in cursor + 1 .. Len(buffer) + 1
      /\ Spaces(buffer, cursor + 1, Here - 1)
      /\ Here <= Len(buffer) => buffer[Here] \notin Space
  BY <1>1, <1>2, NextUsedIs DEF Here
<1>4. Here \in Nat
  BY <1>1, <1>3
<1>5. ASSUME ~Exhausted
      PROVE  /\ Here \in 1 .. Len(buffer) /\ dropped + Here \in 1 .. Len(text)
             /\ buffer[Here] = text[dropped + Here] /\ text[dropped + Here] \notin Space
             /\ MessageAt(buffer, Here) <=> MessageAt(text, dropped + Here)
  <2>1. Here \in 1 .. Len(buffer) /\ dropped + Here \in 1 .. Len(text)
    BY <1>1, <1>3, <1>5 DEF Exhausted
  <2>2. /\ buffer[Here] = text[dropped + Here]
        /\ MessageAt(buffer, Here) <=> MessageAt(text, dropped + Here)
    BY <1>1, <2>1, WindowIs
  <2>. QED  BY <1>3, <2>1, <2>2
<1>6. Spaces(text, Taken + 1, dropped + Here - 1)
  <2>1. \A i, j \in Int : 1 <= i /\ j <= Len(buffer) => (Spaces(buffer, i, j) <=> Spaces(text, dropped + i, dropped + j))
    BY <1>1, WindowIs
  <2>2. cursor + 1 \in Int /\ Here - 1 \in Int /\ 1 <= cursor + 1 /\ Here - 1 <= Len(buffer)
    BY <1>1, <1>3
  <2>3. Spaces(text, dropped + (cursor + 1), dropped + (Here - 1))
    BY <1>3, <2>1, <2>2
  <2>4. dropped + (cursor + 1) = Taken + 1 /\ dropped + (Here - 1) = dropped + Here - 1
    BY <1>1, <1>4 DEF Taken
  <2>. QED  BY <2>3, <2>4
<1>7. dropped + Here - 1 \in Taken .. Len(text)
  BY <1>1, <1>3 DEF Taken
<1>8. ReadTo(text, Taken, mode)
  BY DEF IInv, JsonInv
<1>9. PICK q \in Taken .. Len(text) : q = dropped + Here - 1
  BY <1>7
<1>10. ReadTo(text, q, mode) /\ MessagesTo(text, q) = MessagesTo(text, Taken)
  BY <1>1, <1>6, <1>8, <1>9, ReadSpaces
<1>. QED  BY <1>3, <1>4, <1>5, <1>6, <1>9, <1>10

\* Appending the place of a message that comes later.
LEMMA OrderedAppend ==
  ASSUME NEW y \in Seq(Places), NEW S \in SUBSET Places, NEW x \in Places, Ordered(y, S),
         \A k \in S : k < x
  PROVE  Append(y, x) \in Seq(Places) /\ Ordered(Append(y, x), S \cup {x})
<1>1. Increasing(y) /\ ToSet(y) = S
  BY DEF Ordered, Increasing
<1>2. Increasing(Append(y, x))
  <2>1. Places \subseteq Int
    BY DEF Places
  <2>. QED  BY <1>1, IncreasingAppend
<1>3. ToSet(Append(y, x)) = S \cup {x} /\ Append(y, x) \in Seq(Places)
  BY <1>1, Enqueue
<1>. QED  BY <1>2, <1>3 DEF Ordered, Increasing

\* What has been yielded are messages of the text that come before anything wrong.
LEMMA NothingElseHolds ==
  ASSUME IInv
  PROVE  NothingElse
<1>1. CASE step \in {"rejected", "incomplete"}
  BY <1>1 DEF IInv
<1>2. CASE step \notin {"rejected", "incomplete"}
  <2>1. text \in Seq(Pieces[ctype]) /\ Taken \in 0 .. Len(text) /\ Len(text) \in Nat /\ dropped \in Nat
    BY StateFacts
  <2>2. MessagesTo(text, Taken) = {k \in Messages(text, TRUE) : k <= Taken}
    <3>1. CASE ctype = "json"
      <4>1. ReadTo(text, Taken, mode) /\ mode \in {"unknown", "single", "array", "done"}
        BY <1>2, <3>1 DEF IInv, JsonInv, TypeOK
      <4>. QED  BY <2>1, <3>1, <4>1, PrefixMessages
    <3>2. CASE ctype = "ndjson" /\ step # "accepted"
      <4>1. Taken = dropped /\ AtLineStart(text, dropped) /\ LinesGood(text, dropped + 1)
        BY <1>2, <2>1, <3>2 DEF IInv, LinesInv, AtLineStart, Taken
      <4>. QED  BY <2>1, <3>2, <4>1, LinesMessages
    <3>3. CASE ctype = "ndjson" /\ step = "accepted"
      <4>1. /\ Taken = Len(text) /\ LinesGood(text, Len(text) + 1)
            /\ Item(text, LineStart(text, Len(text) + 1), Len(text))
        BY <1>2, <2>1, <3>3 DEF IInv, LinesInv, Taken
      <4>2. MessagesTo(text, Len(text)) = Messages(text, TRUE)
        BY <2>1, <3>3, <4>1, AllLinesMessages
      <4>3. \A k \in Messages(text, TRUE) : k <= Len(text)
        BY <2>1 DEF Messages
      <4>. QED  BY <4>1, <4>2, <4>3
    <3>. QED  BY <3>1, <3>2, <3>3, StateFacts
  <2>3. YieldedAre({k \in Messages(text, TRUE) : k <= Taken})
    <3>1. Ordered(yielded, MessagesTo(text, Taken))
      BY <1>2 DEF IInv
    <3>. QED  BY <2>2, <3>1 DEF Ordered, YieldedAre
  <2>. QED  BY <2>1, <2>3 DEF NothingElse
<1>. QED  BY <1>1, <1>2

------------------------------------------------------------------------------
(* The steps *)

\* What may still arrive.
LEMMA ContinuationIs ==
  ASSUME IInv, NEW whole \in Continuations
  PROVE  /\ whole \in Seq(Pieces[ctype]) /\ Len(text) <= Len(whole)
         /\ \A k \in 1 .. Len(text) : whole[k] = text[k]
<1>1. text \in Seq(Pieces[ctype]) /\ Len(text) \in Nat /\ MaxText \in Nat /\ Len(text) <= MaxText
  BY StateFacts
<1>2. PICK rest \in BoundedSeq(Pieces[ctype], MaxText - Len(text)) : whole = text \o rest
  BY DEF Continuations
<1>3. rest \in Seq(Pieces[ctype]) /\ Len(rest) \in Nat
  <2>1. PICK n \in 0 .. MaxText - Len(text) : rest \in [1 .. n -> Pieces[ctype]]
    BY <1>2 DEF BoundedSeq, SeqOf
  <2>2. n \in Nat
    BY <1>1
  <2>. QED  BY <2>1, <2>2
<1>4. /\ whole \in Seq(Pieces[ctype]) /\ Len(whole) = Len(text) + Len(rest)
      /\ \A k \in 1 .. Len(text) + Len(rest) : whole[k] = IF k <= Len(text) THEN text[k] ELSE rest[k - Len(text)]
  BY <1>1, <1>2, <1>3, ConcatProperties
<1>. QED  BY <1>1, <1>3, <1>4

\* One of the texts that may become of a text is the text itself.
LEMMA TextIsContinuation ==
  ASSUME IInv
  PROVE  text \in Continuations
<1>1. text \in Seq(Pieces[ctype]) /\ Len(text) \in Nat /\ MaxText \in Nat /\ Len(text) <= MaxText
  BY StateFacts
<1>2. <<>> \in [1 .. 0 -> Pieces[ctype]]
  <2>1. <<>> \in Seq(Pieces[ctype]) /\ Len(<<>>) = 0
    BY EmptySeq
  <2>. QED  BY <2>1, LenProperties
<1>3. <<>> \in BoundedSeq(Pieces[ctype], MaxText - Len(text))
  <2>1. 0 \in 0 .. MaxText - Len(text)
    BY <1>1
  <2>. QED  BY <1>2, <2>1 DEF BoundedSeq, SeqOf
<1>4. text \o <<>> = text
  BY <1>1, ConcatEmptySeq
<1>. QED  BY <1>3, <1>4 DEF Continuations

\* All that is complete of a JSON payload has been yielded.
LEMMA JsonRead ==
  ASSUME IInv, ctype = "json", NEW p \in 0 .. Len(text),
         NEW mo \in {"unknown", "single", "array", "done"}, ReadTo(text, p, mo),
         Ordered(yielded, MessagesTo(text, p)),
         p = Len(text) \/ mo = "done" \/ \E h \in 1 .. Len(text) : WrongAt(text, p, mo, h)
  PROVE  YieldedAre(Messages(text, FALSE))
<1>1. text \in Seq(Pieces[ctype]) /\ Len(text) \in Nat
  BY StateFacts
<1>2. MessagesTo(text, p) = {k \in Messages(text, FALSE) : k <= p}
  BY <1>1, PrefixMessages
<1>3. ASSUME NEW k \in Messages(text, FALSE) PROVE k <= p
  <2>1. CASE p = Len(text)
    BY <1>1, <2>1 DEF Messages
  <2>2. CASE mo = "done"
    <3>1. ReadTo(text, p, "done")
      BY <2>2
    <3>. QED  BY <1>1, <3>1, NothingAfterDone
  <2>3. CASE mo # "done" /\ \E h \in 1 .. Len(text) : WrongAt(text, p, mo, h)
    <3>1. PICK h \in 1 .. Len(text) : WrongAt(text, p, mo, h)
      BY <2>3
    <3>2. mo \in {"unknown", "single", "array"}
      BY <2>3
    <3>. QED  BY <1>1, <3>1, <3>2, NothingAfterWrong
  <2>. QED  BY <2>1, <2>2, <2>3
<1>. QED  BY <1>2, <1>3 DEF Ordered, YieldedAre

\* The same of an NDJSON payload, if no message counts after its good lines.
LEMMA LinesRead ==
  ASSUME IInv, ctype = "ndjson", NEW d \in 0 .. Len(text), AtLineStart(text, d), LinesGood(text, d + 1),
         Ordered(yielded, MessagesTo(text, d)), \A k \in Messages(text, FALSE) : k <= d
  PROVE  YieldedAre(Messages(text, FALSE))
<1>1. text \in Seq(Pieces[ctype]) /\ Len(text) \in Nat
  BY StateFacts
<1>2. MessagesTo(text, d) = {k \in Messages(text, FALSE) : k <= d}
  BY <1>1, LinesMessages
<1>. QED  BY <1>2 DEF Ordered, YieldedAre

\* What a text says does not depend on the rest of the state.
LEMMA SameText ==
  ASSUME UNCHANGED <<ctype, text>>
  PROVE  /\ Acceptable(text)' <=> Acceptable(text)
         /\ Hopeless' <=> Hopeless
         /\ yielded' = yielded /\ NothingElse => NothingElse'
         /\ yielded' = yielded => (YieldedAre(Messages(text, FALSE))' <=> YieldedAre(Messages(text, FALSE)))
<1>1. Acceptable(text)' <=> Acceptable(text)
  BY DEF Acceptable
<1>3. Hopeless' <=> Hopeless
  BY DEF Hopeless, Continuations, Acceptable
<1>4. ASSUME yielded' = yielded PROVE YieldedAre(Messages(text, FALSE))' <=> YieldedAre(Messages(text, FALSE))
  BY <1>4 DEF YieldedAre, Messages
<1>2. ASSUME yielded' = yielded, NothingElse PROVE NothingElse'
  <2>1. Messages(text, TRUE)' = Messages(text, TRUE)
    BY DEF Messages
  <2>2. PICK n \in 0 .. Len(text) : YieldedAre({k \in Messages(text, TRUE) : k <= n})
    BY <1>2 DEF NothingElse
  <2>3. n \in 0 .. Len(text')
    OBVIOUS
  <2>4. YieldedAre({k \in Messages(text, TRUE) : k <= n})'
    BY <1>2, <2>1, <2>2 DEF YieldedAre
  <2>. QED  BY <2>3, <2>4 DEF NothingElse
<1>. QED  BY <1>1, <1>2, <1>3, <1>4

\* A payload is refused, before its end or at it.
LEMMA RefusedKeeps ==
  ASSUME IInv, UNCHANGED <<ctype, text, yielded>>, TypeOK', BufferIs',
         YieldedAre(Messages(text, FALSE)),
         \/ step' = "rejected" /\ Hopeless
         \/ step' = "incomplete" /\ ~Acceptable(text)
  PROVE  IInv'
<1>1. NothingElse' /\ YieldedAre(Messages(text, FALSE))'
  BY SameText, NothingElseHolds
<1>2. (step' = "rejected" => Hopeless') /\ (step' = "incomplete" => ~Acceptable(text)')
  BY SameText
<1>3. step' \in {"rejected", "incomplete"} 
  OBVIOUS
<1>. QED  BY <1>1, <1>2, <1>3 DEF IInv

\* Receive: a longer text says the same of the places that are dealt with.
LEMMA ReceiveKeeps ==
  ASSUME IInv, Receive
  PROVE  IInv'
<1>1. /\ text \in Seq(Pieces[ctype]) /\ buffer \in Seq(Pieces[ctype]) /\ yielded \in Seq(Places)
      /\ Len(text) \in Nat /\ dropped \in Nat /\ Len(buffer) \in Nat
      /\ dropped + Len(buffer) = Len(text) /\ Len(text) <= MaxText /\ MaxText \in Nat
      /\ cursor \in 0 .. Len(buffer) /\ Taken \in 0 .. Len(text)
      /\ ctype \in {"json", "ndjson"} /\ Window(buffer, text, dropped)
  BY StateFacts
<1>2. /\ step = "waiting" /\ step' = "parsing"
      /\ UNCHANGED <<ctype, mode, cursor, yielded, dropped>>
  BY DEF Receive
<1>3. PICK chunk \in BoundedSeq(Pieces[ctype], MaxText - Len(text)) :
        buffer' = buffer \o chunk /\ text' = text \o chunk
  BY DEF Receive
<1>4. chunk \in Seq(Pieces[ctype]) /\ Len(chunk) \in Nat /\ Len(chunk) <= MaxText - Len(text)
  <2>1. PICK n \in 0 .. MaxText - Len(text) : chunk \in [1 .. n -> Pieces[ctype]]
    BY <1>3 DEF BoundedSeq, SeqOf
  <2>2. n \in Nat
    BY <1>1
  <2>3. chunk \in Seq(Pieces[ctype]) /\ Len(chunk) = n
    BY <2>1, <2>2
  <2>. QED  BY <2>3
<1>5. /\ text' \in Seq(Pieces[ctype]) /\ Len(text') = Len(text) + Len(chunk)
      /\ \A i \in 1 .. Len(text) + Len(chunk) : text'[i] = IF i <= Len(text) THEN text[i] ELSE chunk[i - Len(text)]
  BY <1>1, <1>3, <1>4, ConcatProperties
<1>6. /\ buffer' \in Seq(Pieces[ctype]) /\ Len(buffer') = Len(buffer) + Len(chunk)
      /\ \A i \in 1 .. Len(buffer) + Len(chunk) :
           buffer'[i] = IF i <= Len(buffer) THEN buffer[i] ELSE chunk[i - Len(buffer)]
  BY <1>1, <1>3, <1>4, ConcatProperties
<1>7. /\ Len(text') = Len(text) + Len(chunk) /\ Len(buffer') = Len(buffer) + Len(chunk)
       /\ Len(chunk) \in Nat /\ Len(text) \in Nat /\ Len(buffer) \in Nat /\ dropped \in Nat
       /\ dropped + Len(buffer) = Len(text) /\ cursor \in 0 .. Len(buffer)
  BY <1>1, <1>4, <1>5, <1>6
<1>8. Len(text) <= Len(text') /\ (\A k \in 1 .. Len(text) : text'[k] = text[k]) /\ Len(text') <= MaxText
  BY <1>1, <1>4, <1>5
<1>9. TypeOK'
  <2>1. dropped + Len(buffer') = Len(text') /\ cursor \in 0 .. Len(buffer')
    BY <1>7
  <2>. QED  BY <1>1, <1>2, <1>5, <1>6, <2>1 DEF IInv, TypeOK
<1>10. BufferIs'
  <2>1. dropped \in 0 .. Len(text')
    BY <1>1, <1>4, <1>5
  <2>2. text' \in Seq(Pieces[ctype])
    BY <1>5
  <2>3. /\ From(text', dropped + 1) \in Seq(Pieces[ctype])
        /\ Len(From(text', dropped + 1)) = Len(text') - dropped
        /\ \A i \in 1 .. Len(text') - dropped : From(text', dropped + 1)[i] = text'[dropped + i]
    BY <2>1, <2>2, FromIs
  <2>4. Len(text') - dropped = Len(buffer) + Len(chunk)
    BY <1>7
  <2>5. ASSUME NEW i \in 1 .. Len(buffer) + Len(chunk)
        PROVE  buffer'[i] = From(text', dropped + 1)[i]
    <3>1. From(text', dropped + 1)[i] = text'[dropped + i]
      BY <2>3, <2>4
    <3>2. CASE i <= Len(buffer)
      <4>1. buffer'[i] = buffer[i] /\ text'[dropped + i] = text[dropped + i]
        BY <1>1, <1>4, <1>5, <1>6, <3>2 DEF Window
      <4>2. buffer[i] = text[dropped + i]
        BY <1>1, <3>2 DEF Window
      <4>. QED  BY <3>1, <4>1, <4>2
    <3>3. CASE ~(i <= Len(buffer))
      <4>1. /\ ~(dropped + i <= Len(text)) /\ dropped + i \in 1 .. Len(text) + Len(chunk)
        BY <1>7, <3>3
      <4>2. buffer'[i] = chunk[i - Len(buffer)]
        BY <1>6, <3>3
      <4>3. text'[dropped + i] = chunk[(dropped + i) - Len(text)]
        BY <1>5, <4>1
      <4>4. (dropped + i) - Len(text) = i - Len(buffer)
        BY <1>7
      <4>. QED  BY <3>1, <4>2, <4>4, <4>3
    <3>. QED  BY <3>2, <3>3
  <2>6. buffer' = From(text', dropped + 1)
    <3>1. /\ From(text', dropped + 1) \in Seq(Pieces[ctype]) /\ Len(buffer') = Len(From(text', dropped + 1))
          /\ \A i \in 1 .. Len(buffer') : buffer'[i] = From(text', dropped + 1)[i]
      BY <1>7, <2>3, <2>4, <2>5
    <3>. QED  BY <1>6, <3>1, SeqEqual
  <2>. QED  BY <1>1, <1>2, <1>8, <2>6 DEF BufferIs, From
<1>11. Taken' = Taken
  BY <1>2 DEF Taken
<1>12. Ordered(yielded, MessagesTo(text, Taken))
  BY <1>2 DEF IInv
<1>13. CASE ctype = "json"
  <2>1. ReadTo(text, Taken, mode) /\ (mode = "single" => Taken < Len(text) /\ text[Taken + 1] \notin Space \cup {"["})
    BY <1>2, <1>13 DEF IInv, JsonInv
  <2>2. ReadTo(text', Taken, mode) /\ MessagesTo(text', Taken) = MessagesTo(text, Taken)
    BY <1>1, <1>5, <1>8, <2>1, LongerRead
  <2>3. mode = "single" => Taken < Len(text') /\ text'[Taken + 1] \notin Space \cup {"["}
    BY <1>1, <1>5, <1>8, <2>1
  <2>4. JsonInv'
    BY <1>2, <1>11, <2>2, <2>3 DEF JsonInv
  <2>5. Ordered(yielded, MessagesTo(text', Taken))
    BY <1>12, <2>2
  <2>6. Ordered(yielded, MessagesTo(text, Taken))'
    BY <1>2, <1>11, <2>5
  <2>. QED  BY <1>2, <1>9, <1>10, <1>13, <2>4, <2>6 DEF IInv
<1>14. CASE ctype = "ndjson"
  <2>1. cursor = 0 /\ mode = "unknown" /\ LinesGood(text, dropped + 1) /\ AtLineStart(text, dropped)
    BY <1>2, <1>14 DEF IInv, LinesInv, AtLineStart
  <2>2. Taken = dropped /\ dropped \in 0 .. Len(text)
    BY <1>1, <2>1 DEF Taken
  <2>3. AtLineStart(text', dropped) /\ LinesGood(text', dropped + 1) /\ MessagesTo(text', dropped) = MessagesTo(text, dropped)
    BY <1>1, <1>5, <1>8, <2>1, <2>2, LongerLines
  <2>4. LinesInv'
    BY <1>2, <2>1, <2>3 DEF LinesInv, AtLineStart
  <2>5. Ordered(yielded, MessagesTo(text', Taken))
    BY <1>12, <2>2, <2>3
  <2>6. Ordered(yielded, MessagesTo(text, Taken))'
    BY <1>2, <1>11, <2>5
  <2>. QED  BY <1>2, <1>9, <1>10, <1>14, <2>4, <2>6 DEF IInv
<1>. QED  BY <1>1, <1>13, <1>14

\* Undecodable: nothing but the step changes.
LEMMA UndecodableKeeps ==
  ASSUME IInv, Undecodable
  PROVE  IInv'
<1>1. step = "waiting" /\ step' = "undecodable" /\ UNCHANGED <<ctype, mode, buffer, cursor, yielded, text, dropped>>
  BY DEF Undecodable
<1>2. TypeOK' /\ BufferIs' /\ Taken' = Taken
  BY <1>1 DEF IInv, TypeOK, BufferIs, Over, Taken, From
<1>3. ctype = "json" => JsonInv'
  BY <1>1, <1>2 DEF IInv, JsonInv
<1>4. ctype = "ndjson" => LinesInv'
  BY <1>1 DEF IInv, LinesInv
<1>. QED  BY <1>1, <1>2, <1>3, <1>4 DEF IInv

\* "break": the places up to c are dealt with.
LEMMA BreakIs ==
  ASSUME IInv, NEW c \in 0 .. Len(buffer), Break(c), UNCHANGED <<ctype, text, yielded>>,
         mode' \in {"unknown", "single", "array", "done"}
  PROVE  TypeOK' /\ BufferIs' /\ step' = "waiting" /\ Taken' = dropped + c
<1>1. /\ text \in Seq(Pieces[ctype]) /\ buffer \in Seq(Pieces[ctype]) /\ yielded \in Seq(Places)
      /\ Len(text) \in Nat /\ dropped \in Nat /\ Len(buffer) \in Nat
      /\ dropped + Len(buffer) = Len(text) /\ Len(text) <= MaxText /\ MaxText \in Nat
      /\ cursor \in 0 .. Len(buffer)
  BY StateFacts
<1>2. step' = "waiting" /\ ctype \in ContentTypes
  BY DEF Break, IInv, TypeOK
<1>3. CASE c > 0 /\ c >= Len(buffer)
  <2>1. buffer' = <<>> /\ cursor' = 0 /\ dropped' = dropped + Len(buffer)
    BY <1>3 DEF Break
  <2>2. dropped' = Len(text) /\ c = Len(buffer) /\ Len(buffer') = 0 /\ buffer' \in Seq(Pieces[ctype])
    BY <1>1, <1>3, <2>1
  <2>3. From(text, dropped' + 1) = <<>>
    BY <1>1, <2>2 DEF From
  <2>4. TypeOK'
    BY <1>1, <1>2, <2>1, <2>2 DEF TypeOK
  <2>5. BufferIs'
    BY <1>1, <2>1, <2>2, <2>3 DEF BufferIs, From
  <2>. QED  BY <1>1, <1>2, <2>1, <2>2, <2>4, <2>5 DEF Taken
<1>4. CASE ~(c > 0 /\ c >= Len(buffer))
  <2>1. cursor' = c /\ UNCHANGED <<buffer, dropped>>
    BY <1>4 DEF Break
  <2>2. TypeOK'
    BY <1>1, <1>2, <2>1 DEF TypeOK
  <2>3. BufferIs'
    BY <2>1 DEF IInv, BufferIs, From
  <2>. QED  BY <1>2, <2>1, <2>2, <2>3 DEF Taken
<1>. QED  BY <1>3, <1>4

\* A turn that leaves the buffer as it is.
LEMMA TurnIs ==
  ASSUME IInv, Turn, cursor' \in 0 .. Len(buffer), yielded' \in Seq(Places),
         mode' \in {"unknown", "single", "array", "done"},
         step' \in {"waiting", "parsing"} \cup Over
  PROVE  TypeOK' /\ BufferIs' /\ Taken' = dropped + cursor'
<1>1. UNCHANGED <<ctype, buffer, text, dropped>>
  BY DEF Turn
<1>2. TypeOK'
  BY <1>1 DEF IInv, TypeOK
<1>3. BufferIs'
  BY <1>1 DEF IInv, BufferIs, From
<1>. QED  BY <1>1, <1>2, <1>3 DEF Taken

\* The JSON loop goes on.
LEMMA ReadOn ==
  ASSUME IInv, ctype = "json", UNCHANGED <<ctype, text>>, TypeOK', BufferIs', step' = "parsing",
         NEW p, Taken' = p, ReadTo(text, p, mode'), mode' # "single", Ordered(yielded', MessagesTo(text, p))
  PROVE  IInv'
<1>1. JsonInv'
  BY DEF JsonInv
<1>2. Ordered(yielded, MessagesTo(text, Taken))'
  OBVIOUS
<1>. QED  BY <1>1, <1>2 DEF IInv

\* A turn that deals with one piece.
LEMMA PieceRead ==
  ASSUME IInv, AtWork, ~Exhausted, Advance, Turn, UNCHANGED <<step, yielded>>, mode' \in {"array", "done"},
         ReadTo(text, dropped + Here, mode'),
         MessagesTo(text, dropped + Here) = MessagesTo(text, Taken)
  PROVE  IInv'
<1>1. cursor' = Here /\ ctype = "json" /\ step = "parsing" /\ UNCHANGED <<ctype, text>>
  BY DEF Advance, AtWork, Turn
<1>2. Here \in 0 .. Len(buffer)
  BY <1>1, HereIs
<1>3. TypeOK' /\ BufferIs' /\ Taken' = dropped + Here
  BY <1>1, <1>2, StateFacts, TurnIs
<1>4. Ordered(yielded', MessagesTo(text, dropped + Here))
  BY <1>1 DEF IInv
<1>. QED  BY <1>1, <1>3, <1>4, ReadOn

\* UsedUp: the spaces that are left are dealt with.
LEMMA UsedUpKeeps ==
  ASSUME IInv, UsedUp
  PROVE  IInv'
<1>1. /\ ctype = "json" /\ step = "parsing" /\ Exhausted /\ Break(Len(buffer))
      /\ UNCHANGED <<ctype, mode, yielded, text>>
  BY DEF UsedUp, AtWork
<1>2. /\ Len(text) \in Nat /\ dropped \in Nat /\ Len(buffer) \in Nat /\ cursor \in 0 .. Len(buffer)
      /\ dropped + Len(buffer) = Len(text) /\ Taken \in 0 .. Len(text)
      /\ mode \in {"unknown", "single", "array", "done"}
  BY StateFacts DEF IInv, TypeOK
<1>3. Here = Len(buffer) + 1
  BY <1>1, <1>2, HereIs DEF Exhausted
<1>4. dropped + Here - 1 = Len(text)
  BY <1>2, <1>3
<1>5. /\ Spaces(text, Taken + 1, Len(text)) /\ ReadTo(text, Len(text), mode)
      /\ MessagesTo(text, Len(text)) = MessagesTo(text, Taken)
  BY <1>1, <1>4, HereIs
<1>6. TypeOK' /\ BufferIs' /\ step' = "waiting" /\ Taken' = Len(text)
  BY <1>1, <1>2, BreakIs
<1>7. mode # "single"
  <2>1. ASSUME mode = "single" PROVE FALSE
    <3>1. Taken < Len(text) /\ text[Taken + 1] \notin Space
      BY <1>1, <2>1 DEF IInv, JsonInv
    <3>. QED  BY <1>2, <1>5, <3>1 DEF Spaces
  <2>. QED  BY <2>1
<1>8. JsonInv'
  BY <1>1, <1>5, <1>6, <1>7 DEF JsonInv
<1>9. Ordered(yielded, MessagesTo(text, Len(text)))
  BY <1>1, <1>5 DEF IInv
<1>10. Ordered(yielded, MessagesTo(text, Taken))'
  BY <1>1, <1>6, <1>9
<1>. QED  BY <1>1, <1>6, <1>8, <1>10 DEF IInv

\* OpenArray, CloseArray and SkipComma: one piece is dealt with.
LEMMA OpenArrayKeeps ==
  ASSUME IInv, OpenArray
  PROVE  IInv'
<1>1. /\ AtWork /\ mode = "unknown" /\ ~Exhausted /\ buffer[Here] = "[" /\ mode' = "array"
      /\ Advance /\ Turn /\ UNCHANGED <<step, yielded>> /\ ctype = "json" /\ step = "parsing"
  BY DEF OpenArray, Sees, AtWork
<1>2. /\ Here \in Nat /\ dropped \in Nat
      /\ dropped + Here \in 1 .. Len(text) /\ text[dropped + Here] = "["
      /\ ReadTo(text, dropped + Here - 1, "unknown")
      /\ MessagesTo(text, dropped + Here - 1) = MessagesTo(text, Taken)
  BY <1>1, HereIs, StateFacts
<1>3. PICK h \in 1 .. Len(text) : h = dropped + Here
  BY <1>2
<1>4. ReadTo(text, h - 1, "unknown") /\ text[h] = "[" /\ MessagesTo(text, h - 1) = MessagesTo(text, Taken)
  BY <1>2, <1>3
<1>5. text \in Seq(Pieces[ctype])
  BY StateFacts
<1>6. ReadTo(text, h, "array") /\ MessagesTo(text, h) = MessagesTo(text, Taken)
  BY <1>4, <1>5, ReadOpen
<1>. QED  BY <1>1, <1>3, <1>6, PieceRead

LEMMA CloseArrayKeeps ==
  ASSUME IInv, CloseArray
  PROVE  IInv'
<1>1. /\ AtWork /\ mode = "array" /\ ~Exhausted /\ buffer[Here] = "]" /\ mode' = "done"
      /\ Advance /\ Turn /\ UNCHANGED <<step, yielded>> /\ ctype = "json" /\ step = "parsing"
  BY DEF CloseArray, Sees, AtWork
<1>2. /\ Here \in Nat /\ dropped \in Nat
      /\ dropped + Here \in 1 .. Len(text) /\ text[dropped + Here] = "]"
      /\ ReadTo(text, dropped + Here - 1, "array")
      /\ MessagesTo(text, dropped + Here - 1) = MessagesTo(text, Taken)
  BY <1>1, HereIs, StateFacts
<1>3. PICK h \in 1 .. Len(text) : h = dropped + Here
  BY <1>2
<1>4. ReadTo(text, h - 1, "array") /\ text[h] = "]" /\ MessagesTo(text, h - 1) = MessagesTo(text, Taken)
  BY <1>2, <1>3
<1>5. text \in Seq(Pieces[ctype])
  BY StateFacts
<1>6. ReadTo(text, h, "done") /\ MessagesTo(text, h) = MessagesTo(text, Taken)
  BY <1>4, <1>5, ReadClose
<1>. QED  BY <1>1, <1>3, <1>6, PieceRead

LEMMA SkipCommaKeeps ==
  ASSUME IInv, SkipComma
  PROVE  IInv'
<1>1. /\ AtWork /\ mode = "array" /\ ~Exhausted /\ buffer[Here] = "comma" /\ mode' = "array"
      /\ Advance /\ Turn /\ UNCHANGED <<step, yielded>> /\ ctype = "json" /\ step = "parsing"
  BY DEF SkipComma, Sees, AtWork
<1>2. /\ Here \in Nat /\ dropped \in Nat
      /\ dropped + Here \in 1 .. Len(text) /\ text[dropped + Here] = "comma"
      /\ ReadTo(text, dropped + Here - 1, "array")
      /\ MessagesTo(text, dropped + Here - 1) = MessagesTo(text, Taken)
  BY <1>1, HereIs, StateFacts
<1>3. PICK h \in 1 .. Len(text) : h = dropped + Here
  BY <1>2
<1>4. ReadTo(text, h - 1, "array") /\ text[h] = "comma" /\ MessagesTo(text, h - 1) = MessagesTo(text, Taken)
  BY <1>2, <1>3
<1>5. text \in Seq(Pieces[ctype])
  BY StateFacts
<1>6. ReadTo(text, h, "array") /\ MessagesTo(text, h) = MessagesTo(text, Taken)
  BY <1>4, <1>5, ReadComma
<1>. QED  BY <1>1, <1>3, <1>6, PieceRead

\* TrailingData: what follows a whole value is wrong in any mode.
LEMMA TrailingDataKeeps ==
  ASSUME IInv, TrailingData
  PROVE  IInv'
<1>1. /\ ctype = "json" /\ step = "parsing" /\ mode = "done" /\ ~Exhausted
      /\ step' = "rejected" /\ cursor' = Here - 1 /\ Turn /\ UNCHANGED <<mode, yielded>>
  BY DEF TrailingData, AtWork
<1>2. /\ text \in Seq(Pieces[ctype]) /\ Len(text) \in Nat /\ Taken \in 0 .. Len(text) /\ dropped \in Nat
      /\ yielded \in Seq(Places)
  BY StateFacts
<1>3. /\ Here \in 1 .. Len(buffer) /\ dropped + Here \in 1 .. Len(text) /\ text[dropped + Here] \notin Space
      /\ ReadTo(text, dropped + Here - 1, "done")
  BY <1>1, HereIs
<1>4. PICK h \in 1 .. Len(text) : h = dropped + Here
  BY <1>3
<1>5. WrongAt(text, h - 1, "done", h)
  BY <1>2, <1>3, <1>4 DEF WrongAt, Spaces
<1>6. h - 1 \in 0 .. Len(text) /\ ReadTo(text, h - 1, "done")
  BY <1>2, <1>3, <1>4
<1>7. Hopeless
  <2>1. ASSUME NEW whole \in Continuations PROVE ~Acceptable(whole)
    BY <1>1, <1>2, <1>5, <1>6, ContinuationIs, WrongForEver
  <2>. QED  BY <2>1 DEF Hopeless
<1>8. TypeOK' /\ BufferIs'
  <2>1. cursor' \in 0 .. Len(buffer)
    BY <1>1, <1>3
  <2>. QED  BY <1>1, <1>2, <2>1, TurnIs DEF Over, Refused
<1>9. YieldedAre(Messages(text, FALSE))
  <2>1. Ordered(yielded, MessagesTo(text, Taken)) /\ ReadTo(text, Taken, mode)
    BY <1>1 DEF IInv, JsonInv, Refused
  <2>. QED  BY <1>1, <1>2, <2>1, JsonRead
<1>. QED  BY <1>1, <1>7, <1>8, <1>9, RefusedKeeps DEF Turn

\* Where a value is expected: the piece there, and what it means that it begins no message.
LEMMA AtValueIs ==
  ASSUME IInv, AtValue
  PROVE  \E h \in 1 .. Len(text) :
           /\ h = dropped + Here /\ Here \in 1 .. Len(buffer) /\ dropped \in Nat
           /\ mode \in {"unknown", "single", "array"} /\ ctype = "json" /\ step = "parsing"
           /\ ReadTo(text, h - 1, mode) /\ Ordered(yielded, MessagesTo(text, h - 1))
           /\ buffer[Here] = text[h] /\ text[h] \notin Space
           /\ mode # "array" => text[h] # "["
           /\ MessageAt(buffer, Here) <=> MessageAt(text, h)
           /\ ~MessageAt(text, h) => WrongAt(text, h - 1, mode, h)
<1>1. /\ ctype = "json" /\ step = "parsing" /\ ~Exhausted /\ mode \in {"unknown", "single", "array"}
      /\ mode = "unknown" => buffer[Here] # "["
      /\ mode = "array" => buffer[Here] \notin {"]", "comma"}
  BY DEF AtValue, AtWork, Sees
<1>2. /\ Here \in 1 .. Len(buffer) /\ dropped + Here \in 1 .. Len(text) /\ Here \in Nat
      /\ buffer[Here] = text[dropped + Here] /\ text[dropped + Here] \notin Space
      /\ MessageAt(buffer, Here) <=> MessageAt(text, dropped + Here)
      /\ Spaces(text, Taken + 1, dropped + Here - 1)
      /\ ReadTo(text, dropped + Here - 1, mode)
      /\ MessagesTo(text, dropped + Here - 1) = MessagesTo(text, Taken)
  BY <1>1, HereIs
<1>3. dropped \in Nat /\ Len(text) \in Nat /\ Taken \in 0 .. Len(text)
  BY StateFacts
<1>4. PICK h \in 1 .. Len(text) : h = dropped + Here
  BY <1>2
<1>5. Ordered(yielded, MessagesTo(text, Taken))
  BY <1>1 DEF IInv
<1>6. /\ ReadTo(text, h - 1, mode) /\ Ordered(yielded, MessagesTo(text, h - 1))
      /\ buffer[Here] = text[h] /\ text[h] \notin Space /\ (MessageAt(buffer, Here) <=> MessageAt(text, h))
  BY <1>2, <1>3, <1>4, <1>5
<1>7. mode = "single" => text[h] # "["
  <2>1. ASSUME mode = "single" PROVE text[h] # "["
    <3>1. Taken < Len(text) /\ text[Taken + 1] \notin Space \cup {"["}
      BY <1>1, <2>1 DEF IInv, JsonInv
    <3>2. ~(Taken + 1 <= h - 1)
      <4>1. Spaces(text, Taken + 1, h - 1)
        BY <1>2, <1>3, <1>4
      <4>. QED  BY <1>3, <3>1, <4>1 DEF Spaces
    <3>3. Taken + 1 <= h
      <4>1. Here \in cursor + 1 .. Len(buffer) + 1 /\ cursor \in 0 .. Len(buffer) /\ Len(buffer) \in Nat
        BY <1>1, HereIs, StateFacts
      <4>. QED  BY <1>2, <1>3, <1>4, <4>1 DEF Taken
    <3>4. h = Taken + 1
      BY <1>3, <3>2, <3>3
    <3>. QED  BY <3>1, <3>4
  <2>. QED  BY <2>1
<1>8. mode # "array" => text[h] # "["
  BY <1>1, <1>6, <1>7
<1>9. ~MessageAt(text, h) => WrongAt(text, h - 1, mode, h)
  <2>1. /\ h \in (h - 1) + 1 .. Len(text) /\ Spaces(text, (h - 1) + 1, h - 1) /\ mode # "done"
    BY <1>1, <1>3 DEF Spaces
  <2>2. text[h] \notin IF mode = "array" THEN {"]", "comma"} ELSE {"["}
    BY <1>1, <1>6, <1>8
  <2>. QED  BY <1>6, <2>1, <2>2 DEF WrongAt
<1>. QED  BY <1>1, <1>2, <1>3, <1>4, <1>6, <1>8, <1>9

\* A message is found where one is, and ends where it ends.
LEMMA ValueOfMessage ==
  ASSUME IInv, NEW i \in 1 .. Len(buffer), MessageAt(buffer, i)
  PROVE  ValueEnd(buffer, i) = MessageEnd(buffer, i)
<1>1. buffer \in Seq(Pieces[ctype])
  BY StateFacts
<1>2. buffer[i] \in {"m", "<"}
  BY DEF MessageAt, MessageEnd
<1>3. buffer[i] \notin Space \cup {"x", "["}
  BY <1>2 DEF Space
<1>. QED  BY <1>1, <1>3, ValueIsMessage

\* Decode: a message is the next one of the text; anything else is wrong.
LEMMA DecodeKeeps ==
  ASSUME IInv, Decode
  PROVE  IInv'
<1>1. /\ AtValue /\ ValueEnd(buffer, Here) # 0 /\ Hand(Here, "parsing", "rejected")
      /\ cursor' = ValueEnd(buffer, Here) - 1
      /\ mode' = (IF mode = "array" THEN "array" ELSE "done") /\ Turn
  BY DEF Decode
<1>2. PICK h \in 1 .. Len(text) :
           /\ h = dropped + Here /\ Here \in 1 .. Len(buffer) /\ dropped \in Nat
           /\ mode \in {"unknown", "single", "array"} /\ ctype = "json" /\ step = "parsing"
           /\ ReadTo(text, h - 1, mode) /\ Ordered(yielded, MessagesTo(text, h - 1))
           /\ buffer[Here] = text[h] /\ text[h] \notin Space
           /\ mode # "array" => text[h] # "["
           /\ MessageAt(buffer, Here) <=> MessageAt(text, h)
           /\ ~MessageAt(text, h) => WrongAt(text, h - 1, mode, h)
  BY <1>1, AtValueIs
<1>3. /\ text \in Seq(Pieces[ctype]) /\ buffer \in Seq(Pieces[ctype]) /\ yielded \in Seq(Places)
      /\ Len(text) \in Nat /\ Len(buffer) \in Nat /\ dropped + Len(buffer) = Len(text)
      /\ Len(text) <= MaxText /\ MaxText \in Nat /\ Window(buffer, text, dropped)
  BY StateFacts
<1>4. ValueEnd(buffer, Here) \in Here + 1 .. Len(buffer) + 1
  <2>1. Here \in 1 .. Len(buffer) + 1
    BY <1>2, <1>3
  <2>2. InRange(ValueEnd(buffer, Here), buffer, Here)
    BY <1>3, <2>1, ValueEndRange
  <2>. QED  BY <1>1, <2>2 DEF InRange
<1>5. cursor' \in 0 .. Len(buffer)
  BY <1>1, <1>2, <1>3, <1>4
<1>6. UNCHANGED <<ctype, text, dropped, buffer>> /\ mode' \in {"array", "done"}
  BY <1>1 DEF Turn
<1>7. CASE ~MessageAt(text, h)
  <2>1. UNCHANGED yielded /\ step' = "rejected"
    BY <1>1, <1>2, <1>7 DEF Hand
  <2>2. h - 1 \in 0 .. Len(text) /\ mode \in {"unknown", "single", "array", "done"}
    BY <1>2, <1>3
  <2>3. WrongAt(text, h - 1, mode, h) /\ text[h] # "<"
    <3>1. ASSUME buffer[Here] = "<" PROVE FALSE
      <4>1. ValueEnd(buffer, Here) = MessageEnd(buffer, Here)
        BY <1>2, <1>3, <3>1, ValueIsMessage DEF Space
      <4>. QED  BY <1>1, <1>2, <1>7, <4>1 DEF MessageAt
    <3>. QED  BY <1>2, <1>7, <3>1
  <2>4. TypeOK' /\ BufferIs'
    BY <1>1, <1>3, <1>5, <1>6, <2>1, TurnIs DEF Over, Refused
  <2>5. Hopeless
    <3>1. ASSUME NEW whole \in Continuations PROVE ~Acceptable(whole)
      BY <1>2, <1>3, <2>2, <2>3, ContinuationIs, WrongForEver
    <3>. QED  BY <3>1 DEF Hopeless
  <2>6. YieldedAre(Messages(text, FALSE))
    BY <1>2, <2>2, <2>3, JsonRead
  <2>. QED  BY <1>6, <2>1, <2>4, <2>5, <2>6, RefusedKeeps
<1>8. CASE MessageAt(text, h)
  <2>1. MessageAt(buffer, Here) /\ yielded' = Append(yielded, h) /\ step' = "parsing"
    BY <1>1, <1>2, <1>8 DEF Hand
  <2>2. ValueEnd(buffer, Here) = MessageEnd(buffer, Here)
    BY <1>2, <2>1, ValueOfMessage
  <2>3. MessageEnd(text, h) = dropped + MessageEnd(buffer, Here)
    BY <1>2, <1>3, <2>1, WindowIs
  <2>4. MessageEnd(text, h) - 1 = dropped + cursor'
    BY <1>1, <1>2, <1>3, <1>4, <2>2, <2>3
  <2>5. /\ ReadTo(text, MessageEnd(text, h) - 1, mode')
        /\ MessagesTo(text, MessageEnd(text, h) - 1) = MessagesTo(text, h - 1) \cup {h}
    BY <1>1, <1>2, <1>3, <1>8, ReadMessage
  <2>6. /\ MessagesTo(text, h - 1) \in SUBSET Places /\ h \in Places
        /\ \A k \in MessagesTo(text, h - 1) : k < h
    BY <1>3 DEF MessagesTo, Places
  <2>7. yielded' \in Seq(Places) /\ Ordered(yielded', MessagesTo(text, h - 1) \cup {h})
    BY <1>2, <1>3, <2>1, <2>6, OrderedAppend
  <2>8. TypeOK' /\ BufferIs' /\ Taken' = MessageEnd(text, h) - 1
    BY <1>1, <1>5, <1>6, <2>1, <2>4, <2>7, TurnIs
  <2>9. Ordered(yielded', MessagesTo(text, MessageEnd(text, h) - 1))
    BY <2>5, <2>7
  <2>. QED  BY <1>2, <1>6, <2>1, <2>5, <2>8, <2>9, ReadOn
<1>. QED  BY <1>7, <1>8

\* NotYet: nothing is yielded, as no message begins here yet.
LEMMA NotYetKeeps ==
  ASSUME IInv, NotYet
  PROVE  IInv'
<1>1. /\ AtValue /\ ValueEnd(buffer, Here) = 0 /\ Break(Here - 1)
      /\ mode' = (IF mode = "unknown" THEN "single" ELSE mode)
      /\ UNCHANGED <<ctype, yielded, text>>
  BY DEF NotYet
<1>2. PICK h \in 1 .. Len(text) :
           /\ h = dropped + Here /\ Here \in 1 .. Len(buffer) /\ dropped \in Nat
           /\ mode \in {"unknown", "single", "array"} /\ ctype = "json" /\ step = "parsing"
           /\ ReadTo(text, h - 1, mode) /\ Ordered(yielded, MessagesTo(text, h - 1))
           /\ buffer[Here] = text[h] /\ text[h] \notin Space
           /\ mode # "array" => text[h] # "["
           /\ MessageAt(buffer, Here) <=> MessageAt(text, h)
           /\ ~MessageAt(text, h) => WrongAt(text, h - 1, mode, h)
  BY <1>1, AtValueIs
<1>3. Len(text) \in Nat /\ Len(buffer) \in Nat
  BY StateFacts
<1>4. ~MessageAt(text, h)
  <2>1. ASSUME MessageAt(buffer, Here) PROVE FALSE
    <3>1. ValueEnd(buffer, Here) = MessageEnd(buffer, Here)
      BY <1>2, <2>1, ValueOfMessage
    <3>. QED  BY <1>1, <2>1, <3>1 DEF MessageAt
  <2>. QED  BY <1>2, <2>1
<1>5. mode' \in {"single", "array"} /\ (mode' = "single" => mode \in {"unknown", "single"}) /\ (mode' = "array" => mode = "array")
  BY <1>1, <1>2
<1>6. TypeOK' /\ BufferIs' /\ step' = "waiting" /\ Taken' = h - 1
  <2>1. Here - 1 \in 0 .. Len(buffer) /\ dropped + (Here - 1) = h - 1
    BY <1>2, <1>3
  <2>. QED  BY <1>1, <1>5, <2>1, BreakIs
<1>7. ReadTo(text, h - 1, mode')
  BY <1>2, <1>5 DEF ReadTo
<1>8. WrongAt(text, h - 1, mode', h)
  BY <1>2, <1>4, <1>5 DEF WrongAt
<1>9. (h - 1) + 1 = h /\ h - 1 < Len(text)
  BY <1>3
<1>10. mode' = "single" => text[h] \notin Space \cup {"["}
  BY <1>2, <1>5
<1>11. JsonInv'
  BY <1>1, <1>5, <1>6, <1>7, <1>8, <1>9, <1>10 DEF JsonInv
<1>12. Ordered(yielded, MessagesTo(text, Taken))'
  BY <1>1, <1>2, <1>6
<1>. QED  BY <1>1, <1>2, <1>6, <1>11, <1>12 DEF IInv

\* End: the verdict is the one the text deserves.
LEMMA EndKeeps ==
  ASSUME IInv, End
  PROVE  IInv'
<1>1. /\ ctype = "json" /\ step = "waiting" /\ step' = (IF Incomplete THEN "incomplete" ELSE "accepted")
      /\ UNCHANGED <<mode, cursor, yielded>> /\ Turn
  BY DEF End
<1>2. /\ text \in Seq(Pieces[ctype]) /\ buffer \in Seq(Pieces[ctype]) /\ yielded \in Seq(Places)
      /\ Len(text) \in Nat /\ Len(buffer) \in Nat /\ dropped \in Nat /\ dropped + Len(buffer) = Len(text)
      /\ cursor \in 0 .. Len(buffer) /\ Taken \in 0 .. Len(text)
      /\ mode \in {"unknown", "single", "array", "done"}
  BY StateFacts DEF IInv, TypeOK
<1>3. ReadTo(text, Taken, mode) /\ UNCHANGED <<ctype, buffer, text, dropped>>
  BY <1>1 DEF IInv, JsonInv, Turn
<1>4. TypeOK' /\ BufferIs' /\ Taken' = Taken
  <2>1. cursor' \in 0 .. Len(buffer) /\ yielded' \in Seq(Places) /\ mode' \in {"unknown", "single", "array", "done"}
    BY <1>1, <1>2
  <2>2. step' \in {"waiting", "parsing"} \cup Over
    BY <1>1 DEF Over, Refused
  <2>. QED  BY <1>1, <2>1, <2>2, TurnIs DEF Taken
<1>5. /\ Here \in cursor + 1 .. Len(buffer) + 1 /\ Here \in Nat
      /\ ~Exhausted => text[dropped + Here] \notin Space
      /\ Spaces(text, Taken + 1, dropped + Here - 1)
  BY <1>1, HereIs
<1>6. CASE Taken = Len(text) /\ mode # "single"
  <2>1. Exhausted
    BY <1>2, <1>5, <1>6 DEF Taken, Exhausted
  <2>2. step' = "accepted"
    BY <1>1, <2>1 DEF Incomplete
  <2>3. JsonInv'
    BY <1>1, <1>3, <1>4, <1>6, <2>2 DEF JsonInv
  <2>4. Ordered(yielded, MessagesTo(text, Taken))
    BY <1>1 DEF IInv
  <2>5. Ordered(yielded, MessagesTo(text, Taken))'
    BY <1>1, <1>3, <1>4, <2>4
  <2>. QED  BY <1>1, <1>3, <1>4, <2>2, <2>3, <2>5 DEF IInv
<1>7. CASE mode \in {"single", "array"} /\ WrongAt(text, Taken, mode, Taken + 1)
  <2>1. PICK h \in 1 .. Len(text) : h = Taken + 1
    BY <1>2, <1>7 DEF WrongAt
  <2>2. text[h] \notin Space /\ h <= Len(text)
    BY <1>2, <1>7, <2>1 DEF WrongAt
  <2>3. ~(h <= dropped + Here - 1)
    <3>1. ASSUME h <= dropped + Here - 1 PROVE FALSE
      <4>1. h \in Taken + 1 .. dropped + Here - 1
        BY <1>2, <1>5, <2>1, <3>1
      <4>. QED  BY <1>5, <2>2, <4>1 DEF Spaces
    <3>. QED  BY <3>1
  <2>4. ~Exhausted
    BY <1>2, <1>5, <2>1, <2>2, <2>3 DEF Exhausted
  <2>5. step' = "incomplete"
    BY <1>1, <1>7, <2>4 DEF Incomplete
  <2>6. WrongAt(text, Taken, mode, h)
    BY <1>7, <2>1
  <2>7. ~Acceptable(text)
    BY <1>1, <1>2, <1>3, <2>6, WrongIsRefused
  <2>8. YieldedAre(Messages(text, FALSE))
    <3>1. Ordered(yielded, MessagesTo(text, Taken))
      BY <1>1 DEF IInv, Refused
    <3>. QED  BY <1>1, <1>2, <1>3, <2>6, <3>1, JsonRead
  <2>. QED  BY <1>1, <1>3, <1>4, <2>5, <2>7, <2>8, RefusedKeeps
<1>8. \/ Taken = Len(text) /\ mode # "single"
      \/ mode \in {"single", "array"} /\ WrongAt(text, Taken, mode, Taken + 1)
  BY <1>1 DEF IInv, JsonInv
<1>. QED  BY <1>6, <1>7, <1>8

\* The first n pieces of the buffer are a window of the text.
LEMMA FrontOfBuffer ==
  ASSUME IInv, NEW n \in 0 .. Len(buffer), n = Len(buffer) \/ buffer[n] = "nl"
  PROVE  /\ SubSeq(buffer, 1, n) \in Seq(Pieces[ctype]) /\ Len(SubSeq(buffer, 1, n)) = n
         /\ Window(SubSeq(buffer, 1, n), text, dropped)
<1> DEFINE line == SubSeq(buffer, 1, n)
<1>1. /\ buffer \in Seq(Pieces[ctype]) /\ dropped \in Nat /\ Len(buffer) \in Nat /\ Len(text) \in Nat
      /\ dropped + Len(buffer) = Len(text) /\ Window(buffer, text, dropped)
  BY StateFacts
<1>2. line \in Seq(Pieces[ctype]) /\ Len(line) = n /\ \A i \in 1 .. n : line[i] = buffer[i]
  BY <1>1, Cut
<1> HIDE DEF line
<1>3. ASSUME NEW k \in 1 .. n PROVE line[k] = text[dropped + k]
  <2>1. k \in 1 .. Len(buffer)
    BY <1>1
  <2>2. buffer[k] = text[dropped + k]
    BY <1>1, <2>1 DEF Window
  <2>. QED  BY <1>2, <2>2
<1>4. dropped + n = Len(text) \/ n = 0 \/ line[n] # "<"
  BY <1>1, <1>2
<1>5. Window(line, text, dropped)
  BY <1>1, <1>2, <1>3, <1>4 DEF Window
<1>. QED  BY <1>2, <1>5 DEF line

\* The buffer after its first n pieces is what the text has after them.
LEMMA RestOfBuffer ==
  ASSUME IInv, NEW n \in 0 .. Len(buffer)
  PROVE  /\ From(buffer, n + 1) \in Seq(Pieces[ctype]) /\ Len(From(buffer, n + 1)) = Len(buffer) - n
         /\ From(buffer, n + 1) = From(text, (dropped + n) + 1)
<1> DEFINE b == From(buffer, n + 1)
           t == From(text, (dropped + n) + 1)
<1>1. /\ buffer \in Seq(Pieces[ctype]) /\ text \in Seq(Pieces[ctype]) /\ dropped \in Nat
      /\ Len(buffer) \in Nat /\ Len(text) \in Nat
      /\ dropped + Len(buffer) = Len(text) /\ Window(buffer, text, dropped)
  BY StateFacts
<1>2. buffer \in Seq(Pieces[ctype])
  BY <1>1
<1>3. b \in Seq(Pieces[ctype]) /\ Len(b) = Len(buffer) - n /\ \A i \in 1 .. Len(buffer) - n : b[i] = buffer[n + i]
  BY <1>2, FromIs
<1>4. dropped + n \in 0 .. Len(text)
  BY <1>1
<1>5. PICK q \in 0 .. Len(text) : q = dropped + n
  BY <1>4
<1>6. text \in Seq(Pieces[ctype])
  BY <1>1
<1>7. /\ From(text, q + 1) \in Seq(Pieces[ctype]) /\ Len(From(text, q + 1)) = Len(text) - q
      /\ \A i \in 1 .. Len(text) - q : From(text, q + 1)[i] = text[q + i]
  BY <1>5, <1>6, FromIs
<1>8. /\ t \in Seq(Pieces[ctype]) /\ Len(t) = Len(text) - (dropped + n)
      /\ \A i \in 1 .. Len(text) - (dropped + n) : t[i] = text[(dropped + n) + i]
  BY <1>5, <1>7
<1> HIDE DEF b, t
<1>9. Len(text) - (dropped + n) = Len(buffer) - n
  BY <1>1
<1>10. ASSUME NEW i \in 1 .. Len(buffer) - n PROVE b[i] = t[i]
  <2>1. n + i \in 1 .. Len(buffer) /\ dropped + (n + i) = (dropped + n) + i
    BY <1>1
  <2>2. buffer[n + i] = text[dropped + (n + i)]
    BY <1>1, <2>1 DEF Window
  <2>3. b[i] = buffer[n + i] /\ t[i] = text[(dropped + n) + i]
    BY <1>3, <1>8, <1>9
  <2>. QED  BY <2>1, <2>2, <2>3
<1>11. b = t
  BY <1>3, <1>8, <1>9, <1>10, SeqEqual
<1>. QED  BY <1>3, <1>11 DEF b, t

\* The only message of a line.
LEMMA MessageOfLine ==
  ASSUME NEW P, NEW s \in Seq(P), NEW t \in Seq(P), NEW d \in Nat, Window(t, s, d),
         NEW k \in 1 .. Len(t), MessageAt(t, k), Item(t, 1, Len(t))
  PROVE  MessagesTo(s, d + Len(t)) = MessagesTo(s, d) \cup {d + k}
<1>1. PICK l \in 1 .. Len(t) : MessageAt(t, l) /\ Spaces(t, 1, l - 1) /\ Spaces(t, MessageEnd(t, l), Len(t))
  <2>1. ~Spaces(t, 1, Len(t))
    BY SpaceIsPlain
  <2>. QED  BY <2>1 DEF Item
<1>2. Whole(t, Len(t))
  <2>1. MessageEnd(t, l) \in l + 1 .. Len(t) + 1
    BY <1>1, MessageEndIs DEF MessageAt
  <2>2. CASE MessageEnd(t, l) = Len(t) + 1
    BY <1>1, <2>2 DEF MessageAt, MessageEnd, Whole
  <2>3. CASE MessageEnd(t, l) # Len(t) + 1
    <3>1. t[Len(t)] \in Space
      BY <1>1, <2>1, <2>3 DEF Spaces
    <3>. QED  BY <3>1 DEF Space, Whole
  <2>. QED  BY <2>2, <2>3
<1>3. \A j \in 1 .. Len(t) : MessageAt(t, j) => j = l
  BY <1>1, <1>2, OnlyMessage
<1>4. \A j \in 1 .. Len(t) : MessageAt(t, j) <=> j = k
  BY <1>1, <1>3
<1>5. \A j \in 1 .. Len(t) : MessageAt(t, j) <=> MessageAt(s, d + j)
  BY WindowIs
<1>6. ASSUME NEW q PROVE q \in MessagesTo(s, d + Len(t)) <=> q \in MessagesTo(s, d) \cup {d + k}
  <2>1. CASE q \in 1 .. d
    BY <2>1 DEF MessagesTo
  <2>2. CASE q \in d + 1 .. d + Len(t)
    <3>1. PICK j \in 1 .. Len(t) : q = d + j
      <4>1. q - d \in 1 .. Len(t) /\ q = d + (q - d)
        BY <2>2
      <4>. QED  BY <4>1
    <3>2. MessageAt(s, q) <=> j = k
      BY <1>4, <1>5, <3>1
    <3>. QED  BY <2>2, <3>1, <3>2 DEF MessagesTo
  <2>3. CASE q \notin 1 .. d + Len(t)
    BY <2>3 DEF MessagesTo
  <2>. QED  BY <2>1, <2>2, <2>3
<1>. QED  BY <1>6

\* What a line does to what has been yielded.
LEMMA LineIs ==
  ASSUME IInv, ctype = "ndjson", step \notin {"rejected", "incomplete"}, NEW n \in 0 .. Len(buffer),
         n = Len(buffer) \/ buffer[n] = "nl", NEW s, NEW bad \in Refused, Line(n, s, bad)
  PROVE  /\ UNCHANGED <<ctype, mode, cursor, text>> /\ dropped' = dropped + n
         /\ s \in {"parsing", "accepted"} => TypeOK' /\ BufferIs'
         /\ Item(text, dropped + 1, dropped + n) =>
              step' = s /\ Ordered(yielded', MessagesTo(text, dropped + n))
         /\ ~Item(text, dropped + 1, dropped + n) => step' = bad /\ yielded' = yielded
         /\ Ordered(yielded, MessagesTo(text, dropped))
<1> DEFINE line == SubSeq(buffer, 1, n)
           i == NextUsed(line, 1)
<1>1. /\ text \in Seq(Pieces[ctype]) /\ buffer \in Seq(Pieces[ctype]) /\ yielded \in Seq(Places)
      /\ Len(text) \in Nat /\ Len(buffer) \in Nat /\ dropped \in Nat /\ dropped + Len(buffer) = Len(text)
      /\ Len(text) <= MaxText /\ MaxText \in Nat /\ Window(buffer, text, dropped)
      /\ cursor = 0 /\ mode = "unknown" /\ Ordered(yielded, MessagesTo(text, dropped))
  <2>1. cursor = 0 /\ mode = "unknown" /\ Ordered(yielded, MessagesTo(text, Taken))
    BY DEF IInv, LinesInv
  <2>2. Taken = dropped
    BY <2>1, StateFacts DEF Taken
  <2>. QED  BY <2>1, <2>2, StateFacts
<1>2. line \in Seq(Pieces[ctype]) /\ Len(line) = n /\ Window(line, text, dropped)
  BY FrontOfBuffer
<1>3. /\ Blank(line) => UNCHANGED yielded /\ step' = s
      /\ ~Blank(line) /\ Loads(line) => Hand(i, s, bad)
      /\ ~Blank(line) /\ ~Loads(line) => UNCHANGED yielded /\ step' = bad
      /\ buffer' = From(buffer, n + 1) /\ dropped' = dropped + n
      /\ UNCHANGED <<ctype, mode, cursor, text>>
  BY DEF Line
<1> HIDE DEF line
<1>4. /\ Blank(line) => Item(line, 1, n)
      /\ Loads(line) => i \in 1 .. n
      /\ Loads(line) /\ MessageAt(line, i) => Item(line, 1, n)
      /\ Item(line, 1, n) => Blank(line) \/ (Loads(line) /\ MessageAt(line, i))
  BY <1>2, LineIsItem
<1>5. Item(line, 1, n) <=> Item(text, dropped + 1, dropped + n)
  BY <1>1, <1>2, WindowItem
<1> HIDE DEF i
<1>6. ASSUME Loads(line)
      PROVE  /\ MessageAt(line, i) <=> MessageAt(text, dropped + i)
             /\ MessageAt(buffer, i) <=> MessageAt(text, dropped + i)
             /\ dropped + i \in Places
  <2>1. i \in 1 .. n /\ i \in 1 .. Len(buffer) /\ i \in 1 .. Len(line)
    BY <1>1, <1>2, <1>4, <1>6
  <2>2. MessageAt(line, i) <=> MessageAt(text, dropped + i)
    BY <1>1, <1>2, <2>1, WindowIs
  <2>3. MessageAt(buffer, i) <=> MessageAt(text, dropped + i)
    BY <1>1, <2>1, WindowIs
  <2>4. dropped + i \in Places
    BY <1>1, <2>1 DEF Places
  <2>. QED  BY <2>2, <2>3, <2>4
<1>7. ASSUME Blank(line)
      PROVE  /\ step' = s /\ yielded' = yielded /\ Item(text, dropped + 1, dropped + n)
             /\ Ordered(yielded', MessagesTo(text, dropped + n))
  <2>1. \A q \in Int : dropped + 1 <= q /\ q <= dropped + n => ~MessageAt(text, q)
    <3>1. ASSUME NEW q \in Int, dropped + 1 <= q, q <= dropped + n PROVE ~MessageAt(text, q)
      <4>1. q - dropped \in 1 .. n /\ q = dropped + (q - dropped)
        BY <1>1, <3>1
      <4>2. PICK j \in 1 .. n : q = dropped + j
        BY <4>1
      <4>3. ~MessageAt(line, j)
        BY <1>2, <1>7, SpaceIsPlain DEF Blank
      <4>4. MessageAt(line, j) <=> MessageAt(text, dropped + j)
        BY <1>1, <1>2, WindowIs
      <4>. QED  BY <4>2, <4>3, <4>4
    <3>. QED  BY <3>1
  <2>2. PICK p \in 0 .. Len(text) : p = dropped
    BY <1>1
  <2>3. PICK q \in p .. Len(text) : q = dropped + n
    BY <1>1, <2>2
  <2>4. \A k \in p + 1 .. q : ~MessageAt(text, k)
    BY <1>1, <2>1, <2>2, <2>3
  <2>5. MessagesTo(text, q) = MessagesTo(text, p)
    BY <1>1, <2>4, MessagesToSpaces
  <2>. QED  BY <1>1, <1>3, <1>4, <1>5, <1>7, <2>2, <2>3, <2>5
<1>8. ASSUME ~Blank(line), Loads(line), MessageAt(line, i)
      PROVE  /\ step' = s /\ Item(text, dropped + 1, dropped + n)
             /\ yielded' = Append(yielded, dropped + i)
             /\ Ordered(yielded', MessagesTo(text, dropped + n)) /\ yielded' \in Seq(Places)
  <2>1. step' = s /\ yielded' = Append(yielded, dropped + i) /\ Item(text, dropped + 1, dropped + n)
    BY <1>3, <1>4, <1>5, <1>6, <1>8 DEF Hand
  <2>2. MessagesTo(text, dropped + n) = MessagesTo(text, dropped) \cup {dropped + i}
    <3>1. i \in 1 .. Len(line) /\ Item(line, 1, Len(line))
      BY <1>2, <1>4, <1>8
    <3>2. MessagesTo(text, dropped + Len(line)) = MessagesTo(text, dropped) \cup {dropped + i}
      <4>1. /\ text \in Seq(Pieces[ctype]) /\ line \in Seq(Pieces[ctype]) /\ dropped \in Nat
            /\ Window(line, text, dropped) /\ MessageAt(line, i)
        BY <1>1, <1>2, <1>8
      <4>. QED  BY <3>1, <4>1, MessageOfLine
    <3>. QED  BY <1>2, <3>2
  <2>3. /\ MessagesTo(text, dropped) \in SUBSET Places
        /\ \A k \in MessagesTo(text, dropped) : k < dropped + i
    BY <1>1, <1>4, <1>8 DEF MessagesTo, Places
  <2>4. Append(yielded, dropped + i) \in Seq(Places) /\ Ordered(Append(yielded, dropped + i), MessagesTo(text, dropped) \cup {dropped + i})
    BY <1>1, <1>6, <1>8, <2>3, OrderedAppend
  <2>. QED  BY <2>1, <2>2, <2>4
<1>9. ASSUME ~Blank(line), ~(Loads(line) /\ MessageAt(line, i))
      PROVE  step' = bad /\ yielded' = yielded /\ ~Item(text, dropped + 1, dropped + n)
  <2>1. ~Item(text, dropped + 1, dropped + n)
    BY <1>4, <1>5, <1>9
  <2>2. CASE Loads(line)
    BY <1>3, <1>6, <1>9, <2>1, <2>2 DEF Hand
  <2>3. CASE ~Loads(line)
    BY <1>3, <1>9, <2>1, <2>3
  <2>. QED  BY <2>2, <2>3
<1>10. ASSUME s \in {"parsing", "accepted"} PROVE TypeOK' /\ BufferIs'
  <2>1. yielded' \in Seq(Places) /\ step' \in {"parsing", "accepted"} \cup Refused
    BY <1>1, <1>7, <1>8, <1>9, <1>10
  <2>2. /\ buffer' \in Seq(Pieces[ctype]) /\ Len(buffer') = Len(buffer) - n
        /\ buffer' = From(text, (dropped + n) + 1)
    BY <1>3, RestOfBuffer
  <2>3. /\ Len(buffer) \in Nat /\ dropped \in Nat /\ Len(text) \in Nat /\ dropped + Len(buffer) = Len(text)
        /\ dropped' = dropped + n /\ Len(buffer') = Len(buffer) - n /\ cursor' = 0
    BY <1>1, <1>3, <2>2
  <2>4. dropped' + Len(buffer') = Len(text) /\ cursor' \in 0 .. Len(buffer') /\ dropped' \in Nat
    BY <2>3
  <2>5. TypeOK'
    BY <1>1, <1>3, <2>1, <2>2, <2>4 DEF IInv, TypeOK, Over
  <2>6. BufferIs'
    <3>1. buffer' = From(text', dropped' + 1)
      BY <1>3, <2>2
    <3>2. From(text', dropped' + 1) = From(text, dropped + 1)'
      BY DEF From
    <3>. QED  BY <1>1, <1>3, <2>4, <3>1, <3>2 DEF BufferIs
  <2>. QED  BY <2>5, <2>6
<1>. QED  BY <1>1, <1>3, <1>7, <1>8, <1>9, <1>10

\* NextLine: one more line is good, or the text is wrong.
LEMMA NextLineKeeps ==
  ASSUME IInv, NextLine
  PROVE  IInv'
<1>1. ctype = "ndjson" /\ step = "parsing" /\ HasLine /\ Line(FirstEnd, "parsing", "rejected")
  BY DEF NextLine
<1>2. /\ text \in Seq(Pieces[ctype]) /\ buffer \in Seq(Pieces[ctype])
      /\ Len(text) \in Nat /\ Len(buffer) \in Nat /\ dropped \in Nat /\ dropped + Len(buffer) = Len(text)
      /\ Window(buffer, text, dropped)
  BY StateFacts
<1>3. cursor = 0 /\ mode = "unknown" /\ LinesGood(text, dropped + 1) /\ AtLineStart(text, dropped)
  BY <1>1 DEF IInv, LinesInv, AtLineStart
<1>4. FirstEnd \in 1 .. Len(buffer) /\ buffer[FirstEnd] = "nl" /\ \A k \in 1 .. FirstEnd - 1 : buffer[k] # "nl"
  BY <1>1, <1>2, FirstEndIs
<1>5. PICK n \in 1 .. Len(buffer) : n = FirstEnd
  BY <1>4
<1>6. n \in 0 .. Len(buffer) /\ buffer[n] = "nl" /\ Line(n, "parsing", "rejected")
  BY <1>1, <1>4, <1>5
<1>7. /\ UNCHANGED <<ctype, mode, cursor, text>> /\ dropped' = dropped + n
      /\ TypeOK' /\ BufferIs'
      /\ Item(text, dropped + 1, dropped + n) =>
           step' = "parsing" /\ Ordered(yielded', MessagesTo(text, dropped + n))
      /\ ~Item(text, dropped + 1, dropped + n) => step' = "rejected" /\ yielded' = yielded
      /\ Ordered(yielded, MessagesTo(text, dropped))
  <2>1. step \notin {"rejected", "incomplete"} /\ "rejected" \in Refused
    BY <1>1 DEF Refused
  <2>. QED  BY <1>1, <1>6, <2>1, LineIs
<1>8. PICK e \in dropped + 1 .. Len(text) : e = dropped + n
  BY <1>2, <1>5
<1>9. text[e] = "nl" /\ \A k \in dropped + 1 .. e - 1 : text[k] # "nl"
  <2>1. text[e] = "nl"
    BY <1>2, <1>5, <1>6, <1>8 DEF Window
  <2>2. ASSUME NEW k \in dropped + 1 .. e - 1 PROVE text[k] # "nl"
    <3>1. k - dropped \in 1 .. n - 1 /\ dropped + (k - dropped) = k
      BY <1>2, <1>8
    <3>2. PICK j \in 1 .. n - 1 : k = dropped + j
      BY <3>1
    <3>3. j \in 1 .. Len(buffer) /\ buffer[j] # "nl"
      BY <1>4, <1>5
    <3>. QED  BY <1>2, <3>2, <3>3 DEF Window
  <2>. QED  BY <2>1, <2>2
<1>10. Item(text, dropped + 1, e) <=> LinesGood(text, e + 1)
  BY <1>2, <1>3, <1>9, OneMoreLine
<1>11. CASE Item(text, dropped + 1, e)
  <2>1. step' = "parsing" /\ Ordered(yielded', MessagesTo(text, e)) /\ dropped' = e
    BY <1>7, <1>8, <1>11
  <2>2. LinesInv'
    BY <1>3, <1>7, <1>9, <1>10, <1>11, <2>1 DEF LinesInv
  <2>3. Taken' = e
    BY <1>2, <1>3, <1>7, <2>1 DEF Taken
  <2>4. Ordered(yielded, MessagesTo(text, Taken))'
    BY <1>7, <2>1, <2>3
  <2>. QED  BY <1>1, <1>7, <2>1, <2>2, <2>4 DEF IInv
<1>12. CASE ~Item(text, dropped + 1, e)
  <2>1. step' = "rejected" /\ yielded' = yielded
    BY <1>7, <1>8, <1>12
  <2>2. dropped \in 0 .. Len(text)
    BY <1>2
  <2>3. Hopeless
    <3>1. ASSUME NEW whole \in Continuations PROVE ~Acceptable(whole)
      BY <1>1, <1>2, <1>3, <1>9, <1>12, <2>2, ContinuationIs, BadLineForEver
    <3>. QED  BY <3>1 DEF Hopeless
  <2>4. YieldedAre(Messages(text, FALSE))
    <3>1. \A k \in Messages(text, FALSE) : k <= dropped
      BY <1>1, <1>2, <1>3, <1>9, <1>12, <2>2, NothingAfterBadLine
    <3>. QED  BY <1>1, <1>3, <1>7, <2>2, <3>1, LinesRead
  <2>. QED  BY <1>7, <2>1, <2>3, <2>4, RefusedKeeps
<1>. QED  BY <1>11, <1>12

\* LastLine: the same, of what is left.
LEMMA LastLineKeeps ==
  ASSUME IInv, LastLine
  PROVE  IInv'
<1>1. ctype = "ndjson" /\ step = "waiting" /\ Line(Len(buffer), "accepted", "incomplete")
  BY DEF LastLine
<1>2. /\ text \in Seq(Pieces[ctype]) /\ buffer \in Seq(Pieces[ctype])
      /\ Len(text) \in Nat /\ Len(buffer) \in Nat /\ dropped \in Nat /\ dropped + Len(buffer) = Len(text)
  BY StateFacts
<1>3. /\ cursor = 0 /\ mode = "unknown" /\ LinesGood(text, dropped + 1) /\ AtLineStart(text, dropped)
      /\ \A k \in dropped + 1 .. Len(text) : text[k] # "nl"
  BY <1>1 DEF IInv, LinesInv, AtLineStart
<1>4. dropped + Len(buffer) = Len(text) /\ Len(buffer) \in 0 .. Len(buffer) /\ dropped \in 0 .. Len(text)
  BY <1>2
<1>5. /\ UNCHANGED <<ctype, mode, cursor, text>> /\ dropped' = Len(text)
      /\ TypeOK' /\ BufferIs'
      /\ Item(text, dropped + 1, Len(text)) =>
           step' = "accepted" /\ Ordered(yielded', MessagesTo(text, Len(text)))
      /\ ~Item(text, dropped + 1, Len(text)) => step' = "incomplete" /\ yielded' = yielded
      /\ Ordered(yielded, MessagesTo(text, dropped))
  <2>1. step \notin {"rejected", "incomplete"} /\ "incomplete" \in Refused /\ (Len(buffer) = Len(buffer) \/ buffer[Len(buffer)] = "nl")
    BY <1>1 DEF Refused
  <2>. QED  BY <1>1, <1>4, <2>1, LineIs
<1>6. LineStart(text, Len(text) + 1) = dropped + 1 /\ LinesGood(text, Len(text) + 1)
  BY <1>2, <1>3, <1>4, LastStart
<1>7. CASE Item(text, dropped + 1, Len(text))
  <2>1. step' = "accepted" /\ Ordered(yielded', MessagesTo(text, Len(text)))
    BY <1>5, <1>7
  <2>2. LinesInv'
    BY <1>3, <1>5, <1>6, <1>7, <2>1 DEF LinesInv
  <2>3. Taken' = Len(text)
    BY <1>2, <1>3, <1>5 DEF Taken
  <2>4. Ordered(yielded, MessagesTo(text, Taken))'
    BY <1>5, <2>1, <2>3
  <2>. QED  BY <1>1, <1>5, <2>1, <2>2, <2>4 DEF IInv
<1>8. CASE ~Item(text, dropped + 1, Len(text))
  <2>1. ~Acceptable(text)
    BY <1>1, <1>6, <1>8 DEF Acceptable
  <2>2. YieldedAre(Messages(text, FALSE))
    <3>1. \A k \in Messages(text, FALSE) : k <= dropped
      BY <1>1, <1>2, <1>3, <1>4, NoLineNoMessage
    <3>. QED  BY <1>1, <1>3, <1>4, <1>5, <3>1, LinesRead
  <2>. QED  BY <1>5, <1>8, <2>1, <2>2, RefusedKeeps
<1>. QED  BY <1>7, <1>8

\* NoLine: no line ends in what is left.
LEMMA NoLineKeeps ==
  ASSUME IInv, NoLine
  PROVE  IInv'
<1>1. /\ ctype = "ndjson" /\ step = "parsing" /\ ~HasLine /\ step' = "waiting"
      /\ UNCHANGED <<mode, cursor, yielded>> /\ Turn
  BY DEF NoLine
<1>2. /\ text \in Seq(Pieces[ctype]) /\ buffer \in Seq(Pieces[ctype]) /\ yielded \in Seq(Places)
      /\ Len(text) \in Nat /\ Len(buffer) \in Nat /\ dropped \in Nat /\ dropped + Len(buffer) = Len(text)
      /\ Window(buffer, text, dropped) /\ cursor \in 0 .. Len(buffer)
  BY StateFacts
<1>3. \A k \in dropped + 1 .. Len(text) : text[k] # "nl"
  <2>1. ASSUME NEW k \in dropped + 1 .. Len(text) PROVE text[k] # "nl"
    <3>1. k - dropped \in 1 .. Len(buffer) /\ dropped + (k - dropped) = k
      BY <1>2
    <3>2. PICK j \in 1 .. Len(buffer) : k = dropped + j
      BY <3>1
    <3>3. buffer[j] # "nl"
      BY <1>1, <1>2 DEF HasLine, Contains
    <3>. QED  BY <1>2, <3>2, <3>3 DEF Window
  <2>. QED  BY <2>1
<1>4. UNCHANGED <<ctype, buffer, text, dropped>>
  BY <1>1 DEF Turn
<1>5. mode \in {"unknown", "single", "array", "done"} /\ LinesInv /\ Ordered(yielded, MessagesTo(text, Taken))
  BY <1>1 DEF IInv, TypeOK
<1>6. TypeOK' /\ BufferIs' /\ Taken' = Taken
  <2>1. cursor' \in 0 .. Len(buffer) /\ yielded' \in Seq(Places) /\ mode' \in {"unknown", "single", "array", "done"}
    BY <1>1, <1>2, <1>5
  <2>. QED  BY <1>1, <2>1, TurnIs DEF Taken
<1>7. LinesInv'
  BY <1>1, <1>3, <1>4, <1>5 DEF LinesInv
<1>8. Ordered(yielded, MessagesTo(text, Taken))'
  BY <1>1, <1>4, <1>5, <1>6
<1>. QED  BY <1>1, <1>4, <1>6, <1>7, <1>8 DEF IInv

------------------------------------------------------------------------------
(* Every execution *)

\* It holds at first, and every step keeps it.
LEMMA InitHolds == Init => IInv
<1> SUFFICES ASSUME Init PROVE IInv
  OBVIOUS
<1>1. /\ ctype \in ContentTypes /\ mode = "unknown" /\ buffer = <<>> /\ cursor = 0 /\ step = "waiting"
      /\ yielded = <<>> /\ text = <<>> /\ dropped = 0
  BY DEF Init
<1>2. Len(text) = 0 /\ Len(buffer) = 0 /\ DOMAIN yielded = {} /\ MaxText \in Nat
  BY <1>1, StreamAssumption
<1>3. TypeOK
  BY <1>1, <1>2 DEF TypeOK
<1>4. BufferIs
  BY <1>1, <1>2 DEF BufferIs, From
<1>5. Taken = 0
  BY <1>1 DEF Taken
<1>6. Ordered(yielded, MessagesTo(text, Taken))
  <2>1. MessagesTo(text, Taken) = {}
    BY <1>5 DEF MessagesTo
  <2>2. ToSet(yielded) = {}
    BY <1>1, EmptyQueue
  <2>. QED  BY <1>2, <2>1, <2>2 DEF Ordered
<1>7. JsonInv
  <2>1. Spaces(text, 1, Taken)
    BY <1>5 DEF Spaces
  <2>2. Whole(text, Taken)
    BY <1>5 DEF Whole
  <2>. QED  BY <1>1, <1>2, <1>5, <2>1, <2>2 DEF JsonInv, ReadTo
<1>8. LinesInv
  <2>1. LineEnds(text) = {}
    BY <1>1, <1>2 DEF LineEnds
  <2>2. LinesGood(text, dropped + 1)
    BY <2>1 DEF LinesGood
  <2>. QED  BY <1>1, <1>2, <2>2 DEF LinesInv
<1>. QED  BY <1>1, <1>3, <1>4, <1>6, <1>7, <1>8 DEF IInv

LEMMA IInvKept == IInv /\ [Next]_vars => IInv'
<1> SUFFICES ASSUME IInv, [Next]_vars PROVE IInv'
  OBVIOUS
<1>1. CASE Receive
  BY <1>1, ReceiveKeeps
<1>2. CASE Undecodable
  BY <1>2, UndecodableKeeps
<1>3. CASE UsedUp
  BY <1>3, UsedUpKeeps
<1>4. CASE OpenArray
  BY <1>4, OpenArrayKeeps
<1>5. CASE CloseArray
  BY <1>5, CloseArrayKeeps
<1>6. CASE SkipComma
  BY <1>6, SkipCommaKeeps
<1>7. CASE TrailingData
  BY <1>7, TrailingDataKeeps
<1>8. CASE Decode
  BY <1>8, DecodeKeeps
<1>9. CASE NotYet
  BY <1>9, NotYetKeeps
<1>10. CASE NextLine
  BY <1>10, NextLineKeeps
<1>11. CASE NoLine
  BY <1>11, NoLineKeeps
<1>12. CASE End
  BY <1>12, EndKeeps
<1>13. CASE LastLine
  BY <1>13, LastLineKeeps
<1>14. CASE UNCHANGED vars
  <2>1. UNCHANGED <<ctype, mode, buffer, cursor, step, yielded, text, dropped>>
    BY <1>14 DEF vars
  <2>2. TypeOK' /\ BufferIs' /\ Taken' = Taken
    BY <2>1 DEF IInv, TypeOK, BufferIs, From, Taken
  <2>3. JsonInv' <=> JsonInv
    BY <2>1, <2>2 DEF JsonInv
  <2>4. LinesInv' <=> LinesInv
    BY <2>1 DEF LinesInv
  <2>5. /\ (step = "rejected" => Hopeless') /\ (step = "incomplete" => ~Acceptable(text)')
        /\ step \in {"rejected", "incomplete"} => NothingElse' /\ YieldedAre(Messages(text, FALSE))'
    BY <2>1, SameText DEF IInv
  <2>6. step \notin {"rejected", "incomplete"} => Ordered(yielded, MessagesTo(text, Taken))'
    BY <2>1, <2>2 DEF IInv
  <2>. QED  BY <2>1, <2>2, <2>3, <2>4, <2>5, <2>6 DEF IInv, Refused
<1>. QED  BY <1>1, <1>2, <1>3, <1>4, <1>5, <1>6, <1>7, <1>8, <1>9, <1>10, <1>11, <1>12, <1>13, <1>14
          DEF Next, Parse

\* The invariant holds of every execution, whatever the texts, their length and the
\* places where they are cut (server.py:133-206).
THEOREM Invariance == Spec => []IInv
BY InitHolds, IInvKept, PTL DEF Spec

------------------------------------------------------------------------------
(* What the invariant means for the properties *)

\* A payload that is taken has been read to its end, with nothing left to wait for.
LEMMA AcceptedIsRead ==
  ASSUME IInv, step = "accepted"
  PROVE  Acceptable(text) /\ YieldedAre(Messages(text, TRUE)) /\ Ordered(yielded, MessagesTo(text, Len(text)))
<1>1. text \in Seq(Pieces[ctype]) /\ Len(text) \in Nat /\ dropped \in Nat /\ ctype \in {"json", "ndjson"}
      /\ Taken \in 0 .. Len(text)
  BY StateFacts
<1>2. Ordered(yielded, MessagesTo(text, Taken))
  BY DEF IInv
<1>3. CASE ctype = "json"
  <2>1. /\ ReadTo(text, Taken, mode) /\ Taken = Len(text)
        /\ mode # "single" \/ WrongAt(text, Taken, mode, Taken + 1)
        /\ mode \in {"unknown", "single", "array", "done"}
    BY <1>3 DEF IInv, JsonInv, TypeOK
  <2>2. mode \in {"unknown", "array", "done"} /\ Len(text) \in 0 .. Len(text)
    BY <1>1, <2>1 DEF WrongAt
  <2>3. ReadTo(text, Len(text), mode)
    BY <2>1
  <2>4. Acceptable(text)
    BY <1>1, <1>3, <2>2, <2>3, ReadIsAcceptable
  <2>5. MessagesTo(text, Len(text)) = {k \in Messages(text, TRUE) : k <= Len(text)}
    BY <1>1, <1>3, <2>1, <2>2, <2>3, PrefixMessages
  <2>6. \A k \in Messages(text, TRUE) : k <= Len(text)
    BY <1>1 DEF Messages
  <2>. QED  BY <1>2, <2>1, <2>4, <2>5, <2>6 DEF Ordered, YieldedAre
<1>4. CASE ctype = "ndjson"
  <2>1. /\ Taken = Len(text) /\ LinesGood(text, Len(text) + 1)
        /\ Item(text, LineStart(text, Len(text) + 1), Len(text))
    BY <1>1, <1>4 DEF IInv, LinesInv, Taken
  <2>2. MessagesTo(text, Len(text)) = Messages(text, TRUE)
    BY <1>1, <1>4, <2>1, AllLinesMessages
  <2>3. Acceptable(text)
    BY <1>4, <2>1 DEF Acceptable
  <2>. QED  BY <1>2, <2>1, <2>2, <2>3 DEF Ordered, YieldedAre
<1>. QED  BY <1>1, <1>3, <1>4

\* While the generator waits, all that is complete has been yielded.
LEMMA WaitingHasRead ==
  ASSUME IInv, step \in {"waiting", "undecodable"}
  PROVE  YieldedAre(Messages(text, FALSE))
<1>1. text \in Seq(Pieces[ctype]) /\ Len(text) \in Nat /\ dropped \in Nat /\ ctype \in {"json", "ndjson"}
      /\ Taken \in 0 .. Len(text)
  BY StateFacts
<1>2. step \notin {"rejected", "incomplete"} /\ Ordered(yielded, MessagesTo(text, Taken))
  BY DEF IInv, Refused
<1>3. CASE ctype = "json"
  <2>1. /\ ReadTo(text, Taken, mode) /\ mode \in {"unknown", "single", "array", "done"}
        /\ Taken = Len(text) \/ WrongAt(text, Taken, mode, Taken + 1)
    BY <1>2, <1>3 DEF IInv, JsonInv, TypeOK
  <2>2. WrongAt(text, Taken, mode, Taken + 1) => \E h \in 1 .. Len(text) : WrongAt(text, Taken, mode, h)
    BY <1>1 DEF WrongAt
  <2>. QED  BY <1>1, <1>2, <1>3, <2>1, <2>2, JsonRead
<1>4. CASE ctype = "ndjson"
  <2>1. /\ Taken = dropped /\ LinesGood(text, dropped + 1) /\ AtLineStart(text, dropped)
        /\ \A k \in dropped + 1 .. Len(text) : text[k] # "nl"
    BY <1>1, <1>2, <1>4 DEF IInv, LinesInv, AtLineStart, Taken
  <2>2. \A k \in Messages(text, FALSE) : k <= dropped
    BY <1>1, <1>4, <2>1, NoLineNoMessage
  <2>. QED  BY <1>1, <1>2, <1>4, <2>1, <2>2, LinesRead
<1>. QED  BY <1>1, <1>3, <1>4

\* The verdict is right, and it takes what json.loads() would take.
LEMMA VerdictIsRight ==
  ASSUME IInv
  PROVE  RightVerdict
<1>1. SameVerdict
  BY AcceptedIsRead DEF SameVerdict, IInv, Hopeless
<1>2. ASSUME ctype = "json", Loads(text), MessagesOnly
      PROVE  step \notin {"rejected", "incomplete"} /\ (step = "accepted" => YieldedAre(AllOfIt))
  <2>1. text \in Seq(Pieces[ctype]) /\ DOMAIN text = 1 .. Len(text)
    BY StateFacts
  <2>2. \A k \in DOMAIN text : text[k] # "x" /\ (text[k] = "[" => k = NextUsed(text, 1))
    BY <1>2 DEF MessagesOnly
  <2>3. Acceptable(text)
    BY <1>2, <2>1, <2>2, WellFormedIsAcceptable
  <2>4. step \notin {"rejected", "incomplete"}
    BY <2>3, TextIsContinuation DEF IInv, Hopeless, Refused
  <2>5. MessagesTo(text, Len(text)) = AllOfIt
    BY <2>1 DEF MessagesTo, AllOfIt
  <2>. QED  BY <2>4, <2>5, AcceptedIsRead DEF Ordered, YieldedAre
<1>. QED  BY <1>1, <1>2 DEF RightVerdict, TakesWellFormed, Refused

\* The buffer, the cursor and what has been yielded agree with the text, and nothing
\* but its messages is ever yielded (server.py:133-143, 151-200).
THEOREM ConsistentAlways == Spec => []Consistent
<1>1. IInv => Consistent
  BY NothingElseHolds DEF IInv, Consistent
<1>. QED  BY <1>1, Invariance, PTL

\* Whenever the generator waits for a chunk, or has refused the payload, it has
\* yielded every message that has arrived whole, in order, once, wherever the chunks
\* were cut (server.py:151-196).
THEOREM CompleteAlways == Spec => []AsSoonAsComplete
<1>1. IInv => AsSoonAsComplete
  BY WaitingHasRead DEF AsSoonAsComplete, IInv, Refused
<1>. QED  BY <1>1, Invariance, PTL

\* The verdict is that of the whole text, not of its chunks: a payload is refused before
\* its end only if no continuation of it is acceptable, at its end only if it is not, and
\* is taken only if it is; and what json.loads() takes for a message or a list of messages
\* is never refused (server.py:141-143, 160-206).
THEOREM VerdictAlways == Spec => []RightVerdict
<1>1. IInv => RightVerdict
  BY VerdictIsRight
<1>. QED  BY <1>1, Invariance, PTL

\* A turn of a loop that does not leave it leaves less of the buffer to look at.
Left == Len(buffer) - cursor
TurnMoves == step = "parsing" /\ step' = "parsing" => Left' < Left

\* Every turn of a loop that is not its last moves on: with the finite buffer, this is
\* why "while True" ends with every chunk (server.py:134, 151).
THEOREM EveryTurnMoves == Spec => [][TurnMoves]_vars
<1>1. ASSUME IInv, IInv', [Next]_vars PROVE [TurnMoves]_vars
  <2> SUFFICES ASSUME step = "parsing", step' = "parsing", ~(UNCHANGED vars) PROVE Left' < Left
    BY <1>1 DEF TurnMoves
  <2>1. Len(buffer) \in Nat /\ cursor \in 0 .. Len(buffer) /\ buffer \in Seq(Pieces[ctype])
    BY <1>1, StateFacts
  <2>2. CASE OpenArray \/ CloseArray \/ SkipComma
    <3>1. cursor' = Here /\ buffer' = buffer /\ AtWork
      BY <2>2 DEF OpenArray, CloseArray, SkipComma, Advance, Turn
    <3>2. Here \in cursor + 1 .. Len(buffer) + 1
      BY <1>1, <3>1, HereIs DEF AtWork
    <3>. QED  BY <2>1, <3>1, <3>2 DEF Left
  <2>3. CASE Decode
    <3>1. /\ cursor' = ValueEnd(buffer, Here) - 1 /\ buffer' = buffer /\ AtWork /\ ~Exhausted
          /\ ValueEnd(buffer, Here) # 0
      BY <2>3 DEF Decode, AtValue, Turn
    <3>2. Here \in cursor + 1 .. Len(buffer) + 1 /\ Here \in 1 .. Len(buffer)
      BY <1>1, <3>1, HereIs DEF AtWork
    <3>3. ValueEnd(buffer, Here) \in Here + 1 .. Len(buffer) + 1
      <4>1. Here \in 1 .. Len(buffer) + 1
        BY <2>1, <3>2
      <4>2. InRange(ValueEnd(buffer, Here), buffer, Here)
        BY <2>1, <4>1, ValueEndRange
      <4>. QED  BY <3>1, <4>2 DEF InRange
    <3>. QED  BY <2>1, <3>1, <3>2, <3>3 DEF Left
  <2>4. CASE NextLine
    <3>1. /\ HasLine /\ buffer' = From(buffer, FirstEnd + 1) /\ cursor' = cursor
      BY <2>4 DEF NextLine, Line
    <3>2. FirstEnd \in 1 .. Len(buffer)
      BY <2>1, <3>1, FirstEndIs
    <3>3. PICK n \in 1 .. Len(buffer) : n = FirstEnd
      BY <3>2
    <3>4. Len(buffer') = Len(buffer) - n
      <4>1. n \in 0 .. Len(buffer)
        BY <2>1
      <4>. QED  BY <1>1, <3>1, <3>3, <4>1, RestOfBuffer
    <3>. QED  BY <2>1, <3>1, <3>4 DEF Left
  <2>5. CASE UsedUp \/ NotYet
    BY <2>5 DEF UsedUp, NotYet, Break
  <2>6. CASE Receive \/ Undecodable \/ TrailingData \/ NoLine \/ End \/ LastLine
    BY <2>6 DEF Receive, Undecodable, TrailingData, NoLine, End, LastLine
  <2>. QED  BY <1>1, <2>2, <2>3, <2>4, <2>5, <2>6 DEF Next, Parse
<1>. QED  BY <1>1, Invariance, PTL DEF Spec
==============================================================================
