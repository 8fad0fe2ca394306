----------------------------- MODULE MCJbpFile ------------------------------
(***************************************************************************)
(* Bounded instance of JbpFile.  A field holds four bytes of TREs; the     *)
(* longest text and the longest image whose lengths fit the file header    *)
(* have the lengths that also stand for unknown ones.                      *)
(***************************************************************************)
EXTENDS JbpFile

TreOf(tag, size, id) == [tag |-> tag, size |-> size, id |-> id]

New(n, type, marked, tres, len) ==
  [key |-> <<"new", n>>, type |-> type, marked |-> marked, tres |-> tres,
   owner |-> Nobody, len |-> len]

\* Repeats of A with another tag between them, of which the second does not fit
\* and the third would again; a tag without a definition.
Repeats ==
  <<TreOf("A", 2, 1), TreOf("B", 1, 2), TreOf("A", 3, 3), TreOf("X", 1, 4), TreOf("A", 1, 5)>>

MCAssets ==
  {New(1, "image", FALSE, Repeats, 7),
   New(2, "image", TRUE, <<TreOf("A", 4, 6), TreOf("B", 1, 7)>>, 2),
   New(3, "image", FALSE, <<TreOf("B", 5, 8)>>, 3),
   New(4, "text", FALSE, <<>>, 9),
   New(5, "text", FALSE, <<>>, 10),
   New(6, "data", FALSE, <<>>, 6)}

\* All tags in their order.
MCTags == <<"A", "B", "X">>

\* The text of 10 bytes has a length that does not fit.
MCLimit ==
  [count |-> 10, fl |-> 1000, hl |-> 100, lish |-> 100, li |-> 8,
   ltsh |-> 10, lt |-> 10, ldsh |-> 10, ld |-> 100]

\* Nothing, as much as fits, and a TRE that is too large all by itself.
MCMetas ==
  {<<TreOf("B", 4, 9)>>, <<TreOf("A", 5, 10), TreOf("B", 2, 11)>>}

\* A file of another producer: TREs in both fields of an image, the instances of
\* a tag apart from one another, overflow of both fields, one index too large.
MCForeign ==
  {[exists |-> TRUE, hl |-> 5 + 4 * 4, xhd |-> NoField,
    images |-> <<[marked |-> FALSE, len |-> 5,
                  udid  |-> FilledField(<<TreOf("A", 1, 12), TreOf("B", 1, 13), TreOf("A", 1, 14)>>, 1),
                  ixshd |-> FilledField(<<TreOf("B", 1, 15), TreOf("A", 1, 16)>>, 2)],
                 [marked |-> FALSE, len |-> 1,
                  udid  |-> FilledField(<<TreOf("B", 2, 17)>>, 3),
                  ixshd |-> NoField]>>,
    texts  |-> <<>>,
    des    |-> <<[owner |-> 1, held |-> <<TreOf("A", 2, 18)>>, len |-> 2],
                 [owner |-> 1, held |-> <<TreOf("B", 2, 19), TreOf("A", 1, 20)>>, len |-> 3]>>]}
=============================================================================
