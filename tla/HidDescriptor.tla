--------------------------- MODULE HidDescriptor ---------------------------
(***************************************************************************)
(* The HID report descriptor parser (Descriptor of internal/touch          *)
(* /report.go): which input reports of an interface belong to its FIDO     *)
(* application collection, and how long they are.                          *)
(*                                                                         *)
(* A descriptor is the sequence of its items; an item has a tag and a      *)
(* value.  A usage is a pair of page and number, its page is "narrow" when *)
(* the item leaves it to the page in effect.  "long" and "cut" are a long  *)
(* item and one that the descriptor ends within; "main" and "other" are    *)
(* the main items and all items that the parser has no case for.           *)
(***************************************************************************)
EXTENDS Naturals, FiniteSetsExt, SequencesExt, TLC

CONSTANTS
    MaxStack,    \* bound: pushed globals, 16 in the code
    MaxNesting,  \* bound: open collections, 32 in the code
    Descriptors  \* bound: the descriptors that are compared

ASSUME DescriptorAssumption == MaxStack \in Nat /\ MaxNesting \in Nat

MaxBits == 8192   \* of an input report
MinBytes == 8     \* of a FIDO packet

Item(tag, value) == [tag |-> tag, value |-> value]

FidoUsage == <<"fido", 1>>
NoUsage == <<"none", 0>>

Malformed == [ok |-> FALSE, layout |-> [id \in {} |-> 0]]
Understood(layout) == [ok |-> TRUE, layout |-> layout]

MainTags == {"open", "close", "input", "main"}

---------------------------------------------------------------------------
(* The parser: the state before the first item, and what an item does.     *)

Blank ==
    [page |-> "none", size |-> 0, count |-> 0, id |-> 0]

Start ==
    [g |-> Blank, stack |-> <<>>, collections |-> <<>>, usage |-> NoUsage,
     bits |-> [id \in {} |-> 0], fido |-> {}, other |-> {},
     numbered |-> FALSE, bad |-> FALSE]

Inside(s) == s.collections # <<>> /\ Last(s.collections)

BitsOf(s, id) == IF id \in DOMAIN s.bits THEN s.bits[id] ELSE 0

FitsInput(g) ==
    /\ g.size \in 1..MaxBits /\ g.count \in 1..MaxBits
    /\ g.size * g.count <= MaxBits

\* The errors that end the parsing at an item.
Acceptable(s, item) ==
    /\ item.tag \notin {"long", "cut"}
    /\ item.tag = "page"  => item.value # "huge"
    /\ item.tag = "id"    => item.value \in 1..255
    /\ item.tag = "push"  => Len(s.stack) < MaxStack
    /\ item.tag = "pop"   => s.stack # <<>>
    /\ item.tag = "open"  => Len(s.collections) < MaxNesting
    /\ item.tag = "close" => s.collections # <<>>
    /\ item.tag = "input" =>
          /\ FitsInput(s.g)
          /\ BitsOf(s, s.g.id) + s.g.size * s.g.count <= MaxBits

\* Mistake: a pop forgets the pushed globals and keeps the current ones.
TakeGlobalKeeping(s, item) ==
    CASE item.tag \in {"page", "size", "count", "id"} ->
            [s EXCEPT !.g[item.tag] = item.value,
                      !.numbered = @ \/ item.tag = "id"]
      [] item.tag = "push" -> [s EXCEPT !.stack = Append(@, s.g)]
      [] item.tag = "pop"  -> [s EXCEPT !.stack = Front(@)]

TakeGlobal(s, item) ==
    CASE item.tag \in {"page", "size", "count", "id"} ->
            [s EXCEPT !.g[item.tag] = item.value,
                      !.numbered = @ \/ item.tag = "id"]
      [] item.tag = "push" -> [s EXCEPT !.stack = Append(@, s.g)]
      [] item.tag = "pop"  -> [s EXCEPT !.g = Last(s.stack), !.stack = Front(@)]

TakeUsage(s, item) ==
    [s EXCEPT !.usage = IF item.value[1] = "narrow"
                        THEN <<s.g.page, item.value[2]>> ELSE item.value]

TakeInput(s, item) ==
    LET id == s.g.id
        own == Inside(s) /\ item.value = "data"
    IN [s EXCEPT !.bits = (id :> BitsOf(s, id) + s.g.size * s.g.count) @@ @,
                 !.fido = IF own THEN @ \cup {id} ELSE @,
                 !.other = IF own THEN @ ELSE @ \cup {id}]

TakeMain(s, item) ==
    LET t == CASE item.tag = "open" ->
                    [s EXCEPT !.collections = Append(@,
                        Inside(s) \/ (item.value = "application" /\ s.usage = FidoUsage))]
               [] item.tag = "close" -> [s EXCEPT !.collections = Front(@)]
               [] item.tag = "input" -> TakeInput(s, item)
               [] OTHER -> s
    IN [t EXCEPT !.usage = NoUsage]

Take(s, item) ==
    IF s.bad \/ ~Acceptable(s, item) THEN [s EXCEPT !.bad = TRUE]
    ELSE CASE item.tag \in MainTags -> TakeMain(s, item)
           [] item.tag = "usage"    -> TakeUsage(s, item)
           [] item.tag = "other"    -> s
           [] OTHER                 -> TakeGlobal(s, item)

\* The input reports in s that are clearly packets of the FIDO application.
PacketReports(s) ==
    {id \in s.fido \ s.other : s.bits[id] % 8 = 0 /\ s.bits[id] \div 8 >= MinBytes}

\* Malformed, or the lengths of the FIDO reports including their id byte.
Descriptor(d) ==
    LET s == FoldLeft(Take, Start, d)
    IN IF \/ d = <<>> \/ s.bad \/ s.collections # <<>> \/ s.stack # <<>>
          \/ s.numbered /\ 0 \in PacketReports(s)
       THEN Malformed
       ELSE Understood([id \in PacketReports(s) |->
                s.bits[id] \div 8 + (IF s.numbered THEN 1 ELSE 0)])

---------------------------------------------------------------------------
(* The same by position, without a parser: which earlier items hold at a   *)
(* place of the descriptor.                                                *)

Positions(d, tag) == {k \in DOMAIN d : d[k].tag = tag}

Tagged(d, tag, from, to) == Cardinality(Positions(d, tag) \cap from..to)

\* No more ends than beginnings in any stretch that starts after j.
StaysOpen(d, begin, end, j, k) ==
    \A m \in j..k : Tagged(d, end, j + 1, m) <= Tagged(d, begin, j + 1, m)

\* Every end has its beginning and the reverse, at most max are open.
Nested(d, begin, end, max) ==
    /\ StaysOpen(d, begin, end, 0, Len(d))
    /\ Tagged(d, begin, 1, Len(d)) = Tagged(d, end, 1, Len(d))
    /\ \A m \in DOMAIN d : Tagged(d, begin, 1, m) - Tagged(d, end, 1, m) <= max

\* The value of a global item at position k: the latest not undone by a pop.
InEffect(d, tag, k) ==
    LET J == {j \in Positions(d, tag) : j < k /\ StaysOpen(d, "push", "pop", j, k - 1)}
    IN IF J = {} THEN Blank[tag] ELSE d[Max(J)].value

\* The usage at position k: the latest since the latest main item.
UsageAt(d, k) ==
    LET J == {j \in Positions(d, "usage") :
                j < k /\ \A m \in j..(k - 1) : d[m].tag \notin MainTags}
        value == d[Max(J)].value
    IN IF J = {} THEN NoUsage
       ELSE IF value[1] = "narrow" THEN <<InEffect(d, "page", Max(J)), value[2]>>
       ELSE value

\* The collection opened at j is a FIDO application.
IsFido(d, j) == d[j].value = "application" /\ UsageAt(d, j) = FidoUsage

InsideFido(d, k) ==
    \E j \in Positions(d, "open") :
        j < k /\ StaysOpen(d, "open", "close", j, k - 1) /\ IsFido(d, j)

Fields(d, k) == [tag \in {"size", "count", "id"} |-> InEffect(d, tag, k)]

BitsAt(d, k) == Fields(d, k).size * Fields(d, k).count

InputsOf(d, id) == {k \in Positions(d, "input") : Fields(d, k).id = id}

TotalBits(d, id) == MapThenSumSet(LAMBDA k : BitsAt(d, k), InputsOf(d, id))

InputIds(d) == {Fields(d, k).id : k \in Positions(d, "input")}

IsNumbered(d) == Positions(d, "id") # {}

\* Every input of the report is a data field of a FIDO application, and the
\* report is of whole bytes and holds a packet.
IsPacketReport(d, id) ==
    /\ \A k \in InputsOf(d, id) : InsideFido(d, k) /\ d[k].value = "data"
    /\ TotalBits(d, id) % 8 = 0 /\ TotalBits(d, id) \div 8 >= MinBytes

WellFormed(d) ==
    /\ d # <<>>
    /\ Nested(d, "push", "pop", MaxStack)
    /\ Nested(d, "open", "close", MaxNesting)
    /\ \A k \in DOMAIN d :
          /\ d[k].tag \notin {"long", "cut"}
          /\ d[k].tag = "page" => d[k].value # "huge"
          /\ d[k].tag = "id" => d[k].value \in 1..255
    /\ \A k \in Positions(d, "input") : FitsInput(Fields(d, k))
    /\ \A id \in InputIds(d) : TotalBits(d, id) <= MaxBits
    /\ ~(IsNumbered(d) /\ 0 \in InputIds(d) /\ IsPacketReport(d, 0))

ByPosition(d) ==
    IF WellFormed(d)
    THEN Understood([id \in {i \in InputIds(d) : IsPacketReport(d, i)} |->
             TotalBits(d, id) \div 8 + (IF IsNumbered(d) THEN 1 ELSE 0)])
    ELSE Malformed

\* All descriptors that differ from d in at most one item: one is missing,
\* one is different, or one has been inserted.
Variants(d, Items) ==
    {d} \cup {RemoveAt(d, k) : k \in DOMAIN d}
        \cup {ReplaceAt(d, k, item) : k \in DOMAIN d, item \in Items}
        \cup {InsertAt(d, k, item) : k \in 1..(Len(d) + 1), item \in Items}

\* The parser finds exactly the reports that the items describe, through any
\* nesting of collections and pushed globals: a report of another application
\* is never taken for one of a security key, a malformed descriptor never for
\* a layout (report.go:19).
ParsedAsDescribed == \A d \in Descriptors : Descriptor(d) = ByPosition(d)
===========================================================================
