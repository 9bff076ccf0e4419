-------------------------- MODULE MCTouchMonitor --------------------------
(* Instances of TouchMonitor for TLC.                                      *)
EXTENDS TouchMonitor

CONSTANTS p1, p2, c1, c2

TwoPaths == {p1, p2}
TwoChannels == {c1, c2}
Second == {p2}
\* What is "other" is passed by as "shared" is.
FirstVaries == [p \in Path |-> IF p = p1 THEN {"fido", "locked", "shared", "strange"} ELSE {"fido"}]
SecondSingle == [p \in Path |-> IF p = p1 THEN {c1, c2} ELSE {c1}]

---------------------------------------------------------------------------
(* The descriptors of report_test.go, and one with reports of two ids.     *)

Pack(size, count, kind) ==
    <<Item("size", size), Item("count", count), Item("input", kind)>>

Application(page) ==
    <<Item("page", page), Item("usage", <<"narrow", 1>>), Item("open", "application"),
      Item("usage", <<"narrow", 32>>)>> \o Pack(8, 64, "data")
    \o <<Item("main", "output"), Item("close", "")>>

KeyDescriptor == Application("fido")
KeyboardDescriptor == Application("desktop")
NumberedDescriptor == <<Item("id", 7)>> \o KeyDescriptor
SharedDescriptor == KeyDescriptor \o KeyboardDescriptor
CutDescriptor == Front(KeyDescriptor)

TwoIdsDescriptor ==
    <<Item("page", "desktop"), Item("id", 1), Item("usage", <<"fido", 1>>),
      Item("push", ""), Item("page", "fido"), Item("open", "application"),
      Item("open", "physical")>>
    \o Pack(1, 12, "data") \o <<Item("pop", ""), Item("close", "")>>
    \o Pack(4, 13, "data") \o <<Item("id", 2)>> \o Pack(8, 8, "data")
    \o <<Item("close", "")>>

SomeContents ==
    [kind \in AllKinds |->
        CASE kind \in {"fido", "locked"} -> KeyDescriptor
          [] kind = "other" -> KeyboardDescriptor
          [] kind = "shared" -> SharedDescriptor
          [] kind = "strange" -> CutDescriptor
          [] kind = "absent" -> <<>>]

SomeItems ==
    {Item("page", page) : page \in {"fido", "desktop", "huge"}}
    \cup {Item("usage", <<page, 1>>) : page \in {"fido", "narrow"}}
    \cup {Item("size", size) : size \in {0, 1, 8, 129, 8193}}
    \cup {Item("count", count) : count \in {0, 1, 7, 1024}}
    \cup {Item("id", id) : id \in {0, 1, 2, 256}}
    \cup {Item("open", kind) : kind \in {"application", "physical"}}
    \cup {Item("input", kind) : kind \in {"data", "constant"}}
    \cup {Item(tag, "") : tag \in {"push", "pop", "close", "main", "other", "long", "cut"}}

\* All of them with at most one edit.
SomeDescriptors ==
    UNION {Variants(d, SomeItems) : d \in {SharedDescriptor, TwoIdsDescriptor}}
        \cup {KeyDescriptor, KeyboardDescriptor, NumberedDescriptor, CutDescriptor}
===========================================================================
