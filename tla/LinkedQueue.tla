---------------------------- MODULE LinkedQueue ----------------------------
(***************************************************************************)
(* The string queue of queue.c, a linked list over the blocks of harness.c:*)
(* every routine as the program it executes in a memory m on the queue q,  *)
(* a block or NULL.                                                        *)
(***************************************************************************)
EXTENDS Harness

Queue(head, tail, size) == [kind |-> "queue", head |-> head, tail |-> tail, size |-> size]
Element(value, next) == [kind |-> "element", value |-> value, next |-> next]
Text(s) == [kind |-> "string", s |-> s]

Data(m, a) == m.blk[a].data
IsElement(m, a) == a \in Addrs /\ m.blk[a] # Free /\ Data(m, a).kind = "element"

\* The elements from a on; a list that is whole ends with NULL.
Chain(m, a) ==
  LET elements == {x \in Addrs : IsElement(m, x)}
  IN Walk(a, elements, [x \in elements |-> Data(m, x).next])
After(m, a) ==
  LET chain == Chain(m, a) IN IF chain = <<>> THEN a ELSE Data(m, Last(chain)).next
Whole(m, a) == After(m, a) = NULL
Endless(m, a) == IsElement(m, After(m, a))

\* Writes of queue.c.  A write through the tail into a block that is no element
\* any more changes nothing the queue looks at.
Payload(m, w) ==
  CASE w.op = "data" -> [m EXCEPT !.blk[w.a].data = w.v]
    [] w.op = "link" -> IF IsElement(m, w.a) THEN [m EXCEPT !.blk[w.a].data.next = w.v] ELSE m
    [] w.op = "head" -> [m EXCEPT !.blk[w.a].data.head = w.v]
    [] w.op = "tail" -> [m EXCEPT !.blk[w.a].data.tail = w.v]
    [] w.op = "size" -> [m EXCEPT !.blk[w.a].data.size = @ + w.v]
    [] OTHER -> Lose(m)

Execute(m, w) ==
  IF m.lost THEN m
  ELSE IF w.op \in {"data", "link", "head", "tail", "size", "stray"} THEN Payload(m, w)
  ELSE Header(m, w)

Run(m, program) ==
  LET run[n \in 0..Len(program)] == IF n = 0 THEN m ELSE Execute(run[n - 1], program[n])
  IN run[Len(program)]

\* A loop over the list that meets a block which is no element.
Stray(m, a) == IF Whole(m, a) \/ Endless(m, a) THEN <<>> ELSE <<Store("stray", NULL, NULL)>>

-----------------------------------------------------------------------------

q_new(a) == IF a = NULL THEN <<>>
            ELSE test_malloc(a) \o <<Store("data", a, Queue(NULL, NULL, 0))>>

q_free(m, q) ==
  IF q = NULL THEN <<>>
  ELSE LET chain == Chain(m, Data(m, q).head)
       IN FlattenSeq([i \in DOMAIN chain |->
                       test_free(Data(m, chain[i]).value) \o test_free(chain[i])])
          \o Stray(m, Data(m, q).head) \o test_free(q)

\* An insertion with the blocks that its two allocations return; the second is
\* not tried when the first fails.
Allocate(a, b, s, next) ==
  test_malloc(a) \o test_malloc(b) \o <<Store("data", b, Text(s)), Store("data", a, Element(b, next))>>

InsertedLeak(q, a, b, linked) ==      \* mutant: the element is not freed
  IF q = NULL \/ a = NULL THEN <<>>
  ELSE IF b = NULL THEN test_malloc(a) ELSE linked

Inserted(q, a, b, linked) ==
  IF q = NULL \/ a = NULL THEN <<>>
  ELSE IF b = NULL THEN test_malloc(a) \o test_free(a) ELSE linked

q_insert_head(m, q, s, a, b) ==
  LET d == Data(m, q)
      linked == Allocate(a, b, s, d.head)
                \o <<Store("head", q, a)>>
                \o (IF d.tail = NULL THEN <<Store("tail", q, a)>> ELSE <<>>)
                \o <<Store("size", q, 1)>>
  IN Inserted(q, a, b, linked)

q_insert_tailSwapped(m, q, s, a, b) ==     \* mutant: tail is set before the old tail is linked
  LET d == Data(m, q)
      linked == Allocate(a, b, s, NULL)
                \o <<Store("tail", q, a), IF d.tail # NULL THEN Store("link", a, a) ELSE Store("head", q, a),
                     Store("size", q, 1)>>
  IN Inserted(q, a, b, linked)

q_insert_tail(m, q, s, a, b) ==
  LET d == Data(m, q)
      linked == Allocate(a, b, s, NULL)
                \o <<IF d.tail # NULL THEN Store("link", d.tail, a) ELSE Store("head", q, a),
                     Store("tail", q, a), Store("size", q, 1)>>
  IN Inserted(q, a, b, linked)

\* The tail is left alone, also when the element was the last one.
Removable(m, q) == q # NULL /\ Data(m, q).head # NULL

q_remove_head(m, q) ==
  IF ~Removable(m, q) THEN <<>>
  ELSE LET head == Data(m, q).head
       IN IF ~IsElement(m, head) THEN <<Store("stray", NULL, NULL)>>
          ELSE test_free(Data(m, head).value) \o test_free(head)
               \o <<Store("head", q, Data(m, head).next), Store("size", q, -1)>>

q_size(m, q) == IF Removable(m, q) THEN Data(m, q).size ELSE 0

\* A loop over the list that comes to an element it has been at: the reversal
\* goes back from there to the first element over the links it has made.
Returned(m, a) ==
  LET chain == Chain(m, a)
      again == {k \in DOMAIN chain : chain[k] = After(m, a)}
      back(k) == [i \in 1..k |->
                    Store("link", chain[k + 1 - i], IF i = 1 THEN Last(chain) ELSE chain[k + 2 - i])]
  IN IF again = {} THEN Stray(m, a) ELSE back(CHOOSE k \in again : TRUE)

q_reverse(m, q) ==
  IF ~Removable(m, q) THEN <<>>
  ELSE LET d == Data(m, q)
           chain == Chain(m, d.head)
       IN [i \in DOMAIN chain |-> Store("link", chain[i], IF i = 1 THEN NULL ELSE chain[i - 1])]
          \o Returned(m, d.head) \o <<Store("head", q, d.tail), Store("tail", q, d.head)>>

\* A loop of q_free that does not end: its program is executed up to a time limit only.
Cyclic(m, q) == q # NULL /\ Endless(m, Data(m, q).head)
=============================================================================
