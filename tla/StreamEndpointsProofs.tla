------------------------ MODULE StreamEndpointsProofs ------------------------
(***************************************************************************)
(* Proofs about StreamEndpoints: whatever the backend, the client of a     *)
(* usual answer sees a legal message (MessageStream), and between two      *)
(* frames it knows what its translator knows.  Whatever the backend does   *)
(* beyond the usual, the types hold, a client that listens learns how a    *)
(* completed stream ended, and of a Gemini backend it misses nothing.      *)
(*                                                                         *)
(* The translators put events into a queue and the client takes them out   *)
(* later.  The proofs follow the client to where the queue will have led   *)
(* it: Reaches says that a queue, event by event a legal one, takes a      *)
(* client from one view of the message to another.  A translator is then   *)
(* a machine that moves the view at the queue's end, and Send moves the    *)
(* view at its beginning.  Hears does the same for what a client has       *)
(* heard, of events that may be out of place, too.                         *)
(***************************************************************************)
EXTENDS StreamEndpoints, FiniteSetTheorems, SequenceTheorems, TLAPS

\* The quirks that break the protocol of a stream, by its backend.
Abuses(b) ==
  CASE b = "OpenAI"          -> {"toolAfterThinking", "refusalAfterThinking", "thinkingAfterText",
                                 "textAfterTool", "nameless", "cutShort"}
    [] b = "OpenAIResponses" -> {"overlap", "cutShort"}
    [] b = "GeminiNative"    -> {"toolAfterThinking", "thinkingAfterText", "shrink", "cutShort"}

\* Backends of this kind have none of them.
Usual(b) == Abuses(b) \cap Quirks = {}

Clients == [stage : {"idle", "open", "ending", "stopped", "failed", "confused"},
            open : SUBSET [index : Nat, kind : Kinds],
            next : Nat,
            heard : [Kinds -> Nat]]

\* A client's view, field by field.
View(stage, open, next, heard) ==
  [stage |-> stage, open |-> open, next |-> next, heard |-> heard]

\* An event that belongs where it comes.
Fits(c, e) ==
  CASE e.type = "message_start" -> c.stage = "idle"
    [] e.type = "block_start"   -> c.stage = "open" /\ c.open = {} /\ e.index = c.next
    [] e.type = "block_delta"   ->
         c.stage = "open" /\ c.open = {[index |-> e.index, kind |-> e.kind]}
    [] e.type = "block_stop"    ->
         c.stage = "open" /\ \E k \in Kinds : c.open = {[index |-> e.index, kind |-> k]}
    [] e.type = "message_delta" -> c.stage = "open" /\ c.open = {}
    [] e.type = "message_stop"  -> c.stage = "ending"
    [] e.type = "error"         -> c.stage \in {"idle", "open", "ending"}

\* v holds what client c has seen after each event of a queue.
Run(c, out, v) ==
  /\ v \in [1 .. Len(out) + 1 -> Clients]
  /\ v[1] = c
  /\ \A i \in 1 .. Len(out) : Fits(v[i], out[i]) /\ v[i + 1] = Sees(v[i], out[i])

Reaches(c, out, d) == \E v : Run(c, out, v) /\ v[Len(out) + 1] = d

\* What that says, quirk by quirk.
LEMMA UsualMeans ==
  /\ Usual("OpenAI") =>
       /\ "toolAfterThinking" \notin Quirks /\ "refusalAfterThinking" \notin Quirks
       /\ "thinkingAfterText" \notin Quirks /\ "textAfterTool" \notin Quirks
       /\ "nameless" \notin Quirks /\ "cutShort" \notin Quirks
  /\ Usual("OpenAIResponses") => "overlap" \notin Quirks /\ "cutShort" \notin Quirks
  /\ Usual("GeminiNative") =>
       /\ "toolAfterThinking" \notin Quirks /\ "thinkingAfterText" \notin Quirks
       /\ "shrink" \notin Quirks /\ "cutShort" \notin Quirks
BY DEF Usual, Abuses

-----------------------------------------------------------------------------
(* Events, and queues of them *)

\* A client that sees an event is still a client.
LEMMA SeesType ==
  ASSUME NEW c \in Clients, NEW e \in Events
  PROVE  Sees(c, e) \in Clients
<1> USE DEF Clients, Events, Sized, Block, BlockStop, Plain, Kinds
<1>1. CASE e.type = "block_start"
  <2>1. e.index \in Nat /\ e.kind \in Kinds
    BY <1>1
  <2>2. Sees(c, e) = [c EXCEPT !.open = @ \cup {[index |-> e.index, kind |-> e.kind]},
                               !.next = e.index + 1]
    BY <1>1 DEF Sees
  <2>3. c.open \cup {[index |-> e.index, kind |-> e.kind]} \in SUBSET [index : Nat, kind : Kinds]
    BY <2>1
  <2>4. e.index + 1 \in Nat
    BY <2>1
  <2>5. \A o \in SUBSET [index : Nat, kind : Kinds], n \in Nat :
          [c EXCEPT !.open = o, !.next = n] \in Clients
    OBVIOUS
  <2>6. QED BY <2>2, <2>3, <2>4, <2>5
<1>2. CASE e.type = "block_delta"
  <2>1. [c.heard EXCEPT ![e.kind] = @ + e.size] \in [Kinds -> Nat]
    BY <1>2
  <2>2. QED BY <1>2, <2>1 DEF Sees
<1>3. CASE e.type = "block_stop"
  BY <1>3 DEF Sees
<1>4. CASE e.type \in {"message_start", "message_delta", "message_stop", "error"}
  BY <1>4 DEF Sees
<1>5. QED BY <1>1, <1>2, <1>3, <1>4

\* What a client that an event fits is left with.
LEMMA SeesFitting ==
  ASSUME NEW c \in Clients, NEW e \in Events, Fits(c, e)
  PROVE  /\ e.type = "message_start" =>
              Sees(c, e) = View("open", c.open, c.next, c.heard)
         /\ e.type = "block_start" =>
              Sees(c, e) = View("open", {[index |-> e.index, kind |-> e.kind]},
                                c.next + 1, c.heard)
         /\ e.type = "block_delta" =>
              Sees(c, e) = View("open", c.open, c.next,
                                [c.heard EXCEPT ![e.kind] = @ + e.size])
         /\ e.type = "block_stop" => Sees(c, e) = View("open", {}, c.next, c.heard)
         /\ e.type = "message_delta" =>
              Sees(c, e) = View("ending", c.open, c.next, c.heard)
         /\ e.type = "message_stop" =>
              Sees(c, e) = View("stopped", c.open, c.next, c.heard)
         /\ e.type = "error" =>
              Sees(c, e) = View("failed", c.open, c.next, c.heard)
<1> USE DEF Clients, Events, Sized, Block, BlockStop, Plain, Kinds, View, Fits
<1>1. CASE e.type = "message_start"
  BY <1>1 DEF Sees
<1>2. CASE e.type = "block_start"
  BY <1>2 DEF Sees
<1>3. CASE e.type = "block_delta"
  <2>1. c.stage = "open" /\ c.open = {[index |-> e.index, kind |-> e.kind]}
    BY <1>3
  <2>2. [index |-> e.index, kind |-> e.kind] \in {b \in c.open : b.index = e.index}
    BY <2>1
  <2>3. Sees(c, e) = [c EXCEPT !.heard[e.kind] = @ + e.size]
    BY <1>3, <2>1, <2>2 DEF Sees
  <2>4. QED BY <1>3, <2>1, <2>3
<1>4. CASE e.type = "block_stop"
  <2>1. PICK k \in Kinds : c.open = {[index |-> e.index, kind |-> k]}
    BY <1>4
  <2>2. {b \in c.open : b.index = e.index} = c.open
    BY <2>1
  <2>3. Sees(c, e) = [c EXCEPT !.stage = IF c.open # {} THEN @ ELSE "confused",
                               !.open = @ \ c.open]
    BY <1>4, <2>2 DEF Sees
  <2>4. c.open # {} /\ c.open \ c.open = {} /\ c.stage = "open"
    BY <1>4, <2>1
  <2>5. QED BY <1>4, <2>3, <2>4
<1>5. CASE e.type = "message_delta"
  BY <1>5 DEF Sees
<1>6. CASE e.type = "message_stop"
  BY <1>6 DEF Sees
<1>7. CASE e.type = "error"
  BY <1>7 DEF Sees
<1>8. QED BY <1>1, <1>2, <1>3, <1>4, <1>5, <1>6, <1>7

\* An event that fits is a step of the abstract message, or none.
LEMMA FittingIsLegal ==
  ASSUME NEW e \in Events, client \in Clients, Fits(client, e),
         client' = Sees(client, e)
  PROVE  [Protocol!Next]_(Protocol!avars)
<1>1. CASE e.type = "message_start"
  <2>1. client' = View("open", client.open, client.next, client.heard)
    BY <1>1, SeesFitting
  <2>2. Protocol!Begin
    BY <1>1, <2>1 DEF Protocol!Begin, Fits, View
  <2>3. QED BY <2>2 DEF Protocol!Next
<1>2. CASE e.type = "block_start"
  <2>1. e.kind \in Kinds
    BY <1>2 DEF Events, Plain, Block, Sized, Kinds
  <2>2. client' = View("open", {[index |-> e.index, kind |-> e.kind]},
                       client.next + 1, client.heard)
    BY <1>2, SeesFitting
  <2>3. client.stage = "open" /\ client.open = {} /\ e.index = client.next
    BY <1>2 DEF Fits
  <2>4. Protocol!OpenBlock
    BY <2>1, <2>2, <2>3 DEF Protocol!OpenBlock, View
  <2>5. QED BY <2>4 DEF Protocol!Next
<1>3. CASE e.type = "block_delta"
  <2>1. client' = View("open", client.open, client.next,
                       [client.heard EXCEPT ![e.kind] = @ + e.size])
    BY <1>3, SeesFitting
  <2>2. client.stage = "open"
    BY <1>3 DEF Fits
  <2>3. QED BY <2>1, <2>2 DEF Protocol!avars, View
<1>4. CASE e.type = "block_stop"
  <2>1. client' = View("open", {}, client.next, client.heard)
    BY <1>4, SeesFitting
  <2>2. client.stage = "open" /\ client.open # {}
    BY <1>4 DEF Fits
  <2>3. Protocol!CloseBlock
    BY <2>1, <2>2 DEF Protocol!CloseBlock, View
  <2>4. QED BY <2>3 DEF Protocol!Next
<1>5. CASE e.type = "message_delta"
  <2>1. client' = View("ending", client.open, client.next, client.heard)
    BY <1>5, SeesFitting
  <2>2. Protocol!EndContent
    BY <1>5, <2>1 DEF Protocol!EndContent, Fits, View
  <2>3. QED BY <2>2 DEF Protocol!Next
<1>6. CASE e.type = "message_stop"
  <2>1. client' = View("stopped", client.open, client.next, client.heard)
    BY <1>6, SeesFitting
  <2>2. Protocol!Stop
    BY <1>6, <2>1 DEF Protocol!Stop, Fits, View
  <2>3. QED BY <2>2 DEF Protocol!Next
<1>7. CASE e.type = "error"
  <2>1. client' = View("failed", client.open, client.next, client.heard)
    BY <1>7, SeesFitting
  <2>2. Protocol!Fail
    BY <1>7, <2>1 DEF Protocol!Fail, Fits, View
  <2>3. QED BY <2>2 DEF Protocol!Next
<1>8. QED
  BY <1>1, <1>2, <1>3, <1>4, <1>5, <1>6, <1>7 DEF Events, Plain, Block, Sized

\* An empty queue leaves a client where it is.
LEMMA ReachesNothing ==
  ASSUME NEW c \in Clients
  PROVE  Reaches(c, <<>>, c)
<1> DEFINE v == [i \in 1 .. 1 |-> c]
<1>1. Len(<<>>) = 0
  OBVIOUS
<1>2. Run(c, <<>>, v)
  BY <1>1 DEF Run
<1>3. QED BY <1>1, <1>2 DEF Reaches

\* And nowhere else.
LEMMA ReachesSame ==
  ASSUME NEW c, NEW d, Reaches(c, <<>>, d)
  PROVE  d = c /\ c \in Clients
<1>1. Len(<<>>) = 0
  OBVIOUS
<1>2. PICK v : Run(c, <<>>, v) /\ v[Len(<<>>) + 1] = d
  BY DEF Reaches
<1>3. QED BY <1>1, <1>2 DEF Run

\* Where a queue leads is a client.
LEMMA ReachesType ==
  ASSUME NEW c, NEW d, NEW out \in Seq(Events), Reaches(c, out, d)
  PROVE  d \in Clients
<1>1. PICK v : Run(c, out, v) /\ v[Len(out) + 1] = d
  BY DEF Reaches
<1>2. QED BY <1>1 DEF Run

\* One more event at the end of a queue.
LEMMA ReachesMore ==
  ASSUME NEW c, NEW d, NEW out \in Seq(Events), NEW e \in Events,
         Reaches(c, out, d), Fits(d, e)
  PROVE  Reaches(c, Append(out, e), Sees(d, e))
<1>1. PICK v : Run(c, out, v) /\ v[Len(out) + 1] = d
  BY DEF Reaches
<1> DEFINE n == Len(out)
           w == [i \in 1 .. n + 2 |-> IF i = n + 2 THEN Sees(d, e) ELSE v[i]]
           q == Append(out, e)
<1>2. n \in Nat /\ Len(q) = n + 1 /\ q[n + 1] = e /\ \A i \in 1 .. n : q[i] = out[i]
  OBVIOUS
<1>3. Sees(d, e) \in Clients
  BY ReachesType, SeesType
<1>4. w \in [1 .. Len(q) + 1 -> Clients] /\ w[1] = c
  BY <1>1, <1>2, <1>3 DEF Run
<1>5. \A i \in 1 .. Len(q) : Fits(w[i], q[i]) /\ w[i + 1] = Sees(w[i], q[i])
  <2> TAKE i \in 1 .. Len(q)
  <2>1. CASE i = n + 1
    BY <1>1, <1>2, <2>1
  <2>2. CASE i \in 1 .. n
    BY <1>1, <1>2, <2>2 DEF Run
  <2>3. QED BY <1>2, <2>1, <2>2
<1>6. w[Len(q) + 1] = Sees(d, e)
  BY <1>2
<1>7. Run(c, q, w)
  BY <1>4, <1>5 DEF Run
<1>8. QED BY <1>6, <1>7 DEF Reaches

\* The event at its beginning is seen.
LEMMA ReachesFirst ==
  ASSUME NEW c, NEW d, NEW out \in Seq(Events), out # <<>>, Reaches(c, out, d)
  PROVE  /\ c \in Clients /\ Head(out) \in Events /\ Fits(c, Head(out))
         /\ Reaches(Sees(c, Head(out)), Tail(out), d)
<1>1. PICK v : Run(c, out, v) /\ v[Len(out) + 1] = d
  BY DEF Reaches
<1> DEFINE n == Len(out)
           w == [i \in 1 .. n |-> v[i + 1]]
           q == Tail(out)
<1>2. n \in Nat \ {0} /\ Len(q) = n - 1 /\ Head(out) = out[1] /\ out[1] \in Events
  OBVIOUS
<1>3. \A i \in 1 .. n - 1 : q[i] = out[i + 1]
  OBVIOUS
<1>4. c \in Clients /\ Fits(c, out[1]) /\ v[2] = Sees(c, out[1])
  BY <1>1, <1>2 DEF Run
<1>5. w \in [1 .. Len(q) + 1 -> Clients] /\ w[1] = Sees(c, Head(out))
  BY <1>1, <1>2, <1>4 DEF Run
<1>6. \A i \in 1 .. Len(q) : Fits(w[i], q[i]) /\ w[i + 1] = Sees(w[i], q[i])
  <2> TAKE i \in 1 .. Len(q)
  <2>1. i + 1 \in 1 .. n /\ i \in 1 .. n - 1
    BY <1>2
  <2>2. Fits(v[i + 1], out[i + 1]) /\ v[i + 1 + 1] = Sees(v[i + 1], out[i + 1])
    BY <1>1, <2>1 DEF Run
  <2>3. w[i] = v[i + 1] /\ w[i + 1] = v[i + 1 + 1]
    BY <1>2, <2>1
  <2>4. QED BY <1>3, <2>1, <2>2, <2>3
<1>7. w[Len(q) + 1] = d
  BY <1>1, <1>2
<1>8. QED BY <1>2, <1>4, <1>5, <1>6, <1>7 DEF Run, Reaches

-----------------------------------------------------------------------------
(* The seven ways to lengthen a queue *)

Silent == [k \in Kinds |-> 0]

\* The message begins.
LEMMA ReachesBegin ==
  ASSUME NEW c, NEW out \in Seq(Events), NEW o, NEW n, NEW h,
         Reaches(c, out, View("idle", o, n, h))
  PROVE  /\ Append(out, Plain("message_start")) \in Seq(Events)
         /\ Reaches(c, Append(out, Plain("message_start")), View("open", o, n, h))
<1> DEFINE d == View("idle", o, n, h)
           e == Plain("message_start")
<1>1. d \in Clients /\ e \in Events /\ e.type = "message_start"
  BY ReachesType DEF Events, Plain, Block, Sized
<1>2. Fits(d, e)
  BY <1>1 DEF Fits, View
<1>3. Sees(d, e) = View("open", o, n, h)
  BY <1>1, <1>2, SeesFitting DEF View
<1>4. QED BY <1>1, <1>2, <1>3, ReachesMore

\* A block is opened.
LEMMA ReachesOpen ==
  ASSUME NEW c, NEW out \in Seq(Events), NEW n \in Nat, NEW h, NEW k \in Kinds,
         Reaches(c, out, View("open", {}, n, h))
  PROVE  /\ Append(out, Block("block_start", n, k)) \in Seq(Events)
         /\ Reaches(c, Append(out, Block("block_start", n, k)),
                    View("open", {[index |-> n, kind |-> k]}, n + 1, h))
<1> DEFINE d == View("open", {}, n, h)
           e == Block("block_start", n, k)
<1>1. d \in Clients /\ e \in Events /\ e.type = "block_start" /\ e.index = n /\ e.kind = k
  BY ReachesType DEF Events, Plain, Block, Sized
<1>2. Fits(d, e)
  BY <1>1 DEF Fits, View
<1>3. Sees(d, e) = View("open", {[index |-> n, kind |-> k]}, n + 1, h)
  BY <1>1, <1>2, SeesFitting DEF View
<1>4. QED BY <1>1, <1>2, <1>3, ReachesMore

\* A block is filled.
LEMMA ReachesDelta ==
  ASSUME NEW c, NEW out \in Seq(Events), NEW i \in Nat, NEW k \in Kinds, NEW m \in Nat,
         NEW n, NEW h,
         Reaches(c, out, View("open", {[index |-> i, kind |-> k]}, n, h))
  PROVE  /\ Append(out, Sized("block_delta", i, k, m)) \in Seq(Events)
         /\ Reaches(c, Append(out, Sized("block_delta", i, k, m)),
                    View("open", {[index |-> i, kind |-> k]}, n, [h EXCEPT ![k] = @ + m]))
<1> DEFINE d == View("open", {[index |-> i, kind |-> k]}, n, h)
           e == Sized("block_delta", i, k, m)
<1>1. d \in Clients /\ e \in Events /\ e.type = "block_delta"
      /\ e.index = i /\ e.kind = k /\ e.size = m
  BY ReachesType DEF Events, Plain, Block, Sized
<1>2. Fits(d, e)
  BY <1>1 DEF Fits, View
<1>3. Sees(d, e) = View("open", {[index |-> i, kind |-> k]}, n, [h EXCEPT ![k] = @ + m])
  BY <1>1, <1>2, SeesFitting DEF View
<1>4. QED BY <1>1, <1>2, <1>3, ReachesMore

\* A delta of which the size is left out.
LEMMA ReachesQuietDelta ==
  ASSUME NEW c, NEW out \in Seq(Events), NEW i \in Nat, NEW k \in Kinds, NEW n,
         Reaches(c, out, View("open", {[index |-> i, kind |-> k]}, n, Silent))
  PROVE  /\ Append(out, Block("block_delta", i, k)) \in Seq(Events)
         /\ Reaches(c, Append(out, Block("block_delta", i, k)),
                    View("open", {[index |-> i, kind |-> k]}, n, Silent))
<1>1. [Silent EXCEPT ![k] = @ + 0] = Silent
  BY DEF Silent
<1>2. Block("block_delta", i, k) = Sized("block_delta", i, k, 0)
  BY DEF Block
<1>3. 0 \in Nat
  OBVIOUS
<1>4. /\ Append(out, Sized("block_delta", i, k, 0)) \in Seq(Events)
      /\ Reaches(c, Append(out, Sized("block_delta", i, k, 0)),
                 View("open", {[index |-> i, kind |-> k]}, n, [Silent EXCEPT ![k] = @ + 0]))
  BY <1>3, ReachesDelta
<1>5. QED BY <1>1, <1>2, <1>4

\* A block is closed.
LEMMA ReachesClose ==
  ASSUME NEW c, NEW out \in Seq(Events), NEW i \in Nat, NEW k \in Kinds, NEW n, NEW h,
         Reaches(c, out, View("open", {[index |-> i, kind |-> k]}, n, h))
  PROVE  /\ Append(out, BlockStop(i)) \in Seq(Events)
         /\ Reaches(c, Append(out, BlockStop(i)), View("open", {}, n, h))
<1> DEFINE d == View("open", {[index |-> i, kind |-> k]}, n, h)
           e == BlockStop(i)
<1>1. d \in Clients /\ e \in Events /\ e.type = "block_stop" /\ e.index = i
  BY ReachesType DEF Events, Plain, BlockStop, Block, Sized
<1>2. Fits(d, e)
  BY <1>1 DEF Fits, View
<1>3. Sees(d, e) = View("open", {}, n, h)
  BY <1>1, <1>2, SeesFitting DEF View
<1>4. QED BY <1>1, <1>2, <1>3, ReachesMore

\* The content ends.
LEMMA ReachesEnd ==
  ASSUME NEW c, NEW out \in Seq(Events), NEW n, NEW h,
         Reaches(c, out, View("open", {}, n, h))
  PROVE  /\ Append(out, Plain("message_delta")) \in Seq(Events)
         /\ Reaches(c, Append(out, Plain("message_delta")), View("ending", {}, n, h))
<1> DEFINE d == View("open", {}, n, h)
           e == Plain("message_delta")
<1>1. d \in Clients /\ e \in Events /\ e.type = "message_delta"
  BY ReachesType DEF Events, Plain, Block, Sized
<1>2. Fits(d, e)
  BY <1>1 DEF Fits, View
<1>3. Sees(d, e) = View("ending", {}, n, h)
  BY <1>1, <1>2, SeesFitting DEF View
<1>4. QED BY <1>1, <1>2, <1>3, ReachesMore

\* The message is over.
LEMMA ReachesStop ==
  ASSUME NEW c, NEW out \in Seq(Events), NEW n, NEW h,
         Reaches(c, out, View("ending", {}, n, h))
  PROVE  /\ Append(out, Plain("message_stop")) \in Seq(Events)
         /\ Reaches(c, Append(out, Plain("message_stop")), View("stopped", {}, n, h))
<1> DEFINE d == View("ending", {}, n, h)
           e == Plain("message_stop")
<1>1. d \in Clients /\ e \in Events /\ e.type = "message_stop"
  BY ReachesType DEF Events, Plain, Block, Sized
<1>2. Fits(d, e)
  BY <1>1 DEF Fits, View
<1>3. Sees(d, e) = View("stopped", {}, n, h)
  BY <1>1, <1>2, SeesFitting DEF View
<1>4. QED BY <1>1, <1>2, <1>3, ReachesMore

\* The message fails.
LEMMA ReachesFail ==
  ASSUME NEW c, NEW out \in Seq(Events), NEW stage \in {"idle", "open", "ending"},
         NEW o, NEW n, NEW h,
         Reaches(c, out, View(stage, o, n, h))
  PROVE  /\ Append(out, Plain("error")) \in Seq(Events)
         /\ Reaches(c, Append(out, Plain("error")), View("failed", o, n, h))
<1> DEFINE d == View(stage, o, n, h)
           e == Plain("error")
<1>1. d \in Clients /\ e \in Events /\ e.type = "error"
  BY ReachesType DEF Events, Plain, Block, Sized
<1>2. Fits(d, e)
  BY <1>1 DEF Fits, View
<1>3. Sees(d, e) = View("failed", o, n, h)
  BY <1>1, <1>2, SeesFitting DEF View
<1>4. QED BY <1>1, <1>2, <1>3, ReachesMore

-----------------------------------------------------------------------------
(* The translator of an OpenAI-compatible backend: types, for all quirks *)

ToolStates == [block : Nat, closed : BOOLEAN]

OpenAIStates == [started : BOOLEAN, index : Nat, textOpen : BOOLEAN,
                 thinkingOpen : BOOLEAN, tools : Seq(ToolStates),
                 finished : BOOLEAN, out : Seq(Events)]

\* A tool block that is open is the last one.
LastOpen(s) == \A i \in 1 .. Len(s.tools) - 1 : s.tools[i].closed

OpenAIType(s) ==
  s \in OpenAIStates /\ Len(s.tools) <= MaxToolIndex + 1 /\ LastOpen(s)

\* What the parts of process_chunk leave alone.
SameTools(s, t) == t.tools = s.tools /\ t.finished = s.finished

\* What the constructors of events return.
LEMMA EventTypes ==
  /\ \A i \in Nat, k \in Kinds : /\ Block("block_start", i, k) \in Events
                                 /\ Block("block_delta", i, k) \in Events
                                 /\ BlockStop(i) \in Events
  /\ \A t \in {"message_start", "message_delta", "message_stop", "error"} :
       Plain(t) \in Events
BY DEF Events, Block, BlockStop, Plain, Sized

\* The translator's copies of the operators of StreamTask are the same.
LEMMA OpenAIShared ==
  /\ \A s, e : OpenAI!Emit(s, e) = Emit(s, e)
  /\ \A t, i, k : OpenAI!Block(t, i, k) = Block(t, i, k)
  /\ \A i : OpenAI!BlockStop(i) = BlockStop(i)
  /\ \A t : OpenAI!Plain(t) = Plain(t)
  /\ \A s : OpenAI!BeginMessage(s) = BeginMessage(s)
  /\ \A S : OpenAI!Cardinality(S) = Cardinality(S)
BY DEF OpenAI!Cardinality, Cardinality, OpenAI!Emit, Emit, OpenAI!Block, Block, OpenAI!BlockStop, BlockStop, OpenAI!Plain,
       Plain, OpenAI!Sized, Sized, OpenAI!BeginMessage, BeginMessage

\* An event is put into the queue, and nothing else changes.
LEMMA OpenAIEmit ==
  ASSUME NEW s \in OpenAIStates, NEW e \in Events
  PROVE  /\ Emit(s, e) \in OpenAIStates
         /\ Emit(s, e).out = Append(s.out, e)
         /\ Emit(s, e).started = s.started /\ Emit(s, e).index = s.index
         /\ Emit(s, e).textOpen = s.textOpen /\ Emit(s, e).thinkingOpen = s.thinkingOpen
         /\ SameTools(s, Emit(s, e))
<1> DEFINE q == Append(s.out, e)
<1>1. q \in Seq(Events)
  BY DEF OpenAIStates
<1>2. Emit(s, e) = [s EXCEPT !.out = q]
  BY DEF Emit
<1> HIDE DEF q
<1>3. LET t == [s EXCEPT !.out = q] IN
      /\ t \in OpenAIStates /\ t.out = q /\ t.started = s.started /\ t.index = s.index
      /\ t.textOpen = s.textOpen /\ t.thinkingOpen = s.thinkingOpen
      /\ t.tools = s.tools /\ t.finished = s.finished
  BY <1>1 DEF OpenAIStates
<1>4. QED BY <1>2, <1>3 DEF SameTools, q

\* What begin_message leaves.
LEMMA OpenAIBegin ==
  ASSUME NEW s \in OpenAIStates
  PROVE  LET t == OpenAI!BeginMessage(s) IN
         /\ t \in OpenAIStates /\ t.started
         /\ t.out = IF s.started THEN s.out ELSE Append(s.out, Plain("message_start"))
         /\ t.index = s.index /\ t.textOpen = s.textOpen /\ t.thinkingOpen = s.thinkingOpen
         /\ SameTools(s, t)
<1> DEFINE b == [s EXCEPT !.started = TRUE]
<1>1. b \in OpenAIStates /\ b.started /\ b.out = s.out /\ b.index = s.index
      /\ b.textOpen = s.textOpen /\ b.thinkingOpen = s.thinkingOpen /\ SameTools(s, b)
  BY DEF OpenAIStates, SameTools
<1>2. OpenAI!BeginMessage(s) = IF s.started THEN s ELSE Emit(b, Plain("message_start"))
  BY OpenAIShared DEF BeginMessage
<1> HIDE DEF b
<1>3. Plain("message_start") \in Events
  BY EventTypes
<1>4. CASE s.started
  BY <1>2, <1>4 DEF SameTools
<1>5. CASE ~s.started
  BY <1>1, <1>2, <1>3, <1>5, OpenAIEmit DEF SameTools
<1>6. QED BY <1>4, <1>5

\* What closing the text block leaves.
LEMMA OpenAICloseText ==
  ASSUME NEW s \in OpenAIStates
  PROVE  LET t == OpenAI!CloseText(s) IN
         /\ t \in OpenAIStates /\ ~t.textOpen
         /\ t.out = IF s.textOpen THEN Append(s.out, BlockStop(s.index)) ELSE s.out
         /\ t.index = IF s.textOpen THEN s.index + 1 ELSE s.index
         /\ t.started = s.started /\ t.thinkingOpen = s.thinkingOpen
         /\ SameTools(s, t)
<1> DEFINE b == [s EXCEPT !.textOpen = FALSE, !.index = @ + 1]
<1>1. b \in OpenAIStates /\ ~b.textOpen /\ b.out = s.out /\ b.index = s.index + 1
      /\ b.started = s.started /\ b.thinkingOpen = s.thinkingOpen /\ SameTools(s, b)
  <2>1. s.index + 1 \in Nat /\ b = [s EXCEPT !.textOpen = FALSE, !.index = s.index + 1]
    BY DEF OpenAIStates
  <2>2. \A n \in Nat :
          LET t == [s EXCEPT !.textOpen = FALSE, !.index = n] IN
          /\ t \in OpenAIStates /\ ~t.textOpen /\ t.out = s.out /\ t.index = n
          /\ t.started = s.started /\ t.thinkingOpen = s.thinkingOpen
          /\ t.tools = s.tools /\ t.finished = s.finished
    BY DEF OpenAIStates
  <2>3. QED BY <2>1, <2>2 DEF SameTools
<1>2. OpenAI!CloseText(s) = IF s.textOpen THEN Emit(b, BlockStop(s.index)) ELSE s
  BY OpenAIShared DEF OpenAI!CloseText
<1> HIDE DEF b
<1>3. BlockStop(s.index) \in Events
  BY EventTypes DEF OpenAIStates, Kinds
<1>4. CASE s.textOpen
  <2> DEFINE t == Emit(b, BlockStop(s.index))
  <2>1. /\ t \in OpenAIStates /\ t.out = Append(b.out, BlockStop(s.index))
        /\ t.started = b.started /\ t.index = b.index
        /\ t.textOpen = b.textOpen /\ t.thinkingOpen = b.thinkingOpen /\ SameTools(b, t)
    BY <1>1, <1>3, OpenAIEmit
  <2>2. OpenAI!CloseText(s) = t
    BY <1>2, <1>4
  <2> HIDE DEF t
  <2>3. QED BY <1>1, <1>4, <2>1, <2>2 DEF SameTools
<1>5. CASE ~s.textOpen
  BY <1>2, <1>5 DEF SameTools
<1>6. QED BY <1>4, <1>5 DEF OpenAIStates

\* What closing the thinking block leaves.
LEMMA OpenAICloseThinking ==
  ASSUME NEW s \in OpenAIStates
  PROVE  LET t == OpenAI!CloseThinking(s) IN
         /\ t \in OpenAIStates /\ ~t.thinkingOpen
         /\ t.out = IF s.thinkingOpen THEN Append(s.out, BlockStop(s.index)) ELSE s.out
         /\ t.index = IF s.thinkingOpen THEN s.index + 1 ELSE s.index
         /\ t.started = s.started /\ t.textOpen = s.textOpen
         /\ SameTools(s, t)
<1> DEFINE b == [s EXCEPT !.thinkingOpen = FALSE, !.index = @ + 1]
<1>1. b \in OpenAIStates /\ ~b.thinkingOpen /\ b.out = s.out /\ b.index = s.index + 1
      /\ b.started = s.started /\ b.textOpen = s.textOpen /\ SameTools(s, b)
  <2>1. s.index + 1 \in Nat /\ b = [s EXCEPT !.thinkingOpen = FALSE, !.index = s.index + 1]
    BY DEF OpenAIStates
  <2>2. \A n \in Nat :
          LET t == [s EXCEPT !.thinkingOpen = FALSE, !.index = n] IN
          /\ t \in OpenAIStates /\ ~t.thinkingOpen /\ t.out = s.out /\ t.index = n
          /\ t.started = s.started /\ t.textOpen = s.textOpen
          /\ t.tools = s.tools /\ t.finished = s.finished
    BY DEF OpenAIStates
  <2>3. QED BY <2>1, <2>2 DEF SameTools
<1>2. OpenAI!CloseThinking(s) = IF s.thinkingOpen THEN Emit(b, BlockStop(s.index)) ELSE s
  BY OpenAIShared DEF OpenAI!CloseThinking
<1> HIDE DEF b
<1>3. BlockStop(s.index) \in Events
  BY EventTypes DEF OpenAIStates, Kinds
<1>4. CASE s.thinkingOpen
  <2> DEFINE t == Emit(b, BlockStop(s.index))
  <2>1. /\ t \in OpenAIStates /\ t.out = Append(b.out, BlockStop(s.index))
        /\ t.started = b.started /\ t.index = b.index
        /\ t.textOpen = b.textOpen /\ t.thinkingOpen = b.thinkingOpen /\ SameTools(b, t)
    BY <1>1, <1>3, OpenAIEmit
  <2>2. OpenAI!CloseThinking(s) = t
    BY <1>2, <1>4
  <2> HIDE DEF t
  <2>3. QED BY <1>1, <1>4, <2>1, <2>2 DEF SameTools
<1>5. CASE ~s.thinkingOpen
  BY <1>2, <1>5 DEF SameTools
<1>6. QED BY <1>4, <1>5 DEF OpenAIStates

\* What opening a text block leaves.
LEMMA OpenAIOpenText ==
  ASSUME NEW s \in OpenAIStates
  PROVE  LET t == OpenAI!OpenText(s) IN
         /\ t \in OpenAIStates /\ t.textOpen
         /\ t.out = IF s.textOpen THEN s.out
                    ELSE Append(s.out, Block("block_start", s.index, "text"))
         /\ t.index = s.index /\ t.started = s.started
         /\ t.thinkingOpen = s.thinkingOpen /\ SameTools(s, t)
<1> DEFINE b == [s EXCEPT !.textOpen = TRUE]
<1>1. b \in OpenAIStates /\ b.textOpen /\ b.out = s.out /\ b.index = s.index
      /\ b.started = s.started /\ b.thinkingOpen = s.thinkingOpen /\ SameTools(s, b)
  BY DEF OpenAIStates, SameTools
<1>2. OpenAI!OpenText(s) =
        IF s.textOpen THEN s ELSE Emit(b, Block("block_start", s.index, "text"))
  BY OpenAIShared DEF OpenAI!OpenText
<1> HIDE DEF b
<1>3. Block("block_start", s.index, "text") \in Events
  BY EventTypes DEF OpenAIStates, Kinds
<1>4. CASE s.textOpen
  BY <1>2, <1>4 DEF SameTools
<1>5. CASE ~s.textOpen
  BY <1>1, <1>2, <1>3, <1>5, OpenAIEmit DEF SameTools
<1>6. QED BY <1>4, <1>5

\* What opening a thinking block leaves.
LEMMA OpenAIOpenThinking ==
  ASSUME NEW s \in OpenAIStates
  PROVE  LET t == OpenAI!OpenThinking(s) IN
         /\ t \in OpenAIStates /\ t.thinkingOpen
         /\ t.out = IF s.thinkingOpen THEN s.out
                    ELSE Append(s.out, Block("block_start", s.index, "thinking"))
         /\ t.index = s.index /\ t.started = s.started
         /\ t.textOpen = s.textOpen /\ SameTools(s, t)
<1> DEFINE b == [s EXCEPT !.thinkingOpen = TRUE]
<1>1. b \in OpenAIStates /\ b.thinkingOpen /\ b.out = s.out /\ b.index = s.index
      /\ b.started = s.started /\ b.textOpen = s.textOpen /\ SameTools(s, b)
  BY DEF OpenAIStates, SameTools
<1>2. OpenAI!OpenThinking(s) =
        IF s.thinkingOpen THEN s ELSE Emit(b, Block("block_start", s.index, "thinking"))
  BY OpenAIShared DEF OpenAI!OpenThinking
<1> HIDE DEF b
<1>3. Block("block_start", s.index, "thinking") \in Events
  BY EventTypes DEF OpenAIStates, Kinds
<1>4. CASE s.thinkingOpen
  BY <1>2, <1>4 DEF SameTools
<1>5. CASE ~s.thinkingOpen
  BY <1>1, <1>2, <1>3, <1>5, OpenAIEmit DEF SameTools
<1>6. QED BY <1>4, <1>5

\* All but the tools and the queue is the same.
SameFlags(s, t) ==
  /\ t.started = s.started /\ t.index = s.index /\ t.finished = s.finished
  /\ t.textOpen = s.textOpen /\ t.thinkingOpen = s.thinkingOpen

\* A state with other tools.
LEMMA OpenAIReplace ==
  ASSUME NEW s \in OpenAIStates, NEW tools \in Seq(ToolStates), NEW q \in Seq(Events)
  PROVE  /\ LET t == [s EXCEPT !.tools = tools] IN
            t \in OpenAIStates /\ t.tools = tools /\ t.out = s.out /\ SameFlags(s, t)
         /\ LET t == [s EXCEPT !.tools = tools, !.out = q] IN
            t \in OpenAIStates /\ t.tools = tools /\ t.out = q /\ SameFlags(s, t)
BY DEF OpenAIStates, SameFlags

LastIsOpen(s) == Len(s.tools) > 0 /\ ~s.tools[Len(s.tools)].closed

LastBlock(s) == s.tools[Len(s.tools)].block

\* What closing the last tool block leaves: every tool is closed.
LEMMA OpenAICloseLastTool ==
  ASSUME NEW s \in OpenAIStates, LastOpen(s)
  PROVE  LET t == OpenAI!CloseLastTool(s) IN
         /\ t \in OpenAIStates /\ SameFlags(s, t)
         /\ Len(t.tools) = Len(s.tools)
         /\ \A i \in 1 .. Len(s.tools) :
              t.tools[i].closed /\ t.tools[i].block = s.tools[i].block
         /\ t.out = IF LastIsOpen(s) THEN Append(s.out, BlockStop(LastBlock(s))) ELSE s.out
<1> DEFINE n == Len(s.tools)
           w == [s.tools EXCEPT ![n].closed = TRUE]
           b == [s EXCEPT !.tools = w]
<1>1. s.tools \in Seq(ToolStates) /\ n \in Nat
  BY DEF OpenAIStates
<1>2. OpenAI!CloseLastTool(s) = IF LastIsOpen(s) THEN Emit(b, BlockStop(LastBlock(s))) ELSE s
  <2>1. OpenAI!Active(s, n - 1) <=> n - 1 < n /\ ~s.tools[n].closed
    BY <1>1 DEF OpenAI!Active
  <2>2. [s EXCEPT !.tools[n].closed = TRUE] = b
    BY DEF OpenAIStates
  <2>3. QED BY <1>1, <2>1, <2>2, OpenAIShared DEF OpenAI!CloseLastTool, LastIsOpen, LastBlock
<1>3. CASE LastIsOpen(s)
  <2>1. n \in 1 .. n /\ s.tools[n] \in ToolStates
    BY <1>1, <1>3 DEF LastIsOpen
  <2>2. /\ w \in Seq(ToolStates) /\ Len(w) = n
        /\ \A i \in 1 .. n : w[i].closed /\ w[i].block = s.tools[i].block
    <3>1. [s.tools[n] EXCEPT !.closed = TRUE] \in ToolStates
          /\ [s.tools[n] EXCEPT !.closed = TRUE].closed
          /\ [s.tools[n] EXCEPT !.closed = TRUE].block = s.tools[n].block
      BY <2>1 DEF ToolStates
    <3>2. w = [s.tools EXCEPT ![n] = [s.tools[n] EXCEPT !.closed = TRUE]]
      OBVIOUS
    <3> DEFINE last == [s.tools[n] EXCEPT !.closed = TRUE]
    <3> HIDE DEF last
    <3>3. w \in Seq(ToolStates) /\ Len(w) = n
      BY <1>1, <2>1, <3>1, <3>2, ExceptSeq DEF last
    <3>4. \A i \in 1 .. n : i # n => w[i] = s.tools[i] /\ i \in 1 .. n - 1
      BY <1>1, <3>2
    <3>5. w[n] = [s.tools[n] EXCEPT !.closed = TRUE]
      BY <1>1, <2>1, <3>2
    <3>6. QED BY <3>1, <3>3, <3>4, <3>5 DEF LastOpen
  <2> HIDE DEF w
  <2>3. b \in OpenAIStates /\ b.tools = w /\ b.out = s.out /\ SameFlags(s, b)
    BY <2>2, OpenAIReplace DEF OpenAIStates
  <2> HIDE DEF b
  <2>4. BlockStop(LastBlock(s)) \in Events
    BY <2>1, EventTypes DEF LastBlock, ToolStates, Kinds
  <2> DEFINE t == Emit(b, BlockStop(LastBlock(s)))
  <2>5. /\ t \in OpenAIStates /\ t.out = Append(b.out, BlockStop(LastBlock(s)))
        /\ t.started = b.started /\ t.index = b.index
        /\ t.textOpen = b.textOpen /\ t.thinkingOpen = b.thinkingOpen /\ SameTools(b, t)
    BY <2>3, <2>4, OpenAIEmit
  <2>6. OpenAI!CloseLastTool(s) = t
    BY <1>2, <1>3
  <2> HIDE DEF t
  <2>7. SameFlags(s, t) /\ t.tools = w
    BY <2>3, <2>5 DEF SameFlags, SameTools
  <2>8. QED BY <1>3, <2>2, <2>3, <2>5, <2>6, <2>7
<1>4. CASE ~LastIsOpen(s)
  <2>1. \A i \in 1 .. n : s.tools[i].closed
    BY <1>1, <1>4 DEF LastIsOpen, LastOpen
  <2>2. QED BY <1>2, <1>4, <2>1 DEF SameFlags
<1>5. QED BY <1>3, <1>4

\* What opening a tool block leaves: it is the last, and the only one open.
LEMMA OpenAIOpenTool ==
  ASSUME NEW s \in OpenAIStates, NEW tc, tc.index \in Nat, tc.index >= Len(s.tools),
         \A i \in 1 .. Len(s.tools) : s.tools[i].closed
  PROVE  LET t == OpenAI!OpenTool(s, tc) IN
         /\ t \in OpenAIStates /\ SameFlags(s, t) /\ LastOpen(t)
         /\ Len(t.tools) = tc.index + 1
         /\ t.tools[tc.index + 1] = [block |-> s.index + tc.index, closed |-> FALSE]
         /\ \A i \in 1 .. Len(s.tools) : t.tools[i] = s.tools[i]
         /\ t.out = Append(s.out, Block("block_start", s.index + tc.index, "tool"))
<1> DEFINE i == tc.index
           bl == s.index + i
           w == OpenAI!WithTool(s.tools, i, bl)
           b == [s EXCEPT !.tools = w]
<1>1. /\ s.tools \in Seq(ToolStates) /\ Len(s.tools) \in Nat /\ bl \in Nat /\ i \in Nat
      /\ i >= Len(s.tools)
  BY DEF OpenAIStates
<1>2. w = [n \in 1 .. i + 1 |-> IF n = i + 1 THEN [block |-> bl, closed |-> FALSE]
                                ELSE IF n <= Len(s.tools) THEN s.tools[n]
                                ELSE [block |-> 0, closed |-> TRUE]]
  BY <1>1 DEF OpenAI!WithTool
<1> HIDE DEF w, bl
<1>3. ASSUME NEW n \in 1 .. i + 1
      PROVE  w[n] \in ToolStates
  <2> HIDE DEF i
  <2>1. CASE n <= Len(s.tools)
    <3>1. w[n] = s.tools[n] /\ n \in 1 .. Len(s.tools)
      BY <1>1, <1>2, <2>1
    <3>2. QED BY <1>1, <3>1
  <2>2. CASE n > Len(s.tools)
    <3>1. w[n] = [block |-> bl, closed |-> FALSE] \/ w[n] = [block |-> 0, closed |-> TRUE]
      BY <1>1, <1>2, <2>2
    <3>2. /\ [block |-> bl, closed |-> FALSE] \in ToolStates
          /\ [block |-> 0, closed |-> TRUE] \in ToolStates
      BY <1>1 DEF ToolStates
    <3>3. QED BY <3>1, <3>2
  <2>3. QED BY <1>1, <2>1, <2>2
<1>4. w \in Seq(ToolStates) /\ Len(w) = i + 1
  <2> HIDE DEF i
  <2>1. i + 1 \in Nat /\ DOMAIN w = 1 .. i + 1 /\ w = [n \in DOMAIN w |-> w[n]]
    BY <1>1, <1>2
  <2>2. w \in [1 .. i + 1 -> ToolStates]
    BY <1>3, <2>1
  <2>3. QED BY <2>1, <2>2
<1>5. /\ w[i + 1] = [block |-> bl, closed |-> FALSE]
      /\ \A n \in 1 .. Len(s.tools) : w[n] = s.tools[n]
      /\ \A n \in 1 .. i : w[n].closed
  <2>1. \A n \in 1 .. Len(s.tools) : n \in 1 .. i + 1 /\ n # i + 1
    BY <1>1
  <2>2. \A n \in 1 .. i : n \in 1 .. i + 1 /\ n # i + 1
    BY <1>1
  <2>3. \A n \in 1 .. Len(s.tools) : w[n] = s.tools[n]
    BY <1>1, <1>2, <2>1
  <2>4. w[i + 1] = [block |-> bl, closed |-> FALSE]
    BY <1>1, <1>2
  <2>5. ASSUME NEW n \in 1 .. i
        PROVE  w[n].closed
    <3>1. CASE n <= Len(s.tools)
      BY <1>1, <2>3, <3>1
    <3>2. CASE n > Len(s.tools)
      <4>1. w[n] = [block |-> 0, closed |-> TRUE]
        BY <1>1, <1>2, <2>2, <3>2
      <4>2. QED BY <4>1
    <3>3. QED BY <1>1, <3>1, <3>2
  <2>6. QED BY <2>3, <2>4, <2>5
<1>6. OpenAI!OpenTool(s, tc) = Emit(b, Block("block_start", bl, "tool"))
  BY OpenAIShared DEF OpenAI!OpenTool, w, bl
<1>7. b \in OpenAIStates /\ b.tools = w /\ b.out = s.out /\ SameFlags(s, b)
  BY <1>4, OpenAIReplace DEF OpenAIStates
<1> HIDE DEF b
<1>8. Block("block_start", bl, "tool") \in Events
  BY <1>1, EventTypes DEF Kinds
<1>9. LET t == OpenAI!OpenTool(s, tc) IN
      /\ t \in OpenAIStates /\ SameFlags(s, t) /\ t.tools = w
      /\ t.out = Append(s.out, Block("block_start", bl, "tool"))
  BY <1>6, <1>7, <1>8, OpenAIEmit DEF SameFlags, SameTools
<1>10. LastOpen(OpenAI!OpenTool(s, tc))
  BY <1>1, <1>4, <1>5, <1>9 DEF LastOpen
<1>11. QED BY <1>4, <1>5, <1>9, <1>10 DEF bl

\* What more arguments of a tool call leave.
LEMMA OpenAIArguments ==
  ASSUME NEW s \in OpenAIStates, NEW tc, tc.index \in Nat
  PROVE  LET t == OpenAI!Arguments(s, tc) IN
         /\ t \in OpenAIStates /\ SameFlags(s, t) /\ t.tools = s.tools
         /\ \/ t = s
            \/ /\ tc.index < Len(s.tools)
               /\ t.out = Append(s.out, Block("block_delta", s.tools[tc.index + 1].block, "tool"))
<1>1. CASE tc.arguments /\ tc.index < Len(s.tools)
  <2> DEFINE e == Block("block_delta", s.tools[tc.index + 1].block, "tool")
  <2>1. OpenAI!Arguments(s, tc) = Emit(s, e)
    BY <1>1, OpenAIShared DEF OpenAI!Arguments
  <2>2. tc.index + 1 \in 1 .. Len(s.tools) /\ s.tools \in Seq(ToolStates)
    BY <1>1 DEF OpenAIStates
  <2>3. s.tools[tc.index + 1] \in ToolStates
    BY <2>2
  <2>4. e \in Events
    BY <2>3, EventTypes DEF Kinds, ToolStates
  <2>5. QED BY <1>1, <2>1, <2>4, OpenAIEmit DEF SameFlags, SameTools
<1>2. CASE ~(tc.arguments /\ tc.index < Len(s.tools))
  <2>1. OpenAI!Arguments(s, tc) = s
    BY <1>2 DEF OpenAI!Arguments
  <2>2. QED BY <2>1 DEF SameFlags
<1>3. QED BY <1>1, <1>2

\* What the end leaves of the tools: the one that was open is closed.
LEMMA OpenAIFlushTools ==
  ASSUME NEW s \in OpenAIStates, LastOpen(s)
  PROVE  LET t == OpenAI!FlushTools(s) IN
         /\ t \in OpenAIStates /\ SameFlags(s, t) /\ t.tools = <<>>
         /\ t.out = IF LastIsOpen(s) THEN Append(s.out, BlockStop(LastBlock(s))) ELSE s.out
<1> DEFINE open   == {i \in DOMAIN s.tools : ~s.tools[i].closed}
           nth(n) == CHOOSE i \in open : OpenAI!Cardinality({j \in open : j < i}) = n - 1
           stops  == [n \in 1 .. OpenAI!Cardinality(open) |->
                        OpenAI!BlockStop(s.tools[nth(n)].block)]
           q      == s.out \o stops
<1>1. /\ s.tools \in Seq(ToolStates) /\ Len(s.tools) \in Nat
      /\ DOMAIN s.tools = 1 .. Len(s.tools) /\ s.out \in Seq(Events)
  BY DEF OpenAIStates
<1>2. OpenAI!FlushTools(s) = [s EXCEPT !.tools = <<>>, !.out = q]
  BY DEF OpenAI!FlushTools
<1> HIDE DEF q
<1>3. /\ q \in Seq(Events)
      /\ q = IF LastIsOpen(s) THEN Append(s.out, BlockStop(LastBlock(s))) ELSE s.out
  <2>1. CASE LastIsOpen(s)
    <3>1. open = {Len(s.tools)}
      BY <1>1, <2>1 DEF LastIsOpen, LastOpen
    <3>2. OpenAI!Cardinality(open) = 1
      BY <3>1, FS_Singleton, OpenAIShared
    <3>3. nth(1) = Len(s.tools)
      <4>1. {j \in open : j < Len(s.tools)} = {}
        BY <1>1, <3>1
      <4>2. OpenAI!Cardinality({}) = 0
        BY FS_EmptySet, OpenAIShared
      <4>3. OpenAI!Cardinality({j \in open : j < Len(s.tools)}) = 0
        BY <4>1, <4>2, Zenon
      <4>4. 1 - 1 = 0
        OBVIOUS
      <4>5. OpenAI!Cardinality({j \in open : j < Len(s.tools)}) = 1 - 1
        BY <4>3, <4>4, Zenon
      <4>6. QED BY <3>1, <4>5
    <3> DEFINE e == BlockStop(LastBlock(s))
    <3>4. e \in Events
      <4>1. s.tools[Len(s.tools)] \in ToolStates
        BY <1>1, <2>1 DEF LastIsOpen
      <4>2. QED BY <4>1, EventTypes DEF LastBlock, ToolStates, Kinds
    <3>5. stops = [n \in 1 .. 1 |-> OpenAI!BlockStop(s.tools[nth(n)].block)]
      BY <3>2
    <3>6. stops[1] = e
      <4>1. 1 \in 1 .. 1
        OBVIOUS
      <4>2. stops[1] = OpenAI!BlockStop(s.tools[nth(1)].block)
        BY <3>5, <4>1
      <4>3. QED BY <3>3, <4>2, OpenAIShared DEF LastBlock
    <3> HIDE DEF stops, e
    <3>7. stops \in [1 .. 1 -> Events]
      <4>1. \A n \in 1 .. 1 : n = 1
        OBVIOUS
      <4>2. DOMAIN stops = 1 .. 1
        BY <3>5
      <4>3. QED BY <3>4, <3>5, <3>6, <4>1, <4>2
    <3> HIDE DEF nth, open
    <3>8. stops \in Seq(Events) /\ Len(stops) = 1
      <4>1. stops = [n \in 1 .. 1 |-> stops[n]] /\ \A n \in 1 .. 1 : stops[n] \in Events
        BY <3>7
      <4>2. 1 \in Nat
        OBVIOUS
      <4> DEFINE F(n) == stops[n]
      <4>3. [n \in 1 .. 1 |-> F(n)] \in Seq(Events) /\ Len([n \in 1 .. 1 |-> F(n)]) = 1
        <5>1. \A n \in 1 .. 1 : F(n) \in Events
          BY <4>1
        <5> HIDE DEF F
        <5>2. QED BY <4>2, <5>1
      <4>4. QED BY <4>1, <4>3
    <3>9. stops = <<e>>
      BY <3>4, <3>6, <3>8
    <3>10. s.out \o <<e>> = Append(s.out, e) /\ Append(s.out, e) \in Seq(Events)
      BY <1>1, <3>4
    <3>11. QED BY <2>1, <3>9, <3>10 DEF q, e
  <2>2. CASE ~LastIsOpen(s)
    <3>1. open = {}
      BY <1>1, <2>2 DEF LastIsOpen, LastOpen
    <3>2. OpenAI!Cardinality(open) = 0
      BY <3>1, FS_EmptySet, OpenAIShared
    <3>3. stops = [n \in 1 .. 0 |-> OpenAI!BlockStop(s.tools[nth(n)].block)]
      BY <3>2
    <3> HIDE DEF stops
    <3>4. stops \in [1 .. 0 -> Events]
      BY <3>3
    <3>5. stops \in Seq(Events) /\ Len(stops) = 0
      BY <3>4
    <3>6. stops = <<>>
      BY <3>5
    <3>7. QED BY <1>1, <2>2, <3>6 DEF q
  <2>3. QED BY <2>1, <2>2
<1> DEFINE none == <<>>
<1>4. none \in Seq(ToolStates)
  OBVIOUS
<1> DEFINE t == [s EXCEPT !.tools = none, !.out = q]
<1>5. OpenAI!FlushTools(s) = t
  BY <1>2
<1>6. none = <<>>
  OBVIOUS
<1> HIDE DEF none
<1>7. t \in OpenAIStates /\ t.tools = none /\ t.out = q /\ SameFlags(s, t)
  <2>1. q \in Seq(Events)
    BY <1>3
  <2>2. QED BY <1>4, <2>1 DEF OpenAIStates, SameFlags
<1> HIDE DEF t
<1>8. QED BY <1>3, <1>5, <1>6, <1>7

-----------------------------------------------------------------------------
(* The translator of an OpenAI-compatible backend: what its client is told *)

\* Where the queue leads the client, by the kind of content that was last.
OpenAIView(s, m) ==
  CASE m = "new" -> View("open", {}, s.index, Silent)
    [] m \in {"thinking", "text"} ->
         View("open", {[index |-> s.index, kind |-> m]}, s.index + 1, Silent)
    [] m = "tools" ->
         View("open", {[index |-> LastBlock(s), kind |-> "tool"]},
              s.index + Len(s.tools), Silent)

\* Content m was last in the message of client c.
OpenAIAt(c, s, m) ==
  /\ OpenAIType(s) /\ s.started /\ ~s.finished
  /\ s.thinkingOpen <=> m = "thinking"
  /\ s.textOpen <=> m = "text"
  /\ IF m = "tools"
     THEN LastIsOpen(s) /\ LastBlock(s) = s.index + Len(s.tools) - 1
     ELSE s.tools = <<>>
  /\ Reaches(c, s.out, OpenAIView(s, m))

\* Nothing has been said; all has been said; the message is over.
OpenAIFresh(c, s) ==
  /\ OpenAIType(s) /\ ~s.started /\ ~s.finished
  /\ ~s.thinkingOpen /\ ~s.textOpen /\ s.tools = <<>>
  /\ Reaches(c, s.out, View("idle", {}, s.index, Silent))

OpenAIEnded(c, s) ==
  /\ OpenAIType(s) /\ s.started /\ ~s.finished
  /\ ~s.thinkingOpen /\ ~s.textOpen /\ s.tools = <<>>
  /\ \E n : Reaches(c, s.out, View("ending", {}, n, Silent))

OpenAIOver(c, s) ==
  /\ OpenAIType(s) /\ s.finished
  /\ \E stage \in {"stopped", "failed"} : \E o, n :
       Reaches(c, s.out, View(stage, o, n, Silent))

\* The message begins and the client is in it.
LEMMA OpenAIBeginsAt ==
  ASSUME NEW c, NEW s, NEW m \in {"new", "thinking", "text", "tools"},
         (m = "new" /\ OpenAIFresh(c, s)) \/ OpenAIAt(c, s, m)
  PROVE  OpenAIAt(c, OpenAI!BeginMessage(s), m)
<1> DEFINE t == OpenAI!BeginMessage(s)
<1>1. CASE OpenAIAt(c, s, m)
  <2>1. t = s
    BY <1>1, OpenAIShared DEF BeginMessage, OpenAIAt
  <2>2. QED BY <1>1, <2>1
<1>2. CASE m = "new" /\ OpenAIFresh(c, s)
  <2>1. s \in OpenAIStates /\ s.out \in Seq(Events)
    BY <1>2 DEF OpenAIFresh, OpenAIType, OpenAIStates
  <2>2. /\ t \in OpenAIStates /\ t.started /\ t.out = Append(s.out, Plain("message_start"))
        /\ t.index = s.index /\ t.textOpen = s.textOpen /\ t.thinkingOpen = s.thinkingOpen
        /\ t.tools = s.tools /\ t.finished = s.finished
    BY <1>2, <2>1, OpenAIBegin DEF OpenAIFresh, SameTools
  <2>3. Reaches(c, t.out, View("open", {}, t.index, Silent))
    BY <1>2, <2>1, <2>2, ReachesBegin DEF OpenAIFresh
  <2> HIDE DEF t
  <2>4. OpenAIType(t)
    BY <1>2, <2>2 DEF OpenAIFresh, OpenAIType, LastOpen
  <2>5. OpenAIView(t, "new") = View("open", {}, t.index, Silent)
    BY DEF OpenAIView
  <2>6. t.started /\ ~t.finished /\ ~t.thinkingOpen /\ ~t.textOpen /\ t.tools = <<>>
    BY <1>2, <2>2 DEF OpenAIFresh
  <2>7. OpenAIAt(c, t, "new")
    BY <2>3, <2>4, <2>5, <2>6 DEF OpenAIAt
  <2>8. QED BY <1>2, <2>7 DEF t
<1>3. QED BY <1>1, <1>2

\* More of the block that is open.
LEMMA OpenAIMore ==
  ASSUME NEW c, NEW s, NEW m \in {"thinking", "text"}, OpenAIAt(c, s, m)
  PROVE  OpenAIAt(c, OpenAI!Emit(s, OpenAI!Block("block_delta", s.index, m)), m)
<1> DEFINE e == Block("block_delta", s.index, m)
           t == Emit(s, e)
<1>1. s \in OpenAIStates /\ s.index \in Nat /\ s.out \in Seq(Events) /\ m \in Kinds
  BY DEF OpenAIAt, OpenAIType, OpenAIStates, Kinds
<1>2. OpenAI!Emit(s, OpenAI!Block("block_delta", s.index, m)) = t
  BY OpenAIShared
<1>3. e \in Events
  BY <1>1, EventTypes
<1> HIDE DEF e
<1>4. /\ t \in OpenAIStates /\ t.out = Append(s.out, e)
      /\ t.started = s.started /\ t.index = s.index
      /\ t.textOpen = s.textOpen /\ t.thinkingOpen = s.thinkingOpen
      /\ t.tools = s.tools /\ t.finished = s.finished
  BY <1>1, <1>3, OpenAIEmit DEF SameTools
<1> HIDE DEF t
<1>5. Reaches(c, s.out, View("open", {[index |-> s.index, kind |-> m]}, s.index + 1, Silent))
  BY DEF OpenAIAt, OpenAIView
<1>6. Reaches(c, t.out, View("open", {[index |-> s.index, kind |-> m]}, s.index + 1, Silent))
  BY <1>1, <1>4, <1>5, ReachesQuietDelta DEF e
<1>7. OpenAIType(t)
  BY <1>4 DEF OpenAIAt, OpenAIType, LastOpen
<1>8. QED BY <1>2, <1>4, <1>6, <1>7 DEF OpenAIAt, OpenAIView

\* A chunk of reasoning.
LEMMA OpenAIReasons ==
  ASSUME NEW c, NEW s, NEW m \in {"new", "thinking"}, OpenAIAt(c, s, m)
  PROVE  OpenAIAt(c, OpenAI!Reasoning(s), "thinking")
<1> DEFINE o == OpenAI!OpenThinking(s)
<1>1. s \in OpenAIStates /\ s.index \in Nat /\ s.out \in Seq(Events)
  BY DEF OpenAIAt, OpenAIType, OpenAIStates
<1>2. /\ o \in OpenAIStates /\ o.thinkingOpen
      /\ o.out = IF s.thinkingOpen THEN s.out
                 ELSE Append(s.out, Block("block_start", s.index, "thinking"))
      /\ o.index = s.index /\ o.started = s.started
      /\ o.textOpen = s.textOpen /\ o.tools = s.tools /\ o.finished = s.finished
  BY <1>1, OpenAIOpenThinking DEF SameTools
<1>3. OpenAI!Reasoning(s) = OpenAI!Emit(o, OpenAI!Block("block_delta", o.index, "thinking"))
  BY DEF OpenAI!Reasoning
<1> HIDE DEF o
<1>4. Reaches(c, o.out, View("open", {[index |-> s.index, kind |-> "thinking"]},
                             s.index + 1, Silent))
  <2>1. CASE m = "new"
    <3>1. Reaches(c, s.out, View("open", {}, s.index, Silent)) /\ ~s.thinkingOpen
      BY <2>1 DEF OpenAIAt, OpenAIView
    <3>2. "thinking" \in Kinds
      BY DEF Kinds
    <3>3. QED BY <1>1, <1>2, <3>1, <3>2, ReachesOpen
  <2>2. CASE m = "thinking"
    BY <1>2, <2>2 DEF OpenAIAt, OpenAIView
  <2>3. QED BY <2>1, <2>2
<1>5. OpenAIType(o)
  BY <1>2 DEF OpenAIAt, OpenAIType, LastOpen
<1>6. OpenAIAt(c, o, "thinking")
  BY <1>2, <1>4, <1>5 DEF OpenAIAt, OpenAIView
<1>7. QED BY <1>3, <1>6, OpenAIMore

\* A text block follows what is closed, or goes on.
LEMMA OpenAISays ==
  ASSUME NEW c, NEW s, NEW m \in {"new", "text"}, OpenAIAt(c, s, m)
  PROVE  OpenAIAt(c, OpenAI!Refusal(s), "text")
<1> DEFINE o == OpenAI!OpenText(s)
<1>1. s \in OpenAIStates /\ s.index \in Nat /\ s.out \in Seq(Events)
  BY DEF OpenAIAt, OpenAIType, OpenAIStates
<1>2. /\ o \in OpenAIStates /\ o.textOpen
      /\ o.out = IF s.textOpen THEN s.out
                 ELSE Append(s.out, Block("block_start", s.index, "text"))
      /\ o.index = s.index /\ o.started = s.started
      /\ o.thinkingOpen = s.thinkingOpen /\ o.tools = s.tools /\ o.finished = s.finished
  BY <1>1, OpenAIOpenText DEF SameTools
<1>3. OpenAI!Refusal(s) = OpenAI!Emit(o, OpenAI!Block("block_delta", o.index, "text"))
  BY DEF OpenAI!Refusal
<1> HIDE DEF o
<1>4. Reaches(c, o.out, View("open", {[index |-> s.index, kind |-> "text"]},
                             s.index + 1, Silent))
  <2>1. CASE m = "new"
    <3>1. Reaches(c, s.out, View("open", {}, s.index, Silent)) /\ ~s.textOpen
      BY <2>1 DEF OpenAIAt, OpenAIView
    <3>2. "text" \in Kinds
      BY DEF Kinds
    <3>3. QED BY <1>1, <1>2, <3>1, <3>2, ReachesOpen
  <2>2. CASE m = "text"
    BY <1>2, <2>2 DEF OpenAIAt, OpenAIView
  <2>3. QED BY <2>1, <2>2
<1>5. OpenAIType(o)
  BY <1>2 DEF OpenAIAt, OpenAIType, LastOpen
<1>6. OpenAIAt(c, o, "text")
  BY <1>2, <1>4, <1>5 DEF OpenAIAt, OpenAIView
<1>7. QED BY <1>3, <1>6, OpenAIMore

\* The thinking block is closed, if there is one.
LEMMA OpenAIStopsThinking ==
  ASSUME NEW c, NEW s, OpenAIAt(c, s, "thinking")
  PROVE  OpenAIAt(c, OpenAI!CloseThinking(s), "new")
<1> DEFINE t == OpenAI!CloseThinking(s)
<1>1. s \in OpenAIStates /\ s.index \in Nat /\ s.out \in Seq(Events) /\ s.thinkingOpen
  BY DEF OpenAIAt, OpenAIType, OpenAIStates
<1>2. /\ t \in OpenAIStates /\ ~t.thinkingOpen /\ t.out = Append(s.out, BlockStop(s.index))
      /\ t.index = s.index + 1 /\ t.started = s.started /\ t.textOpen = s.textOpen
      /\ t.tools = s.tools /\ t.finished = s.finished
  BY <1>1, OpenAICloseThinking DEF SameTools
<1> HIDE DEF t
<1>3. Reaches(c, s.out, View("open", {[index |-> s.index, kind |-> "thinking"]},
                             s.index + 1, Silent))
  BY DEF OpenAIAt, OpenAIView
<1>4. "thinking" \in Kinds
  BY DEF Kinds
<1>5. Reaches(c, t.out, View("open", {}, s.index + 1, Silent))
  BY <1>1, <1>2, <1>3, <1>4, ReachesClose
<1>6. OpenAIType(t)
  BY <1>2 DEF OpenAIAt, OpenAIType, LastOpen
<1>7. OpenAIView(t, "new") = View("open", {}, s.index + 1, Silent)
  BY <1>2 DEF OpenAIView
<1>8. t.started /\ ~t.finished /\ ~t.thinkingOpen /\ ~t.textOpen /\ t.tools = <<>>
  BY <1>2 DEF OpenAIAt
<1>9. OpenAIAt(c, t, "new")
  BY <1>5, <1>6, <1>7, <1>8 DEF OpenAIAt
<1>10. QED BY <1>9 DEF t

\* The text block is closed, if there is one.
LEMMA OpenAIStopsText ==
  ASSUME NEW c, NEW s, OpenAIAt(c, s, "text")
  PROVE  OpenAIAt(c, OpenAI!CloseText(s), "new")
<1> DEFINE t == OpenAI!CloseText(s)
<1>1. s \in OpenAIStates /\ s.index \in Nat /\ s.out \in Seq(Events) /\ s.textOpen
  BY DEF OpenAIAt, OpenAIType, OpenAIStates
<1>2. /\ t \in OpenAIStates /\ ~t.textOpen /\ t.out = Append(s.out, BlockStop(s.index))
      /\ t.index = s.index + 1 /\ t.started = s.started /\ t.thinkingOpen = s.thinkingOpen
      /\ t.tools = s.tools /\ t.finished = s.finished
  BY <1>1, OpenAICloseText DEF SameTools
<1> HIDE DEF t
<1>3. Reaches(c, s.out, View("open", {[index |-> s.index, kind |-> "text"]},
                             s.index + 1, Silent))
  BY DEF OpenAIAt, OpenAIView
<1>4. "text" \in Kinds
  BY DEF Kinds
<1>5. Reaches(c, t.out, View("open", {}, s.index + 1, Silent))
  BY <1>1, <1>2, <1>3, <1>4, ReachesClose
<1>6. OpenAIType(t)
  BY <1>2 DEF OpenAIAt, OpenAIType, LastOpen
<1>7. OpenAIView(t, "new") = View("open", {}, s.index + 1, Silent)
  BY <1>2 DEF OpenAIView
<1>8. t.started /\ ~t.finished /\ ~t.thinkingOpen /\ ~t.textOpen /\ t.tools = <<>>
  BY <1>2 DEF OpenAIAt
<1>9. OpenAIAt(c, t, "new")
  BY <1>5, <1>6, <1>7, <1>8 DEF OpenAIAt
<1>10. QED BY <1>9 DEF t

\* A chunk of text.
LEMMA OpenAIWrites ==
  ASSUME NEW c, NEW s, NEW m \in {"new", "thinking", "text"}, OpenAIAt(c, s, m)
  PROVE  OpenAIAt(c, OpenAI!Content(s), "text")
<1> DEFINE t == OpenAI!CloseThinking(s)
<1>1. OpenAI!Content(s) = OpenAI!Refusal(t)
  BY DEF OpenAI!Content, OpenAI!Refusal
<1>2. CASE m = "thinking"
  BY <1>1, <1>2, OpenAIStopsThinking, OpenAISays
<1>3. CASE m \in {"new", "text"}
  <2>1. t = s
    BY <1>3 DEF OpenAI!CloseThinking, OpenAIAt
  <2>2. QED BY <1>1, <1>3, <2>1, OpenAISays
<1>4. QED BY <1>2, <1>3

\* As many tool calls are kept as there is room for.
Kept(n) == IF n <= MaxToolIndex THEN n ELSE MaxToolIndex + 1

\* The blocks before a new tool call are closed.
OpenAIReady(c, s, n) ==
  /\ OpenAIType(s) /\ s.started /\ ~s.finished /\ ~s.thinkingOpen /\ ~s.textOpen
  /\ Len(s.tools) = n /\ \A i \in 1 .. n : s.tools[i].closed
  /\ Reaches(c, s.out, View("open", {}, s.index + n, Silent))

\* Whatever is open is closed before a tool call.
LEMMA OpenAIMakesReady ==
  ASSUME NEW c, NEW s, NEW m \in {"new", "text", "tools"}, OpenAIAt(c, s, m)
  PROVE  OpenAIReady(c, OpenAI!CloseLastTool(OpenAI!CloseText(s)), Len(s.tools))
<1>1. CASE m \in {"new", "text"}
  <2> DEFINE b == OpenAI!CloseText(s)
  <2>1. OpenAIAt(c, b, "new")
    <3>1. CASE m = "text"
      BY <3>1, OpenAIStopsText
    <3>2. CASE m = "new"
      BY <3>2 DEF OpenAI!CloseText, OpenAIAt
    <3>3. QED BY <1>1, <3>1, <3>2
  <2> HIDE DEF b
  <2>2. Len(s.tools) = 0 /\ Len(b.tools) = 0
    BY <1>1, <2>1 DEF OpenAIAt
  <2>3. OpenAI!CloseLastTool(b) = b
    BY <2>2 DEF OpenAI!CloseLastTool
  <2>4. OpenAIReady(c, b, 0)
    <3>1. b.index + 0 = b.index /\ OpenAIType(b)
      BY <2>1 DEF OpenAIAt, OpenAIType, OpenAIStates
    <3>2. Reaches(c, b.out, View("open", {}, b.index + 0, Silent))
      BY <2>1, <3>1 DEF OpenAIAt, OpenAIView
    <3>3. b.started /\ ~b.finished /\ ~b.thinkingOpen /\ ~b.textOpen
      BY <2>1 DEF OpenAIAt
    <3>4. QED BY <2>2, <3>1, <3>2, <3>3 DEF OpenAIReady
  <2>5. QED BY <2>2, <2>3, <2>4 DEF b
<1>2. CASE m = "tools"
  <2> DEFINE n == Len(s.tools)
             t == OpenAI!CloseLastTool(s)
  <2>1. OpenAI!CloseText(s) = s
    BY <1>2 DEF OpenAIAt, OpenAI!CloseText
  <2>2. /\ s \in OpenAIStates /\ LastOpen(s) /\ n \in Nat /\ n > 0
        /\ s.out \in Seq(Events) /\ s.index \in Nat
        /\ s.tools \in Seq(ToolStates) /\ LastIsOpen(s)
    BY <1>2 DEF OpenAIAt, OpenAIType, OpenAIStates, LastIsOpen
  <2>3. /\ t \in OpenAIStates /\ t.started = s.started /\ t.index = s.index
        /\ t.finished = s.finished /\ t.textOpen = s.textOpen
        /\ t.thinkingOpen = s.thinkingOpen
        /\ Len(t.tools) = n /\ \A i \in 1 .. n : t.tools[i].closed
        /\ t.out = Append(s.out, BlockStop(LastBlock(s)))
    BY <2>2, OpenAICloseLastTool DEF SameFlags
  <2>4. Reaches(c, s.out, View("open", {[index |-> LastBlock(s), kind |-> "tool"]},
                               s.index + n, Silent))
    BY <1>2 DEF OpenAIAt, OpenAIView
  <2>5. LastBlock(s) \in Nat /\ "tool" \in Kinds
    <3>1. s.tools[n] \in ToolStates
      BY <2>2
    <3>2. QED BY <3>1 DEF LastBlock, ToolStates, Kinds
  <2> HIDE DEF t
  <2>6. Reaches(c, t.out, View("open", {}, s.index + n, Silent))
    BY <2>2, <2>3, <2>4, <2>5, ReachesClose
  <2>7. OpenAIType(t)
    <3>1. n <= MaxToolIndex + 1
      BY <1>2 DEF OpenAIAt, OpenAIType
    <3>2. LastOpen(t)
      BY <2>2, <2>3 DEF LastOpen
    <3>3. QED BY <2>3, <3>1, <3>2 DEF OpenAIType
  <2>8. t.started /\ ~t.finished /\ ~t.thinkingOpen /\ ~t.textOpen
    BY <1>2, <2>3 DEF OpenAIAt
  <2> HIDE DEF n
  <2>9. OpenAIReady(c, t, n)
    BY <2>3, <2>6, <2>7, <2>8 DEF OpenAIReady
  <2>10. QED BY <2>1, <2>9 DEF t, n
<1>3. QED BY <1>1, <1>2

\* More of the tool call that is open, if there is more.
LEMMA OpenAIMoreOfTool ==
  ASSUME NEW c, NEW s, NEW tc, OpenAIAt(c, s, "tools"), tc.index + 1 = Len(s.tools),
         tc.index \in Nat
  PROVE  /\ OpenAIAt(c, OpenAI!Arguments(s, tc), "tools")
         /\ Len(OpenAI!Arguments(s, tc).tools) = Len(s.tools)
<1> DEFINE t == OpenAI!Arguments(s, tc)
           e == Block("block_delta", LastBlock(s), "tool")
<1>1. s \in OpenAIStates /\ s.out \in Seq(Events) /\ LastIsOpen(s)
      /\ s.tools \in Seq(ToolStates)
  BY DEF OpenAIAt, OpenAIType, OpenAIStates
<1>2. /\ t \in OpenAIStates /\ t.started = s.started /\ t.index = s.index
      /\ t.finished = s.finished /\ t.textOpen = s.textOpen
      /\ t.thinkingOpen = s.thinkingOpen /\ t.tools = s.tools
      /\ (t = s \/ t.out = Append(s.out, Block("block_delta", s.tools[tc.index + 1].block, "tool")))
  BY <1>1, OpenAIArguments DEF SameFlags
<1>3. Block("block_delta", s.tools[tc.index + 1].block, "tool") = e
  BY DEF LastBlock
<1> HIDE DEF t, e
<1>4. t = s \/ t.out = Append(s.out, e)
  BY <1>2, <1>3
<1>5. CASE t = s
  BY <1>5 DEF t
<1>6. CASE t.out = Append(s.out, e)
  <2>1. LastBlock(s) \in Nat /\ "tool" \in Kinds
    <3>1. s.tools[Len(s.tools)] \in ToolStates
      BY <1>1 DEF LastIsOpen
    <3>2. QED BY <3>1 DEF LastBlock, ToolStates, Kinds
  <2>2. Reaches(c, s.out, View("open", {[index |-> LastBlock(s), kind |-> "tool"]},
                               s.index + Len(s.tools), Silent))
    BY DEF OpenAIAt, OpenAIView
  <2>3. Reaches(c, t.out, View("open", {[index |-> LastBlock(s), kind |-> "tool"]},
                               s.index + Len(s.tools), Silent))
    BY <1>1, <1>6, <2>1, <2>2, ReachesQuietDelta DEF e
  <2>4. OpenAIView(t, "tools") = OpenAIView(s, "tools")
    BY <1>2 DEF OpenAIView, LastBlock
  <2>5. Reaches(c, t.out, OpenAIView(t, "tools"))
    BY <2>3, <2>4 DEF OpenAIView
  <2>6. OpenAIType(t)
    BY <1>2 DEF OpenAIAt, OpenAIType, LastOpen
  <2>7. t.started /\ ~t.finished /\ ~t.thinkingOpen /\ ~t.textOpen
    BY <1>2 DEF OpenAIAt
  <2>8. LastIsOpen(t) /\ LastBlock(t) = t.index + Len(t.tools) - 1
    BY <1>2 DEF OpenAIAt, LastIsOpen, LastBlock
  <2>9. OpenAIAt(c, t, "tools")
    BY <2>5, <2>6, <2>7, <2>8 DEF OpenAIAt
  <2>10. QED BY <1>2, <2>9 DEF t
<1>7. QED BY <1>4, <1>5, <1>6

\* The next tool call opens its block.
LEMMA OpenAIOpensTool ==
  ASSUME NEW c, NEW s, NEW tc, NEW n \in Nat, OpenAIReady(c, s, n),
         tc.index = n, n <= MaxToolIndex
  PROVE  /\ OpenAIAt(c, OpenAI!OpenTool(s, tc), "tools")
         /\ Len(OpenAI!OpenTool(s, tc).tools) = n + 1
<1> DEFINE t == OpenAI!OpenTool(s, tc)
           b == s.index + n
<1>1. /\ s \in OpenAIStates /\ s.out \in Seq(Events) /\ s.index \in Nat
      /\ Len(s.tools) = n /\ \A i \in 1 .. Len(s.tools) : s.tools[i].closed
  BY DEF OpenAIReady, OpenAIType, OpenAIStates
<1>2. /\ t \in OpenAIStates /\ t.started = s.started /\ t.index = s.index
      /\ t.finished = s.finished /\ t.textOpen = s.textOpen
      /\ t.thinkingOpen = s.thinkingOpen
      /\ LastOpen(t) /\ Len(t.tools) = n + 1
      /\ t.tools[n + 1] = [block |-> b, closed |-> FALSE]
      /\ t.out = Append(s.out, Block("block_start", b, "tool"))
  <2>1. tc.index \in Nat /\ tc.index >= Len(s.tools)
    BY <1>1
  <2>2. /\ t \in OpenAIStates /\ SameFlags(s, t) /\ LastOpen(t)
        /\ Len(t.tools) = tc.index + 1
        /\ t.tools[tc.index + 1] = [block |-> s.index + tc.index, closed |-> FALSE]
        /\ t.out = Append(s.out, Block("block_start", s.index + tc.index, "tool"))
    BY <1>1, <2>1, OpenAIOpenTool
  <2> HIDE DEF t
  <2>3. QED BY <2>2 DEF SameFlags
<1>3. b \in Nat /\ b + 1 = t.index + Len(t.tools) /\ t.index \in Nat /\ "tool" \in Kinds
  <2> HIDE DEF t
  <2>1. t.index = s.index /\ Len(t.tools) = n + 1
    BY <1>2
  <2>2. s.index + n \in Nat /\ s.index + n + 1 = s.index + (n + 1)
    BY <1>1
  <2>3. "tool" \in Kinds
    BY DEF Kinds
  <2>4. QED BY <1>1, <2>1, <2>2, <2>3
<1>4. Reaches(c, s.out, View("open", {}, b, Silent))
  BY DEF OpenAIReady
<1> HIDE DEF t, b
<1>5. Reaches(c, t.out, View("open", {[index |-> b, kind |-> "tool"]}, b + 1, Silent))
  BY <1>1, <1>2, <1>3, <1>4, ReachesOpen
<1>6. LastIsOpen(t) /\ LastBlock(t) = b /\ b = t.index + Len(t.tools) - 1
  <2>1. t.tools[Len(t.tools)].block = b /\ ~t.tools[Len(t.tools)].closed
    BY <1>2
  <2>2. Len(t.tools) > 0 /\ b = t.index + Len(t.tools) - 1
    <3> DEFINE i == t.index
               l == Len(t.tools)
    <3>1. b \in Nat /\ i \in Nat /\ l = n + 1 /\ b + 1 = i + l
      BY <1>2, <1>3
    <3> HIDE DEF i, l
    <3>2. l > 0 /\ b = i + l - 1
      BY <3>1
    <3>3. QED BY <3>2 DEF i, l
  <2>3. QED BY <2>1, <2>2 DEF LastIsOpen, LastBlock
<1>7. OpenAIView(t, "tools") = View("open", {[index |-> b, kind |-> "tool"]}, b + 1, Silent)
  BY <1>3, <1>6 DEF OpenAIView
<1>8. OpenAIType(t)
  <2>1. n + 1 <= MaxToolIndex + 1
    BY BoundsAssumption
  <2>2. QED BY <1>2, <2>1 DEF OpenAIType
<1>9. t.started /\ ~t.finished /\ ~t.thinkingOpen /\ ~t.textOpen
  BY <1>2 DEF OpenAIReady
<1>10. OpenAIAt(c, t, "tools")
  BY <1>5, <1>6, <1>7, <1>8, <1>9 DEF OpenAIAt
<1>11. QED BY <1>2, <1>10 DEF t

\* A usual tool call: the next one, or more of the last one.
LEMMA OpenAICalls ==
  ASSUME NEW c, NEW s, NEW m \in {"new", "text", "tools"}, NEW tc, NEW n \in Nat,
         OpenAIAt(c, s, m), tc.index \in Nat,
         Len(s.tools) = Kept(n), m = "tools" <=> n > 0,
         \/ tc.index = n /\ tc.name = "given"
         \/ tc.index = n - 1 /\ tc.name = "absent"
  PROVE  /\ OpenAIAt(c, OpenAI!ToolCall(s, tc), "tools")
         /\ Len(OpenAI!ToolCall(s, tc).tools) = Kept(IF tc.index = n THEN n + 1 ELSE n)
<1> USE BoundsAssumption
<1>1. CASE tc.index > MaxToolIndex
  <2>1. OpenAI!ToolCall(s, tc) = s
    BY <1>1 DEF OpenAI!ToolCall
  <2>2. n > MaxToolIndex /\ n > 0
    BY <1>1
  <2>3. Kept(n) = MaxToolIndex + 1 /\ Kept(n + 1) = MaxToolIndex + 1
    BY <2>2 DEF Kept
  <2>4. Len(s.tools) = Kept(IF tc.index = n THEN n + 1 ELSE n)
    BY <2>3
  <2>5. m = "tools"
    BY <2>2
  <2>6. QED BY <2>1, <2>4, <2>5
<1>2. CASE tc.index <= MaxToolIndex /\ tc.index = n
  <2> DEFINE b == OpenAI!CloseLastTool(OpenAI!CloseText(s))
             o == OpenAI!OpenTool(b, tc)
  <2>1. n <= MaxToolIndex /\ Kept(n) = n /\ Kept(n + 1) = n + 1 /\ Len(s.tools) = n
    BY <1>2 DEF Kept
  <2>2. ~OpenAI!Active(s, tc.index)
    BY <1>2, <2>1 DEF OpenAI!Active
  <2>3. tc.name = "given"
    BY <1>2
  <2>4. OpenAI!ToolCall(s, tc) = OpenAI!Arguments(o, tc)
    BY <1>2, <2>2, <2>3 DEF OpenAI!ToolCall
  <2>5. OpenAIReady(c, b, n)
    BY <2>1, OpenAIMakesReady
  <2> HIDE DEF b
  <2>6. OpenAIAt(c, o, "tools") /\ Len(o.tools) = n + 1
    BY <1>2, <2>1, <2>5, OpenAIOpensTool
  <2> HIDE DEF o
  <2>7. OpenAIAt(c, OpenAI!Arguments(o, tc), "tools")
        /\ Len(OpenAI!Arguments(o, tc).tools) = n + 1
    BY <1>2, <2>6, OpenAIMoreOfTool
  <2>8. QED BY <1>2, <2>1, <2>4, <2>7
<1>3. CASE tc.index <= MaxToolIndex /\ tc.index # n
  <2>1. tc.index = n - 1 /\ m = "tools" /\ n > 0 /\ Kept(n) = n
    BY <1>3 DEF Kept
  <2>2. tc.index + 1 = Len(s.tools)
    BY <2>1
  <2>3. OpenAI!Active(s, tc.index)
    BY <2>1, <2>2 DEF OpenAI!Active, OpenAIAt, LastIsOpen
  <2>4. OpenAI!ToolCall(s, tc) = OpenAI!Arguments(s, tc)
    BY <1>3, <2>3 DEF OpenAI!ToolCall
  <2>5. OpenAIAt(c, s, "tools")
    BY <2>1
  <2>6. /\ OpenAIAt(c, OpenAI!Arguments(s, tc), "tools")
        /\ Len(OpenAI!Arguments(s, tc).tools) = Len(s.tools)
    BY <2>2, <2>5, OpenAIMoreOfTool
  <2>7. (IF tc.index = n THEN n + 1 ELSE n) = n
    BY <1>3
  <2>8. QED BY <2>4, <2>6, <2>7
<1>4. QED BY <1>1, <1>2, <1>3

\* The content ends in any stage.
LEMMA OpenAIEnds ==
  ASSUME NEW c, NEW s, NEW m \in {"new", "thinking", "text", "tools"}, OpenAIAt(c, s, m)
  PROVE  OpenAIEnded(c, OpenAI!EndContent(s))
<1> DEFINE b == OpenAI!CloseText(OpenAI!CloseThinking(s))
           f == OpenAI!FlushTools(b)
           t == Emit(f, Plain("message_delta"))
           k == IF m = "tools" THEN "tools" ELSE "new"
<1>1. OpenAIAt(c, b, k)
  <2>1. CASE m = "thinking"
    <3>1. OpenAIAt(c, OpenAI!CloseThinking(s), "new")
      BY <2>1, OpenAIStopsThinking
    <3>2. OpenAI!CloseText(OpenAI!CloseThinking(s)) = OpenAI!CloseThinking(s)
      BY <3>1 DEF OpenAI!CloseText, OpenAIAt
    <3>3. QED BY <2>1, <3>1, <3>2
  <2>2. CASE m # "thinking"
    <3>1. OpenAI!CloseThinking(s) = s
      BY <2>2 DEF OpenAI!CloseThinking, OpenAIAt
    <3>2. CASE m = "text"
      BY <3>1, <3>2, OpenAIStopsText
    <3>3. CASE m # "text"
      <4>1. OpenAI!CloseText(s) = s
        BY <3>3 DEF OpenAI!CloseText, OpenAIAt
      <4>2. QED BY <2>2, <3>1, <3>3, <4>1
    <3>4. QED BY <3>2, <3>3
  <2>3. QED BY <2>1, <2>2
<1>2. OpenAI!EndContent(s) = t
  BY OpenAIShared DEF OpenAI!EndContent
<1> HIDE DEF b
<1>3. /\ b \in OpenAIStates /\ LastOpen(b) /\ b.out \in Seq(Events)
      /\ b.tools \in Seq(ToolStates) /\ b.index \in Nat
  BY <1>1 DEF OpenAIAt, OpenAIType, OpenAIStates
<1>4. /\ f \in OpenAIStates /\ f.tools = <<>> /\ f.started = b.started
      /\ f.index = b.index /\ f.finished = b.finished
      /\ f.textOpen = b.textOpen /\ f.thinkingOpen = b.thinkingOpen
      /\ f.out = IF LastIsOpen(b) THEN Append(b.out, BlockStop(LastBlock(b))) ELSE b.out
  BY <1>3, OpenAIFlushTools DEF SameFlags
<1> HIDE DEF f
<1>5. PICK n : Reaches(c, f.out, View("open", {}, n, Silent))
  <2>1. CASE m = "tools"
    <3>1. LastIsOpen(b) /\ Reaches(c, b.out, View("open",
            {[index |-> LastBlock(b), kind |-> "tool"]}, b.index + Len(b.tools), Silent))
      BY <1>1, <2>1 DEF OpenAIAt, OpenAIView
    <3>2. LastBlock(b) \in Nat /\ "tool" \in Kinds
      <4>1. b.tools[Len(b.tools)] \in ToolStates
        BY <1>3, <3>1 DEF LastIsOpen
      <4>2. QED BY <4>1 DEF LastBlock, ToolStates, Kinds
    <3>3. Reaches(c, Append(b.out, BlockStop(LastBlock(b))),
                  View("open", {}, b.index + Len(b.tools), Silent))
      BY <1>3, <3>1, <3>2, ReachesClose
    <3>4. QED BY <1>4, <3>1, <3>3
  <2>2. CASE m # "tools"
    <3>1. b.tools = <<>> /\ Reaches(c, b.out, View("open", {}, b.index, Silent))
      BY <1>1, <2>2 DEF OpenAIAt, OpenAIView
    <3>2. ~LastIsOpen(b)
      BY <3>1 DEF LastIsOpen
    <3>3. QED BY <1>4, <3>1, <3>2
  <2>3. QED BY <2>1, <2>2
<1>6. f.out \in Seq(Events) /\ Plain("message_delta") \in Events
  BY <1>4, EventTypes DEF OpenAIStates
<1>7. /\ t \in OpenAIStates /\ t.out = Append(f.out, Plain("message_delta"))
      /\ t.started = f.started /\ t.textOpen = f.textOpen /\ t.thinkingOpen = f.thinkingOpen
      /\ t.tools = f.tools /\ t.finished = f.finished
  BY <1>4, <1>6, OpenAIEmit DEF SameTools
<1> HIDE DEF t
<1>8. Reaches(c, t.out, View("ending", {}, n, Silent))
  BY <1>5, <1>6, <1>7, ReachesEnd
<1>9. OpenAIType(t) /\ t.tools = <<>>
  BY <1>4, <1>7, BoundsAssumption DEF OpenAIType, LastOpen
<1>10. t.started /\ ~t.finished /\ ~t.thinkingOpen /\ ~t.textOpen
  BY <1>1, <1>4, <1>7 DEF OpenAIAt
<1>11. OpenAIEnded(c, t)
  BY <1>8, <1>9, <1>10 DEF OpenAIEnded
<1>12. QED BY <1>2, <1>11

\* An event that ends the message is the last one.
LEMMA OpenAIFinishes ==
  ASSUME NEW c, NEW s, NEW e \in {"error", "message_stop"}, OpenAIType(s),
         NEW stage \in {"stopped", "failed"}, NEW o, NEW n,
         Reaches(c, Append(s.out, Plain(e)), View(stage, o, n, Silent))
  PROVE  OpenAIOver(c, OpenAI!Emit([s EXCEPT !.finished = TRUE], OpenAI!Plain(e)))
<1> DEFINE b == [s EXCEPT !.finished = TRUE]
           t == Emit(b, Plain(e))
<1>1. OpenAI!Emit([s EXCEPT !.finished = TRUE], OpenAI!Plain(e)) = t
  BY OpenAIShared
<1>2. b \in OpenAIStates /\ b.finished /\ b.out = s.out /\ b.tools = s.tools
  BY DEF OpenAIType, OpenAIStates
<1> HIDE DEF b
<1>3. Plain(e) \in Events
  BY EventTypes
<1>4. t \in OpenAIStates /\ t.finished /\ t.out = Append(s.out, Plain(e)) /\ t.tools = s.tools
  BY <1>2, <1>3, OpenAIEmit DEF SameTools
<1> HIDE DEF t
<1>5. OpenAIType(t)
  BY <1>4 DEF OpenAIType, LastOpen
<1>6. Reaches(c, t.out, View(stage, o, n, Silent))
  BY <1>4
<1>7. OpenAIOver(c, t)
  BY <1>4, <1>5, <1>6 DEF OpenAIOver
<1>8. QED BY <1>1, <1>7

\* The translator's error event.
LEMMA OpenAIFails ==
  ASSUME NEW c, NEW s,
         \/ OpenAIFresh(c, s)
         \/ \E m \in {"new", "thinking", "text", "tools"} : OpenAIAt(c, s, m)
         \/ OpenAIEnded(c, s)
  PROVE  OpenAIOver(c, OpenAI!Fail(s))
<1>1. OpenAIType(s) /\ s.out \in Seq(Events)
  BY DEF OpenAIFresh, OpenAIAt, OpenAIEnded, OpenAIType, OpenAIStates
<1>2. \E stage \in {"idle", "open", "ending"} : \E o, n :
        Reaches(c, s.out, View(stage, o, n, Silent))
  <2>1. CASE OpenAIFresh(c, s)
    BY <2>1 DEF OpenAIFresh
  <2>2. CASE OpenAIEnded(c, s)
    BY <2>2 DEF OpenAIEnded
  <2>3. ASSUME NEW m \in {"new", "thinking", "text", "tools"}, OpenAIAt(c, s, m)
        PROVE  \E o, n : Reaches(c, s.out, View("open", o, n, Silent))
    BY <2>3 DEF OpenAIAt, OpenAIView
  <2>4. QED BY <2>1, <2>2, <2>3
<1>3. PICK stage \in {"idle", "open", "ending"} : \E o, n :
        Reaches(c, s.out, View(stage, o, n, Silent))
  BY <1>2
<1>4. PICK o, n : Reaches(c, s.out, View(stage, o, n, Silent))
  BY <1>3
<1>5. Reaches(c, Append(s.out, Plain("error")), View("failed", o, n, Silent))
  BY <1>1, <1>4, ReachesFail
<1>6. QED BY <1>1, <1>5, OpenAIFinishes DEF OpenAI!Fail

\* The end of the stream, after the content or an error.
LEMMA OpenAIStops ==
  ASSUME NEW c, NEW s, OpenAIEnded(c, s) \/ OpenAIOver(c, s)
  PROVE  OpenAIOver(c, OpenAI!finish(s))
<1>1. CASE OpenAIOver(c, s)
  BY <1>1 DEF OpenAIOver, OpenAI!finish
<1>2. CASE OpenAIEnded(c, s)
  <2>1. PICK n : Reaches(c, s.out, View("ending", {}, n, Silent))
    BY <1>2 DEF OpenAIEnded
  <2>2. OpenAIType(s) /\ s.out \in Seq(Events) /\ ~s.finished
    BY <1>2 DEF OpenAIEnded, OpenAIType, OpenAIStates
  <2>3. Reaches(c, Append(s.out, Plain("message_stop")), View("stopped", {}, n, Silent))
    BY <2>1, <2>2, ReachesStop
  <2>4. QED BY <2>2, <2>3, OpenAIFinishes DEF OpenAI!finish
<1>3. QED BY <1>1, <1>2

-----------------------------------------------------------------------------
(* The translator of an OpenAI-compatible backend: usual answers *)

\* The translator is where a usual answer has brought it.
OpenAIMatch(c, s, x) ==
  \/ x.stage = "new" /\ x.calls = 0 /\ OpenAIFresh(c, s)
  \/ x.stage \in {"new", "thinking", "text"} /\ x.calls = 0 /\ OpenAIAt(c, s, x.stage)
  \/ /\ x.stage = "tools" /\ x.calls > 0 /\ OpenAIAt(c, s, "tools")
     /\ Len(s.tools) = Kept(x.calls)
  \/ x.stage = "finished" /\ (OpenAIEnded(c, s) \/ OpenAIOver(c, s))

\* A chunk of a usual answer.
LEMMA OpenAIChunk ==
  ASSUME NEW c, Usual("OpenAI"), sent.calls \in Nat, OpenAIMatch(c, st, sent),
         NEW ch \in OpenAI!NextChunks
  PROVE  OpenAIMatch(c, OpenAI!process_chunk(st, ch), OpenAI!SentAfter(ch))
<1> DEFINE x == OpenAI!SentAfter(ch)
           t == OpenAI!process_chunk(st, ch)
           says == ch.content \/ ch.refusal
           calls == ch.tool # OpenAI!NoTool
           thinking == sent.stage = "thinking" \/ ch.reasoning
<1>1. /\ ch.error \in BOOLEAN /\ ch.reasoning \in BOOLEAN /\ ch.content \in BOOLEAN
      /\ ch.refusal \in BOOLEAN /\ ch.finish \in {"none", "reason", "error"}
      /\ ch.tool \in {OpenAI!NoTool} \cup OpenAI!NextToolCalls
      /\ ch.reasoning => sent.stage \in {"new", "thinking"}
      /\ says => sent.stage \in {"new", "thinking", "text"}
      /\ ~(ch.refusal /\ ~ch.content /\ thinking)
      /\ ~(calls /\ ~says /\ thinking)
      /\ sent.stage = "finished" => ~calls /\ ch.finish = "none"
      /\ ch.error => ~ch.reasoning /\ ~says /\ ~calls /\ ch.finish = "none"
  BY UsualMeans DEF OpenAI!NextChunks, OpenAI!Ends
<1>2. calls => /\ ch.tool.index \in Nat
               /\ \/ ch.tool.index = sent.calls /\ ch.tool.name = "given"
                  \/ ch.tool.index = sent.calls - 1 /\ ch.tool.name = "absent"
  BY <1>1, UsualMeans, BoundsAssumption DEF OpenAI!NextToolCalls, OpenAI!ToolCalls
<1>3. /\ x.stage = IF ch.error \/ ch.finish # "none" THEN "finished"
                   ELSE IF calls \/ sent.stage = "tools" THEN "tools"
                   ELSE IF says THEN "text"
                   ELSE IF ch.reasoning THEN "thinking"
                   ELSE sent.stage
      /\ x.calls = IF calls /\ ch.tool.index = sent.calls THEN sent.calls + 1 ELSE sent.calls
  BY DEF OpenAI!SentAfter
<1> HIDE DEF x
<1>4. CASE OpenAIOver(c, st) /\ sent.stage = "finished"
  <2>1. t = st
    BY <1>4 DEF OpenAIOver, OpenAI!process_chunk
  <2>2. x.stage = "finished"
    BY <1>1, <1>3, <1>4
  <2>3. OpenAIMatch(c, t, x)
    BY <1>4, <2>1, <2>2 DEF OpenAIMatch
  <2>4. QED BY <2>3 DEF x
<1>5. CASE ~OpenAIOver(c, st) /\ ch.error
  <2>1. OpenAIFresh(c, st) \/ OpenAIEnded(c, st)
        \/ \E m \in {"new", "thinking", "text", "tools"} : OpenAIAt(c, st, m)
    BY <1>5 DEF OpenAIMatch
  <2>2. ~st.finished
    BY <2>1 DEF OpenAIFresh, OpenAIEnded, OpenAIAt
  <2>3. t = OpenAI!Fail(st)
    BY <1>5, <2>2 DEF OpenAI!process_chunk
  <2>4. x.stage = "finished"
    BY <1>3, <1>5
  <2>5. OpenAIOver(c, OpenAI!Fail(st))
    BY <2>1, OpenAIFails
  <2>6. OpenAIMatch(c, t, x)
    BY <2>3, <2>4, <2>5 DEF OpenAIMatch
  <2>7. QED BY <2>6 DEF x
<1>6. CASE OpenAIEnded(c, st) /\ sent.stage = "finished" /\ ~ch.error
  <2>1. ~ch.reasoning /\ ~ch.content /\ ~ch.refusal /\ ~calls /\ ch.finish = "none"
    BY <1>1, <1>6
  <2>2. OpenAI!BeginMessage(st) = st /\ ~st.finished
    BY <1>6, OpenAIShared DEF BeginMessage, OpenAIEnded
  <2>3. t = st
    BY <1>6, <2>1, <2>2 DEF OpenAI!process_chunk
  <2>4. x.stage = "finished"
    BY <1>3, <1>6, <2>1
  <2>5. OpenAIMatch(c, t, x)
    BY <1>6, <2>3, <2>4 DEF OpenAIMatch
  <2>6. QED BY <2>5 DEF x
<1>7. ASSUME NEW m \in {"new", "thinking", "text", "tools"}, sent.stage = m, ~ch.error,
             (m = "new" /\ OpenAIFresh(c, st)) \/ OpenAIAt(c, st, m),
             IF m = "tools" THEN sent.calls > 0 /\ Len(st.tools) = Kept(sent.calls)
             ELSE sent.calls = 0
      PROVE  OpenAIMatch(c, t, x)
  <2> DEFINE b == OpenAI!BeginMessage(st)
             r == IF ch.reasoning THEN OpenAI!Reasoning(b) ELSE b
             w == IF ch.content THEN OpenAI!Content(r) ELSE r
             f == IF ch.refusal THEN OpenAI!Refusal(w) ELSE w
             u == IF calls THEN OpenAI!ToolCall(f, ch.tool) ELSE f
             m1 == IF ch.reasoning THEN "thinking" ELSE m
             m2 == IF ch.content THEN "text" ELSE m1
             m3 == IF ch.refusal THEN "text" ELSE m2
             m4 == IF calls THEN "tools" ELSE m3
  <2>1. ~st.finished
    BY <1>7 DEF OpenAIFresh, OpenAIAt
  <2>2. t = IF ch.finish = "error" THEN OpenAI!Fail(u)
            ELSE IF ch.finish = "reason" THEN OpenAI!EndContent(u)
            ELSE u
    BY <1>7, <2>1 DEF OpenAI!process_chunk
  <2> HIDE DEF t
  <2>3. OpenAIAt(c, b, m)
    BY <1>7, OpenAIBeginsAt
  <2> HIDE DEF b
  <2>4. OpenAIAt(c, r, m1) /\ m1 \in {"new", "thinking", "text", "tools"}
    <3>1. CASE ch.reasoning
      <4>1. m \in {"new", "thinking"}
        BY <1>1, <1>7, <3>1
      <4>2. QED BY <2>3, <3>1, <4>1, OpenAIReasons
    <3>2. CASE ~ch.reasoning
      BY <2>3, <3>2
    <3>3. QED BY <3>1, <3>2
  <2> HIDE DEF r
  <2>5. OpenAIAt(c, w, m2) /\ m2 \in {"new", "thinking", "text", "tools"}
    <3>1. CASE ch.content
      <4>1. m1 \in {"new", "thinking", "text"}
        BY <1>1, <1>7, <3>1
      <4>2. QED BY <2>4, <3>1, <4>1, OpenAIWrites
    <3>2. CASE ~ch.content
      BY <2>4, <3>2
    <3>3. QED BY <3>1, <3>2
  <2> HIDE DEF w
  <2>6. OpenAIAt(c, f, m3) /\ m3 \in {"new", "thinking", "text", "tools"}
    <3>1. CASE ch.refusal
      <4>1. m2 \in {"new", "text"}
        BY <1>1, <1>7, <3>1
      <4>2. QED BY <2>5, <3>1, <4>1, OpenAISays
    <3>2. CASE ~ch.refusal
      BY <2>5, <3>2
    <3>3. QED BY <3>1, <3>2
  <2> HIDE DEF f
  <2>7. m = "tools" => m1 = m /\ m2 = m /\ m3 = m
    BY <1>1, <1>7
  <2>8. m3 = "tools" => m = "tools"
    OBVIOUS
  <2>9. Len(f.tools) = Kept(sent.calls)
    <3>1. CASE m = "tools"
      <4>1. ~ch.reasoning /\ ~ch.content /\ ~ch.refusal
        BY <1>1, <1>7, <3>1
      <4>2. b = st
        BY <1>7, <3>1, OpenAIShared DEF b, BeginMessage, OpenAIAt
      <4>3. f = st
        BY <4>1, <4>2 DEF f, w, r
      <4>4. QED BY <1>7, <3>1, <4>3
    <3>2. CASE m # "tools"
      <4>1. f.tools = <<>>
        BY <2>6, <2>8, <3>2 DEF OpenAIAt
      <4>2. Kept(sent.calls) = 0
        BY <1>7, <3>2, BoundsAssumption DEF Kept
      <4>3. QED BY <4>1, <4>2
    <3>3. QED BY <3>1, <3>2
  <2>10. /\ OpenAIAt(c, u, m4) /\ m4 \in {"new", "thinking", "text", "tools"}
         /\ Len(u.tools) = Kept(x.calls)
    <3>1. CASE calls
      <4>1. m3 \in {"new", "text", "tools"}
        BY <1>1, <1>7, <2>6, <3>1
      <4>2. m3 = "tools" <=> sent.calls > 0
        BY <1>7, <2>7, <2>8
      <4>3. x.calls = IF ch.tool.index = sent.calls THEN sent.calls + 1 ELSE sent.calls
        BY <1>3, <3>1
      <4> DEFINE tc == ch.tool
      <4>4. /\ tc.index \in Nat
            /\ \/ tc.index = sent.calls /\ tc.name = "given"
               \/ tc.index = sent.calls - 1 /\ tc.name = "absent"
        BY <1>2, <3>1
      <4> HIDE DEF tc
      <4>5. /\ OpenAIAt(c, OpenAI!ToolCall(f, tc), "tools")
            /\ Len(OpenAI!ToolCall(f, tc).tools)
                 = Kept(IF tc.index = sent.calls THEN sent.calls + 1 ELSE sent.calls)
        BY <2>6, <2>9, <4>1, <4>2, <4>4, OpenAICalls
      <4>6. u = OpenAI!ToolCall(f, tc) /\ m4 = "tools"
        BY <3>1 DEF tc
      <4>7. QED BY <4>3, <4>5, <4>6 DEF tc
    <3>2. CASE ~calls
      BY <1>3, <2>6, <2>9, <3>2
    <3>3. QED BY <3>1, <3>2
  <2> HIDE DEF u
  <2>11. CASE ch.finish = "error"
    <3>1. OpenAIOver(c, t)
      BY <2>2, <2>10, <2>11, OpenAIFails
    <3>2. x.stage = "finished"
      BY <1>3, <2>11
    <3>3. QED BY <3>1, <3>2 DEF OpenAIMatch
  <2>12. CASE ch.finish = "reason"
    <3>1. OpenAIEnded(c, t)
      BY <2>2, <2>10, <2>12, OpenAIEnds
    <3>2. x.stage = "finished"
      BY <1>3, <2>12
    <3>3. QED BY <3>1, <3>2 DEF OpenAIMatch
  <2>13. CASE ch.finish = "none"
    <3>1. t = u
      BY <2>2, <2>13
    <3>2. x.stage = m4
      BY <1>1, <1>3, <1>7, <2>7, <2>13
    <3>3. CASE m4 = "tools"
      <4>1. x.calls > 0
        <5>1. CASE calls
          BY <1>2, <1>3, <5>1
        <5>2. CASE ~calls
          BY <1>3, <1>7, <2>8, <3>3, <5>2
        <5>3. QED BY <5>1, <5>2
      <4>2. QED BY <2>10, <3>1, <3>2, <3>3, <4>1 DEF OpenAIMatch
    <3>4. CASE m4 # "tools"
      <4>1. ~calls /\ m # "tools"
        BY <2>7, <3>4
      <4>2. x.calls = 0
        BY <1>3, <1>7, <4>1
      <4>3. QED BY <2>10, <3>1, <3>2, <3>4, <4>2 DEF OpenAIMatch
    <3>5. QED BY <3>3, <3>4
  <2>14. QED BY <1>1, <2>11, <2>12, <2>13
<1>8. CASE ~OpenAIOver(c, st) /\ ~ch.error /\ ~(OpenAIEnded(c, st) /\ sent.stage = "finished")
  <2> HIDE DEF t
  <2>1. CASE sent.stage = "new" /\ sent.calls = 0 /\ OpenAIFresh(c, st)
    <3>1. OpenAIMatch(c, t, x)
      BY <1>7, <1>8, <2>1
    <3>2. QED BY <3>1 DEF t, x
  <2>2. CASE /\ sent.stage \in {"new", "thinking", "text"} /\ sent.calls = 0
             /\ OpenAIAt(c, st, sent.stage)
    <3>1. OpenAIMatch(c, t, x)
      BY <1>7, <1>8, <2>2
    <3>2. QED BY <3>1 DEF t, x
  <2>3. CASE /\ sent.stage = "tools" /\ sent.calls > 0 /\ OpenAIAt(c, st, "tools")
             /\ Len(st.tools) = Kept(sent.calls)
    <3>1. OpenAIMatch(c, t, x)
      BY <1>7, <1>8, <2>3
    <3>2. QED BY <3>1 DEF t, x
  <2>4. QED BY <1>8, <2>1, <2>2, <2>3 DEF OpenAIMatch
<1>9. OpenAIOver(c, st) => sent.stage = "finished"
  <2>1. OpenAIOver(c, st) => st.finished
    BY DEF OpenAIOver
  <2>2. QED BY <2>1 DEF OpenAIMatch, OpenAIFresh, OpenAIAt
<1>10. QED BY <1>4, <1>5, <1>6, <1>8, <1>9

\* A translator that matches a client is well typed.
LEMMA OpenAIMatchType ==
  ASSUME NEW c, NEW s, NEW x, OpenAIMatch(c, s, x)
  PROVE  OpenAIType(s)
BY DEF OpenAIMatch, OpenAIFresh, OpenAIAt, OpenAIEnded, OpenAIOver

\* A state with another queue.
LEMMA OpenAITypeOut ==
  ASSUME NEW s, NEW q \in Seq(Events), OpenAIType(s)
  PROVE  LET t == [s EXCEPT !.out = q] IN
         /\ OpenAIType(t) /\ t.out = q
         /\ t.started = s.started /\ t.index = s.index /\ t.finished = s.finished
         /\ t.textOpen = s.textOpen /\ t.thinkingOpen = s.thinkingOpen /\ t.tools = s.tools
<1> DEFINE t == [s EXCEPT !.out = q]
<1>1. /\ t \in OpenAIStates /\ t.out = q
      /\ t.started = s.started /\ t.index = s.index /\ t.finished = s.finished
      /\ t.textOpen = s.textOpen /\ t.thinkingOpen = s.thinkingOpen /\ t.tools = s.tools
  BY DEF OpenAIType, OpenAIStates
<1> HIDE DEF t
<1>2. OpenAIType(t)
  BY <1>1 DEF OpenAIType, LastOpen
<1>3. QED BY <1>1, <1>2 DEF t

\* The queue may be replaced by any that leads another client to the same view.
LEMMA OpenAIMoves ==
  ASSUME NEW c, NEW s, NEW x, NEW q \in Seq(Events), OpenAIMatch(c, s, x)
  PROVE  \E d : /\ Reaches(c, s.out, d)
                /\ \A c2 : Reaches(c2, q, d) => OpenAIMatch(c2, [s EXCEPT !.out = q], x)
<1> DEFINE t == [s EXCEPT !.out = q]
<1>1. /\ OpenAIType(t) /\ t.out = q
      /\ t.started = s.started /\ t.index = s.index /\ t.finished = s.finished
      /\ t.textOpen = s.textOpen /\ t.thinkingOpen = s.thinkingOpen /\ t.tools = s.tools
  BY OpenAIMatchType, OpenAITypeOut
<1> HIDE DEF t
<1> SUFFICES \E d : /\ Reaches(c, s.out, d)
                    /\ \A c2 : Reaches(c2, q, d) => OpenAIMatch(c2, t, x)
  BY DEF t
<1>2. CASE x.stage = "new" /\ x.calls = 0 /\ OpenAIFresh(c, s)
  <2> DEFINE d == View("idle", {}, s.index, Silent)
  <2>1. Reaches(c, s.out, d)
    BY <1>2 DEF OpenAIFresh
  <2>2. ASSUME NEW c2, Reaches(c2, q, d)
        PROVE  OpenAIFresh(c2, t)
    BY <1>1, <1>2, <2>2 DEF OpenAIFresh
  <2>3. QED BY <1>2, <2>1, <2>2 DEF OpenAIMatch
<1>3. ASSUME NEW m, OpenAIAt(c, s, m)
      PROVE  /\ Reaches(c, s.out, OpenAIView(s, m))
             /\ \A c2 : Reaches(c2, q, OpenAIView(s, m)) => OpenAIAt(c2, t, m)
  <2>1. Reaches(c, s.out, OpenAIView(s, m))
    BY <1>3 DEF OpenAIAt
  <2>2. OpenAIView(t, m) = OpenAIView(s, m)
    BY <1>1 DEF OpenAIView, LastBlock
  <2>3. LastIsOpen(t) <=> LastIsOpen(s)
    BY <1>1 DEF LastIsOpen
  <2>4. LastBlock(t) = LastBlock(s)
    BY <1>1 DEF LastBlock
  <2>5. QED BY <1>1, <1>3, <2>1, <2>2, <2>3, <2>4 DEF OpenAIAt
<1>4. CASE x.stage \in {"new", "thinking", "text"} /\ x.calls = 0 /\ OpenAIAt(c, s, x.stage)
  BY <1>3, <1>4 DEF OpenAIMatch
<1>5. CASE /\ x.stage = "tools" /\ x.calls > 0 /\ OpenAIAt(c, s, "tools")
           /\ Len(s.tools) = Kept(x.calls)
  BY <1>1, <1>3, <1>5 DEF OpenAIMatch
<1>6. CASE x.stage = "finished" /\ OpenAIEnded(c, s)
  <2>1. PICK n : Reaches(c, s.out, View("ending", {}, n, Silent))
    BY <1>6 DEF OpenAIEnded
  <2>2. ASSUME NEW c2, Reaches(c2, q, View("ending", {}, n, Silent))
        PROVE  OpenAIEnded(c2, t)
    BY <1>1, <1>6, <2>2 DEF OpenAIEnded
  <2>3. QED BY <1>6, <2>1, <2>2 DEF OpenAIMatch
<1>7. CASE x.stage = "finished" /\ OpenAIOver(c, s)
  <2>1. PICK stage \in {"stopped", "failed"} : \E o, n :
          Reaches(c, s.out, View(stage, o, n, Silent))
    BY <1>7 DEF OpenAIOver
  <2>2. PICK o, n : Reaches(c, s.out, View(stage, o, n, Silent))
    BY <2>1
  <2>3. ASSUME NEW c2, Reaches(c2, q, View(stage, o, n, Silent))
        PROVE  OpenAIOver(c2, t)
    BY <1>1, <1>7, <2>3 DEF OpenAIOver
  <2>4. QED BY <1>7, <2>2, <2>3 DEF OpenAIMatch
<1>8. QED BY <1>2, <1>4, <1>5, <1>6, <1>7 DEF OpenAIMatch

-----------------------------------------------------------------------------
(* The task between an OpenAI-compatible backend and its client *)

\* A task that is broken off has nothing left to send.
TaskInv ==
  /\ done \in BOOLEAN /\ connected \in BOOLEAN /\ client \in Clients
  /\ reader \in {"reading"} \cup Outcomes
  /\ reader = "broken" => st.out = <<>>

\* Whoever might have listened since the client left would be served as well.
OpenAIInv ==
  /\ TaskInv
  /\ sent \in [stage : OpenAI!Stages, calls : 0 .. MaxTools]
  /\ OpenAIType(st)
  /\ reader # "broken" => \E c : OpenAIMatch(c, st, sent) /\ (connected => c = client)

\* A client that has seen nothing.
LEMMA ClientsStart ==
  View("idle", {}, 0, Silent) \in Clients
BY DEF View, Clients, Silent

\* The stream starts with the invariant.
LEMMA OpenAIInit == OpenAI!Init => OpenAIInv
<1> SUFFICES ASSUME OpenAI!Init PROVE OpenAIInv
  OBVIOUS
<1> DEFINE q == <<>>
           w == <<>>
           v == View("idle", {}, 0, Silent)
<1>1. /\ q \in Seq(Events) /\ w \in Seq(ToolStates) /\ Len(w) = 0 /\ q = <<>> /\ w = <<>>
  OBVIOUS
<1>2. client = v
  BY DEF OpenAI!Init, OpenAI!TaskInit, View, Silent, OpenAI!Kinds, Kinds
<1>3. v \in Clients
  BY ClientsStart
<1> HIDE DEF v
<1>4. Reaches(client, q, v)
  BY <1>2, <1>3, ReachesNothing
<1> HIDE DEF q, w
<1>5. /\ st = [started |-> FALSE, index |-> 0, textOpen |-> FALSE,
               thinkingOpen |-> FALSE, tools |-> w, finished |-> FALSE, out |-> q]
      /\ sent = [stage |-> "new", calls |-> 0]
  BY <1>1 DEF OpenAI!Init
<1>6. st \in OpenAIStates
  BY <1>1, <1>5 DEF OpenAIStates
<1>7. OpenAIType(st)
  BY <1>1, <1>5, <1>6, BoundsAssumption DEF OpenAIType, LastOpen
<1>8. /\ ~st.started /\ ~st.finished /\ ~st.thinkingOpen /\ ~st.textOpen
      /\ st.tools = <<>> /\ st.out = q /\ st.index = 0
  BY <1>1, <1>5
<1>9. OpenAIFresh(client, st)
  BY <1>4, <1>7, <1>8 DEF OpenAIFresh, v
<1>10. OpenAIMatch(client, st, sent)
  BY <1>5, <1>9 DEF OpenAIMatch
<1>11. sent \in [stage : OpenAI!Stages, calls : 0 .. MaxTools]
  BY <1>5, BoundsAssumption DEF OpenAI!Stages
<1>12. done = FALSE /\ reader = "reading" /\ connected = TRUE
  BY DEF OpenAI!Init, OpenAI!TaskInit
<1>13. TaskInv
  BY <1>2, <1>3, <1>12 DEF TaskInv
<1>14. QED BY <1>7, <1>10, <1>11, <1>13 DEF OpenAIInv

\* What every step of a task keeps, and what it tells the client.
Legal == [Protocol!Next]_(Protocol!avars)

\* And so is what a client makes of an event.
LEMMA OpenAISharedSees == \A c, e : OpenAI!Sees(c, e) = Sees(c, e)
BY DEF OpenAI!Sees, Sees

\* A step of which the client hears nothing is legal.
LEMMA Unheard == UNCHANGED client => Legal
BY DEF Legal, Protocol!avars

\* The task reads the backend.
LEMMA OpenAIReads ==
  ASSUME Usual("OpenAI"), OpenAIInv, OpenAI!ReadChunk \/ OpenAI!ReadDone \/ OpenAI!ReadEnd
  PROVE  OpenAIInv' /\ Legal
<1>1. reader = "reading" /\ UNCHANGED <<connected, client>>
  BY DEF OpenAI!ReadChunk, OpenAI!ReadDone, OpenAI!ReadEnd, OpenAI!Reading
<1>2. PICK c : OpenAIMatch(c, st, sent) /\ (connected => c = client)
  BY <1>1 DEF OpenAIInv
<1>3. OpenAIMatch(c, st', sent') /\ sent' \in [stage : OpenAI!Stages, calls : 0 .. MaxTools]
  <2>1. CASE OpenAI!ReadChunk
    <3>1. PICK ch \in OpenAI!NextChunks :
            st' = OpenAI!process_chunk(st, ch) /\ sent' = OpenAI!SentAfter(ch)
      BY <2>1 DEF OpenAI!ReadChunk
    <3>2. sent.calls \in Nat /\ sent.calls \in 0 .. MaxTools /\ sent.stage \in OpenAI!Stages
      BY BoundsAssumption DEF OpenAIInv
    <3>3. OpenAIMatch(c, st', sent')
      BY <1>2, <3>1, <3>2, OpenAIChunk
    <3>4. OpenAI!SentAfter(ch).calls \in 0 .. MaxTools
      <4>1. CASE ch.tool # OpenAI!NoTool /\ ch.tool.index = sent.calls
        <5>1. ch.tool \in OpenAI!NextToolCalls
          BY <4>1 DEF OpenAI!NextChunks
        <5>2. sent.calls < MaxTools
          BY <3>2, <4>1, <5>1 DEF OpenAI!NextToolCalls
        <5>3. QED BY <3>2, <4>1, <5>2, BoundsAssumption DEF OpenAI!SentAfter
      <4>2. CASE ~(ch.tool # OpenAI!NoTool /\ ch.tool.index = sent.calls)
        BY <3>2, <4>2 DEF OpenAI!SentAfter
      <4>3. QED BY <4>1, <4>2
    <3>5. OpenAI!SentAfter(ch).stage \in OpenAI!Stages
      BY <3>2 DEF OpenAI!SentAfter, OpenAI!Stages
    <3>6. OpenAI!SentAfter(ch) \in [stage : OpenAI!Stages, calls : 0 .. MaxTools]
      BY <3>4, <3>5 DEF OpenAI!SentAfter
    <3>7. QED BY <3>1, <3>3, <3>6
  <2>2. CASE OpenAI!ReadDone \/ OpenAI!ReadEnd
    <3>1. sent' = sent
      BY <2>2 DEF OpenAI!ReadDone, OpenAI!ReadEnd
    <3>2. CASE st' = st
      BY <1>2, <3>1, <3>2 DEF OpenAIInv
    <3>3. CASE st' # st
      <4>1. sent.stage = "finished" /\ st' = OpenAI!finish(st)
        BY <2>2, <3>3, UsualMeans DEF OpenAI!ReadDone, OpenAI!ReadEnd, OpenAI!MayEnd
      <4>2. OpenAIEnded(c, st) \/ OpenAIOver(c, st)
        BY <1>2, <4>1 DEF OpenAIMatch
      <4>3. OpenAIOver(c, st')
        BY <4>1, <4>2, OpenAIStops
      <4>4. OpenAIMatch(c, st', sent')
        BY <3>1, <4>1, <4>3 DEF OpenAIMatch
      <4>5. QED BY <3>1, <4>4 DEF OpenAIInv
    <3>4. QED BY <3>2, <3>3
  <2>3. QED BY <2>1, <2>2
<1>4. OpenAIType(st)'
  <2>1. OpenAIType(st')
    BY <1>3, OpenAIMatchType
  <2>2. QED BY <2>1 DEF OpenAIType, LastOpen
<1>5. done' \in BOOLEAN /\ reader' \in {"reading", "completed"}
  BY <1>1 DEF OpenAIInv, TaskInv, OpenAI!ReadChunk, OpenAI!ReadDone, OpenAI!ReadEnd
<1>6. TaskInv'
  BY <1>1, <1>5 DEF OpenAIInv, TaskInv, Outcomes
<1>7. OpenAIInv'
  <2>1. connected' => c = client'
    BY <1>1, <1>2
  <2>2. \E k : OpenAIMatch(k, st', sent') /\ (connected' => k = client')
    BY <1>3, <2>1
  <2>3. QED BY <1>3, <1>4, <1>6, <2>2 DEF OpenAIInv
<1>8. QED BY <1>1, <1>7, Unheard

\* An event that was promised is heard, and the rest of the promise stands.
LEMMA TaskSends ==
  ASSUME st.out \in Seq(Events), st.out # <<>>,
         client' = Sees(client, Head(st.out)),
         NEW d, Reaches(client, st.out, d)
  PROVE  /\ client' \in Clients /\ Tail(st.out) \in Seq(Events)
         /\ Reaches(client', Tail(st.out), d)
         /\ Legal
<1>1. /\ client \in Clients /\ Head(st.out) \in Events /\ Fits(client, Head(st.out))
      /\ Reaches(client', Tail(st.out), d)
  BY ReachesFirst
<1>2. client' \in Clients
  BY <1>1, SeesType
<1>3. Legal
  BY <1>1, FittingIsLegal DEF Legal
<1>4. QED BY <1>1, <1>2, <1>3

\* The task sends an event.
LEMMA OpenAISends ==
  ASSUME OpenAIInv, OpenAI!Send
  PROVE  OpenAIInv' /\ Legal
<1> DEFINE q == Tail(st.out)
<1>1. /\ connected /\ st.out # <<>> /\ st' = [st EXCEPT !.out = q]
      /\ client' = Sees(client, Head(st.out)) /\ UNCHANGED <<sent, done, reader, connected>>
  BY OpenAISharedSees DEF OpenAI!Send
<1>2. OpenAIMatch(client, st, sent)
  BY <1>1 DEF OpenAIInv, TaskInv
<1>3. st.out \in Seq(Events)
  BY DEF OpenAIInv, OpenAIType, OpenAIStates
<1>4. q \in Seq(Events)
  BY <1>1, <1>3
<1> HIDE DEF q
<1>5. PICK d : /\ Reaches(client, st.out, d)
               /\ \A c2 : Reaches(c2, q, d) => OpenAIMatch(c2, [st EXCEPT !.out = q], sent)
  BY <1>2, <1>4, OpenAIMoves
<1>6. client' \in Clients /\ Reaches(client', q, d) /\ Legal
  BY <1>1, <1>3, <1>5, TaskSends DEF q
<1>7. OpenAIMatch(client', st', sent')
  BY <1>1, <1>5, <1>6
<1>8. OpenAIType(st)'
  <2>1. OpenAIType(st')
    BY <1>7, OpenAIMatchType
  <2>2. QED BY <2>1 DEF OpenAIType, LastOpen
<1>9. TaskInv'
  BY <1>1, <1>6 DEF OpenAIInv, TaskInv
<1>10. sent' \in [stage : OpenAI!Stages, calls : 0 .. MaxTools]
  BY <1>1 DEF OpenAIInv
<1>11. QED BY <1>6, <1>7, <1>8, <1>9, <1>10 DEF OpenAIInv

\* The task is broken off, or the client leaves.
LEMMA OpenAIDrops ==
  ASSUME OpenAIInv,
         OpenAI!ReadError \/ OpenAI!TimeOut \/ OpenAI!Leave \/ OpenAI!SendFails
         \/ UNCHANGED <<vars, backend>>
  PROVE  OpenAIInv' /\ Legal
<1> USE DEF Outcomes
<1>1. CASE OpenAI!ReadError
  <2>1. /\ reader = "reading" /\ st.out = <<>> /\ reader' = "broken"
        /\ UNCHANGED <<sent, st, done, connected, client>>
    BY <1>1 DEF OpenAI!ReadError, OpenAI!Reading
  <2>2. TaskInv' /\ OpenAIType(st)'
    BY <2>1 DEF OpenAIInv, TaskInv, OpenAIType, LastOpen
  <2>3. QED BY <2>1, <2>2, Unheard DEF OpenAIInv
<1>2. CASE OpenAI!TimeOut
  <2> DEFINE q == <<>>
  <2>1. /\ reader = "reading" /\ st' = [st EXCEPT !.out = q] /\ reader' = "broken"
        /\ UNCHANGED <<sent, done, connected, client>>
    BY <1>2 DEF OpenAI!TimeOut
  <2>2. q \in Seq(Events) /\ q = <<>>
    OBVIOUS
  <2> HIDE DEF q
  <2>3. OpenAIType(st') /\ st'.out = q
    BY <2>1, <2>2, OpenAITypeOut DEF OpenAIInv
  <2>4. TaskInv' /\ OpenAIType(st)'
    BY <2>1, <2>2, <2>3 DEF OpenAIInv, TaskInv, OpenAIType, LastOpen
  <2>5. QED BY <2>1, <2>4, Unheard DEF OpenAIInv
<1>3. CASE OpenAI!Leave
  <2>1. connected' = FALSE /\ UNCHANGED <<sent, st, done, reader, client>>
    BY <1>3 DEF OpenAI!Leave
  <2>2. TaskInv' /\ OpenAIType(st)'
    BY <2>1 DEF OpenAIInv, TaskInv, OpenAIType, LastOpen
  <2>3. (reader # "broken" => \E c : OpenAIMatch(c, st, sent) /\ (connected => c = client))'
    <3>1. ASSUME reader # "broken"
          PROVE  \E c : OpenAIMatch(c, st', sent') /\ (connected' => c = client')
      <4>1. PICK c : OpenAIMatch(c, st, sent)
        BY <3>1 DEF OpenAIInv
      <4>2. OpenAIMatch(c, st', sent')
        BY <2>1, <4>1
      <4>3. QED BY <2>1, <4>2
    <3>2. QED BY <2>1, <3>1
  <2>4. QED BY <2>1, <2>2, <2>3, Unheard DEF OpenAIInv
<1>4. CASE OpenAI!SendFails
  <2> DEFINE q == <<>>
  <2>1. /\ ~connected /\ st.out # <<>> /\ st' = [st EXCEPT !.out = q]
        /\ reader' \in {reader, "disconnected"} /\ UNCHANGED <<sent, done, connected, client>>
    BY <1>4 DEF OpenAI!SendFails, OpenAI!DropEvents
  <2>2. q \in Seq(Events) /\ q = <<>> /\ reader # "broken"
    BY <2>1 DEF OpenAIInv, TaskInv
  <2> HIDE DEF q
  <2>3. OpenAIType(st') /\ st'.out = q
    BY <2>1, <2>2, OpenAITypeOut DEF OpenAIInv
  <2>4. TaskInv' /\ OpenAIType(st)'
    BY <2>1, <2>2, <2>3 DEF OpenAIInv, TaskInv, OpenAIType, LastOpen
  <2>5. \E d : OpenAIMatch(d, st', sent')
    <3>1. PICK c : OpenAIMatch(c, st, sent)
      BY <2>2 DEF OpenAIInv
    <3>2. PICK d : /\ Reaches(c, st.out, d)
                   /\ \A c2 : Reaches(c2, q, d) => OpenAIMatch(c2, [st EXCEPT !.out = q], sent)
      BY <2>2, <3>1, OpenAIMoves
    <3>3. st.out \in Seq(Events)
      BY DEF OpenAIInv, OpenAIType, OpenAIStates
    <3>4. Reaches(d, q, d)
      BY <2>2, <3>2, <3>3, ReachesType, ReachesNothing
    <3>5. QED BY <2>1, <3>2, <3>4
  <2>6. QED BY <2>1, <2>4, <2>5, Unheard DEF OpenAIInv
<1>5. CASE UNCHANGED <<vars, backend>>
  <2>1. TaskInv' /\ OpenAIType(st)' /\ UNCHANGED <<sent, st, done, reader, connected, client>>
    BY <1>5 DEF vars, OpenAIInv, TaskInv, OpenAIType, LastOpen
  <2>2. (reader # "broken" => \E c : OpenAIMatch(c, st, sent) /\ (connected => c = client))'
    <3>1. ASSUME reader # "broken"
          PROVE  \E c : OpenAIMatch(c, st', sent') /\ (connected' => c = client')
      <4>1. PICK c : OpenAIMatch(c, st, sent) /\ (connected => c = client)
        BY <3>1 DEF OpenAIInv
      <4>2. OpenAIMatch(c, st', sent')
        BY <2>1, <4>1
      <4>3. QED BY <2>1, <4>1, <4>2
    <3>2. QED BY <2>1, <3>1
  <2>3. QED BY <2>1, <2>2, Unheard DEF OpenAIInv
<1>6. QED BY <1>1, <1>2, <1>3, <1>4, <1>5

\* Every step of the task.
LEMMA OpenAISteps ==
  ASSUME Usual("OpenAI"), OpenAIInv, OpenAI!Next \/ UNCHANGED <<vars, backend>>
  PROVE  OpenAIInv' /\ Legal
BY OpenAIReads, OpenAISends, OpenAIDrops DEF OpenAI!Next

\* Between two chunks the queue is empty, and the client where the stage says.
LEMMA OpenAIInStep == OpenAIInv => OpenAI!InStep
<1> SUFFICES ASSUME OpenAIInv, OpenAI!Reading, connected
             PROVE  /\ ~st.finished => /\ client.open = OpenAI!OpenBlocks
                                       /\ st.started <=> client.stage # "idle"
                    /\ st.finished <=> client.stage \in {"stopped", "failed"}
  BY DEF OpenAI!InStep
<1>1. reader = "reading" /\ st.out = <<>>
  BY DEF OpenAI!Reading
<1>2. OpenAIMatch(client, st, sent)
  BY <1>1 DEF OpenAIInv
<1>3. \A d : Reaches(client, st.out, d) => client = d
  BY <1>1, ReachesSame
<1>4. /\ st.index \in Nat /\ st.tools \in Seq(ToolStates) /\ LastOpen(st)
      /\ DOMAIN st.tools = 1 .. Len(st.tools) /\ Len(st.tools) \in Nat
  BY DEF OpenAIInv, OpenAIType, OpenAIStates
<1> DEFINE blocks == {[index |-> t.block, kind |-> "tool"] :
                        t \in {st.tools[i] : i \in {j \in DOMAIN st.tools : ~st.tools[j].closed}}}
<1>5. st.tools = <<>> => blocks = {}
  <2>1. ASSUME st.tools = <<>>
        PROVE  blocks = {}
    <3>1. DOMAIN st.tools = {}
      BY <1>4, <2>1
    <3>2. QED BY <3>1
  <2>2. QED BY <2>1
<1>6. OpenAI!OpenBlocks =
        (IF st.textOpen THEN {[index |-> st.index, kind |-> "text"]} ELSE {})
        \cup (IF st.thinkingOpen THEN {[index |-> st.index, kind |-> "thinking"]} ELSE {})
        \cup blocks
  BY DEF OpenAI!OpenBlocks
<1>7. CASE OpenAIFresh(client, st)
  <2>1. client = View("idle", {}, st.index, Silent)
    BY <1>3, <1>7 DEF OpenAIFresh
  <2>2. OpenAI!OpenBlocks = {} /\ ~st.started /\ ~st.finished
    BY <1>5, <1>6, <1>7 DEF OpenAIFresh
  <2>3. QED BY <2>1, <2>2 DEF View
<1>8. CASE OpenAIEnded(client, st)
  <2>1. PICK n : client = View("ending", {}, n, Silent)
    BY <1>3, <1>8 DEF OpenAIEnded
  <2>2. OpenAI!OpenBlocks = {} /\ st.started /\ ~st.finished
    BY <1>5, <1>6, <1>8 DEF OpenAIEnded
  <2>3. QED BY <2>1, <2>2 DEF View
<1>9. CASE OpenAIOver(client, st)
  <2>1. PICK stage \in {"stopped", "failed"} : \E o, n :
          Reaches(client, st.out, View(stage, o, n, Silent))
    BY <1>9 DEF OpenAIOver
  <2>2. PICK o, n : client = View(stage, o, n, Silent)
    BY <1>3, <2>1
  <2>3. st.finished /\ client.stage = stage
    BY <1>9, <2>2 DEF OpenAIOver, View
  <2>4. QED BY <2>3
<1>10. CASE OpenAIAt(client, st, "tools")
  <2>1. client = View("open", {[index |-> LastBlock(st), kind |-> "tool"]},
                      st.index + Len(st.tools), Silent)
    BY <1>3, <1>10 DEF OpenAIAt, OpenAIView
  <2>2. LastIsOpen(st) /\ ~st.textOpen /\ ~st.thinkingOpen /\ st.started /\ ~st.finished
    BY <1>10 DEF OpenAIAt
  <2>3. {j \in DOMAIN st.tools : ~st.tools[j].closed} = {Len(st.tools)}
    <3>1. Len(st.tools) \in DOMAIN st.tools /\ ~st.tools[Len(st.tools)].closed
      BY <1>4, <2>2 DEF LastIsOpen
    <3>2. \A j \in DOMAIN st.tools : ~st.tools[j].closed => j = Len(st.tools)
      BY <1>4 DEF LastOpen
    <3>3. QED BY <3>1, <3>2
  <2>4. blocks = {[index |-> LastBlock(st), kind |-> "tool"]}
    BY <2>3 DEF LastBlock
  <2>5. client.open = blocks /\ client.stage = "open"
    BY <2>1, <2>4 DEF View
  <2>6. QED BY <1>6, <2>2, <2>5
<1>11. ASSUME NEW m \in {"new", "thinking", "text"}, OpenAIAt(client, st, m)
       PROVE  /\ ~st.finished => /\ client.open = OpenAI!OpenBlocks
                                 /\ st.started <=> client.stage # "idle"
              /\ st.finished <=> client.stage \in {"stopped", "failed"}
  <2>1. client = View("open", IF m = "new" THEN {} ELSE {[index |-> st.index, kind |-> m]},
                      IF m = "new" THEN st.index ELSE st.index + 1, Silent)
    BY <1>3, <1>11 DEF OpenAIAt, OpenAIView
  <2>2. /\ st.started /\ ~st.finished /\ st.tools = <<>>
        /\ st.textOpen <=> m = "text"
        /\ st.thinkingOpen <=> m = "thinking"
    BY <1>11 DEF OpenAIAt
  <2>3. client.stage = "open"
        /\ client.open = IF m = "new" THEN {} ELSE {[index |-> st.index, kind |-> m]}
    BY <2>1 DEF View
  <2>4. blocks = {}
    BY <1>5, <2>2
  <2>5. client.open = OpenAI!OpenBlocks
    BY <1>6, <2>2, <2>3, <2>4
  <2>6. QED BY <2>2, <2>3, <2>5
<1>12. QED BY <1>2, <1>7, <1>8, <1>9, <1>10, <1>11 DEF OpenAIMatch

-----------------------------------------------------------------------------
(* The translator of a Responses backend *)

ResponsesStates == [started : BOOLEAN, index : Nat, open : BOOLEAN, depth : Nat,
                    finished : BOOLEAN, out : Seq(Events)]

\* The translator's copies of the operators of StreamTask are the same.
LEMMA ResponsesShared ==
  /\ \A s, e : Responses!Emit(s, e) = Emit(s, e)
  /\ \A t, i, k : Responses!Block(t, i, k) = Block(t, i, k)
  /\ \A i : Responses!BlockStop(i) = BlockStop(i)
  /\ \A t : Responses!Plain(t) = Plain(t)
  /\ \A s : Responses!BeginMessage(s) = BeginMessage(s)
  /\ \A c, e : Responses!Sees(c, e) = Sees(c, e)
BY DEF Responses!Emit, Emit, Responses!Block, Block, Responses!BlockStop, BlockStop,
       Responses!Plain, Plain, Responses!Sized, Sized, Responses!BeginMessage,
       BeginMessage, Responses!Sees, Sees

\* An event is put into the queue, and nothing else changes.
LEMMA ResponsesEmit ==
  ASSUME NEW s \in ResponsesStates, NEW e \in Events
  PROVE  /\ Emit(s, e) \in ResponsesStates
         /\ Emit(s, e).out = Append(s.out, e)
         /\ Emit(s, e).started = s.started /\ Emit(s, e).index = s.index
         /\ Emit(s, e).open = s.open /\ Emit(s, e).depth = s.depth
         /\ Emit(s, e).finished = s.finished
<1> DEFINE q == Append(s.out, e)
<1>1. q \in Seq(Events)
  BY DEF ResponsesStates
<1>2. Emit(s, e) = [s EXCEPT !.out = q]
  BY DEF Emit
<1> HIDE DEF q
<1>3. LET t == [s EXCEPT !.out = q] IN
      /\ t \in ResponsesStates /\ t.out = q /\ t.started = s.started /\ t.index = s.index
      /\ t.open = s.open /\ t.depth = s.depth /\ t.finished = s.finished
  BY <1>1 DEF ResponsesStates
<1>4. QED BY <1>2, <1>3 DEF q

\* Where the queue leads the client while the backend fills a block of kind k.
ResponsesView(s, k) ==
  IF k = "none" THEN View("open", {}, s.index, Silent)
  ELSE View("open", {[index |-> s.index, kind |-> k]}, s.index + 1, Silent)

Fillings == {"none", "text", "tool"}

ResponsesAt(c, s, k) ==
  /\ s \in ResponsesStates /\ s.started /\ ~s.finished
  /\ s.open <=> k # "none"
  /\ Reaches(c, s.out, ResponsesView(s, k))

ResponsesFresh(c, s) ==
  /\ s \in ResponsesStates /\ ~s.started /\ ~s.finished /\ ~s.open
  /\ Reaches(c, s.out, View("idle", {}, s.index, Silent))

ResponsesOver(c, s) ==
  /\ s \in ResponsesStates /\ s.finished
  /\ \E stage \in {"stopped", "failed"} : \E o, n :
       Reaches(c, s.out, View(stage, o, n, Silent))

\* The message begins.
LEMMA ResponsesBegins ==
  ASSUME NEW c, NEW s, ResponsesFresh(c, s)
  PROVE  ResponsesAt(c, Responses!BeginMessage(s), "none")
         /\ Responses!BeginMessage(s).depth = s.depth
<1> DEFINE b == [s EXCEPT !.started = TRUE]
           t == Emit(b, Plain("message_start"))
<1>1. Responses!BeginMessage(s) = t
  BY ResponsesShared DEF BeginMessage, ResponsesFresh
<1>2. /\ b \in ResponsesStates /\ b.started /\ b.out = s.out /\ b.index = s.index
      /\ b.open = s.open /\ b.depth = s.depth /\ b.finished = s.finished
  BY DEF ResponsesFresh, ResponsesStates
<1> HIDE DEF b
<1>3. Plain("message_start") \in Events
  BY EventTypes
<1>4. /\ t \in ResponsesStates /\ t.started /\ t.out = Append(s.out, Plain("message_start"))
      /\ t.index = s.index /\ t.open = s.open /\ t.depth = s.depth /\ t.finished = s.finished
  BY <1>2, <1>3, ResponsesEmit
<1> HIDE DEF t
<1>5. Reaches(c, t.out, View("open", {}, t.index, Silent))
  <2>1. s.out \in Seq(Events)
    BY DEF ResponsesFresh, ResponsesStates
  <2>2. QED BY <1>4, <2>1, ReachesBegin DEF ResponsesFresh
<1>6. ~t.finished /\ ~t.open
  BY <1>4 DEF ResponsesFresh
<1>7. ResponsesAt(c, t, "none")
  BY <1>4, <1>5, <1>6 DEF ResponsesAt, ResponsesView
<1>8. QED BY <1>1, <1>4, <1>7

\* A block is opened.
LEMMA ResponsesOpens ==
  ASSUME NEW c, NEW s, NEW k \in {"text", "tool"}, ResponsesAt(c, s, "none")
  PROVE  ResponsesAt(c, Responses!Open(s, k), k) /\ Responses!Open(s, k).depth = s.depth
<1> DEFINE b == [s EXCEPT !.open = TRUE]
           e == Block("block_start", s.index, k)
           t == Emit(b, e)
<1>1. Responses!Open(s, k) = t
  BY ResponsesShared DEF Responses!Open
<1>2. /\ b \in ResponsesStates /\ b.started = s.started /\ b.out = s.out
      /\ b.index = s.index /\ b.open /\ b.depth = s.depth /\ b.finished = s.finished
  BY DEF ResponsesAt, ResponsesStates
<1> HIDE DEF b
<1>0. s.out \in Seq(Events) /\ s.index \in Nat /\ k \in Kinds
  BY DEF ResponsesAt, ResponsesStates, Kinds
<1>3. e \in Events
  BY <1>0, EventTypes
<1> HIDE DEF e
<1>4. /\ t \in ResponsesStates /\ t.started = s.started /\ t.out = Append(s.out, e)
      /\ t.index = s.index /\ t.open /\ t.depth = s.depth /\ t.finished = s.finished
  BY <1>2, <1>3, ResponsesEmit
<1> HIDE DEF t
<1>5. Reaches(c, s.out, View("open", {}, s.index, Silent))
  BY DEF ResponsesAt, ResponsesView
<1>6. Reaches(c, t.out, View("open", {[index |-> s.index, kind |-> k]}, s.index + 1, Silent))
  BY <1>0, <1>4, <1>5, ReachesOpen DEF e
<1>7. t.started /\ ~t.finished /\ k # "none"
  BY <1>4 DEF ResponsesAt
<1>8. ResponsesAt(c, t, k)
  BY <1>4, <1>6, <1>7 DEF ResponsesAt, ResponsesView
<1>9. QED BY <1>1, <1>4, <1>8

\* A block is filled.
LEMMA ResponsesMore ==
  ASSUME NEW c, NEW s, NEW k \in {"text", "tool"}, ResponsesAt(c, s, k)
  PROVE  ResponsesAt(c, Responses!Delta(s, k), k) /\ Responses!Delta(s, k).depth = s.depth
<1> DEFINE e == Block("block_delta", s.index, k)
           t == Emit(s, e)
<1>1. Responses!Delta(s, k) = t
  BY ResponsesShared DEF Responses!Delta
<1>2. s \in ResponsesStates /\ s.out \in Seq(Events) /\ s.index \in Nat /\ k \in Kinds
  BY DEF ResponsesAt, ResponsesStates, Kinds
<1>3. e \in Events
  BY <1>2, EventTypes
<1> HIDE DEF e
<1>4. /\ t \in ResponsesStates /\ t.started = s.started /\ t.out = Append(s.out, e)
      /\ t.index = s.index /\ t.open = s.open /\ t.depth = s.depth /\ t.finished = s.finished
  BY <1>2, <1>3, ResponsesEmit
<1> HIDE DEF t
<1>5. Reaches(c, s.out, View("open", {[index |-> s.index, kind |-> k]}, s.index + 1, Silent))
  BY DEF ResponsesAt, ResponsesView
<1>6. Reaches(c, t.out, View("open", {[index |-> s.index, kind |-> k]}, s.index + 1, Silent))
  BY <1>2, <1>4, <1>5, ReachesQuietDelta DEF e
<1>7. t.started /\ ~t.finished /\ t.open /\ k # "none"
  BY <1>4 DEF ResponsesAt
<1>8. ResponsesAt(c, t, k)
  BY <1>4, <1>6, <1>7 DEF ResponsesAt, ResponsesView
<1>9. QED BY <1>1, <1>4, <1>8

\* A block is closed, if there is one.
LEMMA ResponsesCloses ==
  ASSUME NEW c, NEW s, NEW k \in Fillings, ResponsesAt(c, s, k)
  PROVE  ResponsesAt(c, Responses!Close(s), "none") /\ Responses!Close(s).depth = s.depth
<1>1. CASE k = "none"
  <2>1. Responses!Close(s) = s
    BY <1>1 DEF Responses!Close, ResponsesAt
  <2>2. QED BY <1>1, <2>1
<1>2. CASE k # "none"
  <2> DEFINE b == [s EXCEPT !.open = FALSE, !.index = s.index + 1]
             e == BlockStop(s.index)
             t == Emit(b, e)
  <2>1. Responses!Close(s) = t
    BY <1>2, ResponsesShared DEF Responses!Close, ResponsesAt
  <2>2. s \in ResponsesStates /\ s.out \in Seq(Events) /\ s.index \in Nat
        /\ s.index + 1 \in Nat /\ k \in Kinds
    BY <1>2 DEF ResponsesAt, ResponsesStates, Kinds, Fillings
  <2>3. \A n \in Nat :
          LET w == [s EXCEPT !.open = FALSE, !.index = n] IN
          /\ w \in ResponsesStates /\ w.started = s.started /\ w.out = s.out
          /\ w.index = n /\ ~w.open /\ w.depth = s.depth /\ w.finished = s.finished
    BY <2>2 DEF ResponsesStates
  <2>4. /\ b \in ResponsesStates /\ b.started = s.started /\ b.out = s.out
        /\ b.index = s.index + 1 /\ ~b.open /\ b.depth = s.depth /\ b.finished = s.finished
    BY <2>2, <2>3
  <2> HIDE DEF b
  <2>5. e \in Events
    BY <2>2, EventTypes
  <2> HIDE DEF e
  <2>6. /\ t \in ResponsesStates /\ t.started = s.started /\ t.out = Append(s.out, e)
        /\ t.index = s.index + 1 /\ ~t.open /\ t.depth = s.depth /\ t.finished = s.finished
    BY <2>4, <2>5, ResponsesEmit
  <2> HIDE DEF t
  <2>7. Reaches(c, s.out, View("open", {[index |-> s.index, kind |-> k]}, s.index + 1, Silent))
    BY <1>2 DEF ResponsesAt, ResponsesView
  <2>8. Reaches(c, t.out, View("open", {}, s.index + 1, Silent))
    BY <2>2, <2>6, <2>7, ReachesClose DEF e
  <2>9. t.started /\ ~t.finished
    BY <2>6 DEF ResponsesAt
  <2>10. ResponsesAt(c, t, "none")
    BY <2>6, <2>8, <2>9 DEF ResponsesAt, ResponsesView
  <2>11. QED BY <2>1, <2>6, <2>10
<1>3. QED BY <1>1, <1>2

\* The depth of open calls is nothing the client sees.
LEMMA ResponsesDeeper ==
  ASSUME NEW c, NEW s, NEW k, NEW n \in Nat, ResponsesAt(c, s, k)
  PROVE  ResponsesAt(c, [s EXCEPT !.depth = n], k) /\ [s EXCEPT !.depth = n].depth = n
<1> DEFINE t == [s EXCEPT !.depth = n]
<1>1. /\ t \in ResponsesStates /\ t.started = s.started /\ t.out = s.out
      /\ t.index = s.index /\ t.open = s.open /\ t.depth = n /\ t.finished = s.finished
  BY DEF ResponsesAt, ResponsesStates
<1> HIDE DEF t
<1>2. ResponsesView(t, k) = ResponsesView(s, k)
  BY <1>1 DEF ResponsesView
<1>3. ResponsesAt(c, t, k)
  BY <1>1, <1>2 DEF ResponsesAt
<1>4. QED BY <1>1, <1>3 DEF t

\* A state that is finished.
LEMMA ResponsesFinishing ==
  ASSUME NEW s \in ResponsesStates
  PROVE  LET t == [s EXCEPT !.finished = TRUE] IN
         t \in ResponsesStates /\ t.finished /\ t.out = s.out /\ t.depth = s.depth
BY DEF ResponsesStates

\* The message ends.
LEMMA ResponsesEnds ==
  ASSUME NEW c, NEW s, NEW k \in Fillings, ResponsesAt(c, s, k)
  PROVE  ResponsesOver(c, Responses!EndMessage(s))
         /\ Responses!EndMessage(s).depth = s.depth
<1> DEFINE b == Responses!Close(s)
           f == [b EXCEPT !.finished = TRUE]
           d == Emit(f, Plain("message_delta"))
           t == Emit(d, Plain("message_stop"))
<1>1. Responses!EndMessage(s) = t
  BY ResponsesShared DEF Responses!EndMessage
<1>2. ResponsesAt(c, b, "none") /\ b.depth = s.depth
  BY ResponsesCloses
<1> HIDE DEF b
<1>3. f \in ResponsesStates /\ f.finished /\ f.out = b.out /\ f.depth = s.depth
  BY <1>2, ResponsesFinishing DEF ResponsesAt
<1> HIDE DEF f
<1>4. Plain("message_delta") \in Events /\ Plain("message_stop") \in Events
  BY EventTypes
<1>5. /\ d \in ResponsesStates /\ d.finished /\ d.depth = s.depth
      /\ d.out = Append(b.out, Plain("message_delta"))
  BY <1>3, <1>4, ResponsesEmit
<1> HIDE DEF d
<1>6. /\ t \in ResponsesStates /\ t.finished /\ t.depth = s.depth
      /\ t.out = Append(d.out, Plain("message_stop"))
  BY <1>4, <1>5, ResponsesEmit
<1> HIDE DEF t
<1>7. b.out \in Seq(Events) /\ d.out \in Seq(Events)
  BY <1>2, <1>5 DEF ResponsesAt, ResponsesStates
<1>8. Reaches(c, b.out, View("open", {}, b.index, Silent))
  BY <1>2 DEF ResponsesAt, ResponsesView
<1>9. Reaches(c, d.out, View("ending", {}, b.index, Silent))
  BY <1>5, <1>7, <1>8, ReachesEnd
<1>10. Reaches(c, t.out, View("stopped", {}, b.index, Silent))
  BY <1>6, <1>7, <1>9, ReachesStop
<1>11. ResponsesOver(c, t)
  BY <1>6, <1>10 DEF ResponsesOver
<1>12. QED BY <1>1, <1>6, <1>11

\* The message fails.
LEMMA ResponsesFails ==
  ASSUME NEW c, NEW s, NEW k \in Fillings, ResponsesAt(c, s, k)
  PROVE  ResponsesOver(c, Responses!handle_error(s))
         /\ Responses!handle_error(s).depth = s.depth
<1> DEFINE f == [s EXCEPT !.finished = TRUE]
           t == Emit(f, Plain("error"))
<1>1. Responses!handle_error(s) = t
  BY ResponsesShared DEF Responses!handle_error
<1>2. f \in ResponsesStates /\ f.finished /\ f.out = s.out /\ f.depth = s.depth
  BY ResponsesFinishing DEF ResponsesAt
<1> HIDE DEF f
<1>3. Plain("error") \in Events
  BY EventTypes
<1>4. /\ t \in ResponsesStates /\ t.finished /\ t.depth = s.depth
      /\ t.out = Append(s.out, Plain("error"))
  BY <1>2, <1>3, ResponsesEmit
<1> HIDE DEF t
<1>5. PICK o, n : Reaches(c, s.out, View("open", o, n, Silent))
  BY DEF ResponsesAt, ResponsesView
<1>6. Reaches(c, t.out, View("failed", o, n, Silent))
  <2>1. s.out \in Seq(Events)
    BY DEF ResponsesAt, ResponsesStates
  <2>2. Reaches(c, Append(s.out, Plain("error")), View("failed", o, n, Silent))
    BY <1>5, <2>1, ReachesFail
  <2>3. QED BY <1>4, <2>2
<1>7. ResponsesOver(c, t)
  BY <1>4, <1>6 DEF ResponsesOver
<1>8. QED BY <1>1, <1>4, <1>7

-----------------------------------------------------------------------------
(* The translator of a Responses backend: usual answers *)

\* The backend fills a block of kind k, one item and one part at a time.
Filling(x, k) ==
  CASE k = "none" -> ~x.part /\ x.items \in {{}, {"message"}, {"other"}}
    [] k = "text" -> x.part /\ x.items = {"message"}
    [] k = "tool" -> ~x.part /\ x.items = {"function_call"}

ResponsesMatch(c, s, x) ==
  /\ s.depth <= x.count
  /\ \/ /\ x.stage = "new" /\ ~x.part /\ x.items = {} /\ s.depth = 0
        /\ ResponsesFresh(c, s)
     \/ /\ x.stage # "new"
        /\ \E k \in Fillings : /\ Filling(x, k) /\ ResponsesAt(c, s, k)
                               /\ s.depth = IF k = "tool" THEN 1 ELSE 0
     \/ x.stage # "new" /\ ResponsesOver(c, s)

\* An event in the course of the message.
LEMMA ResponsesFilling ==
  ASSUME NEW c, Usual("OpenAIResponses"), sent.count \in Nat, sent.part \in BOOLEAN,
         NEW k \in Fillings, Filling(sent, k), ResponsesAt(c, st, k),
         st.depth <= sent.count, st.depth = IF k = "tool" THEN 1 ELSE 0,
         sent.stage # "new",
         NEW e \in Responses!NextEvents
  PROVE  ResponsesMatch(c, Responses!process_event(st, e), Responses!SentAfter(e))
<1> DEFINE t == Responses!process_event(st, e)
           x == Responses!SentAfter(e)
<1>1. /\ e.type \in {"item_added", "part_added", "text_delta", "part_done", "item_done",
                     "arguments_delta", "completed", "failed", "incomplete"}
      /\ e.item \in {"message", "function_call", "other"}
      /\ e.type = "item_added" => sent.items = {}
      /\ e.type = "item_done" => e.item \in sent.items /\ (e.item = "message" => ~sent.part)
      /\ e.type = "part_added" => "message" \in sent.items /\ ~sent.part
      /\ e.type \in {"text_delta", "part_done"} => sent.part
      /\ e.type = "arguments_delta" => "function_call" \in sent.items
      /\ e.type \in {"completed", "incomplete"} => sent.items = {}
  BY UsualMeans DEF Responses!NextEvents, Responses!ItemTypes
<1>2. st.started /\ ~st.finished /\ st \in ResponsesStates
  BY DEF ResponsesAt
<1>3. Responses!BeginMessage(st) = st
  BY <1>2, ResponsesShared DEF BeginMessage
<1>4. /\ x.stage # "new"
      /\ x.items = CASE e.type = "item_added" -> sent.items \cup {e.item}
                     [] e.type = "item_done"  -> sent.items \ {e.item}
                     [] OTHER                 -> sent.items
      /\ x.part = CASE e.type = "part_added" -> TRUE
                    [] e.type = "part_done"  -> FALSE
                    [] OTHER                 -> sent.part
      /\ x.count = IF e.type \in {"item_added", "part_added"} THEN sent.count + 1
                   ELSE sent.count
  BY DEF Responses!SentAfter
<1> SUFFICES ResponsesMatch(c, t, x)
  OBVIOUS
<1>5. ASSUME NEW j \in Fillings, Filling(x, j), ResponsesAt(c, t, j),
             t.depth = (IF j = "tool" THEN 1 ELSE 0), t.depth <= x.count
      PROVE  ResponsesMatch(c, t, x)
  BY <1>4, <1>5 DEF ResponsesMatch
<1>6. ASSUME ResponsesOver(c, t), t.depth = st.depth
      PROVE  ResponsesMatch(c, t, x)
  <2>1. t.depth <= x.count
    BY <1>4, <1>6
  <2>2. QED BY <1>4, <1>6, <2>1 DEF ResponsesMatch
<1> USE DEF Fillings
<1>7. CASE e.type = "item_added" /\ e.item = "function_call"
  <2>1. k = "none" /\ sent.items = {} /\ ~sent.part /\ st.depth = 0
    BY <1>1, <1>7 DEF Filling
  <2> DEFINE o == Responses!Open(Responses!Close(st), "tool")
             m == o.depth + 1
  <2>2. ResponsesAt(c, Responses!Close(st), "none") /\ Responses!Close(st).depth = 0
    BY <2>1, ResponsesCloses
  <2>3. ResponsesAt(c, o, "tool") /\ o.depth = 0
    BY <2>2, ResponsesOpens
  <2>4. t = [o EXCEPT !.depth = m]
    BY <1>2, <1>3, <1>7 DEF Responses!process_event, Responses!handle_output_item_added
  <2> HIDE DEF o
  <2>5. m = 1 /\ m \in Nat
    BY <2>3
  <2> HIDE DEF m, t
  <2>6. ResponsesAt(c, t, "tool") /\ t.depth = 1
    BY <2>3, <2>4, <2>5, ResponsesDeeper
  <2>7. x.items = {"function_call"} /\ x.part = sent.part /\ x.count = sent.count + 1
    BY <1>4, <1>7, <2>1
  <2> HIDE DEF x
  <2>8. Filling(x, "tool")
    BY <2>1, <2>7 DEF Filling
  <2>9. t.depth <= x.count
    BY <2>6, <2>7
  <2>10. QED BY <1>5, <2>6, <2>8, <2>9 DEF x, t
<1>8. CASE e.type = "item_added" /\ e.item # "function_call"
  <2>1. k = "none" /\ sent.items = {} /\ ~sent.part /\ st.depth = 0
    BY <1>1, <1>8 DEF Filling
  <2>2. t = st
    BY <1>2, <1>3, <1>8 DEF Responses!process_event, Responses!handle_output_item_added
  <2>3. x.items = {e.item} /\ x.part = sent.part /\ x.count = sent.count + 1
    BY <1>4, <1>8, <2>1
  <2> HIDE DEF x, t
  <2>4. Filling(x, "none")
    BY <1>1, <1>8, <2>1, <2>3 DEF Filling
  <2>5. t.depth <= x.count
    BY <2>1, <2>2, <2>3
  <2>6. QED BY <1>5, <2>1, <2>2, <2>4, <2>5 DEF x, t
<1>9. CASE e.type = "part_added"
  <2>1. k = "none" /\ sent.items = {"message"} /\ ~sent.part /\ st.depth = 0
    <3>1. "message" \in sent.items /\ ~sent.part
      BY <1>1, <1>9
    <3>2. k # "text" /\ k # "tool"
      <4>1. k = "text" => sent.part
        BY DEF Filling
      <4>2. k = "tool" => sent.items = {"function_call"}
        BY DEF Filling
      <4>3. "message" \notin {"function_call"}
        OBVIOUS
      <4>4. QED BY <3>1, <4>1, <4>2, <4>3
    <3>3. sent.items \in {{}, {"message"}, {"other"}}
      BY <3>2 DEF Filling
    <3>4. QED BY <3>1, <3>2, <3>3
  <2>2. t = Responses!Open(Responses!Close(st), "text")
    BY <1>2, <1>3, <1>9, <2>1 DEF Responses!process_event, Responses!handle_content_part_added
  <2>3. ResponsesAt(c, Responses!Close(st), "none") /\ Responses!Close(st).depth = 0
    BY <2>1, ResponsesCloses
  <2>4. ResponsesAt(c, t, "text") /\ t.depth = 0
    BY <2>2, <2>3, ResponsesOpens
  <2>5. x.items = {"message"} /\ x.part /\ x.count = sent.count + 1
    BY <1>4, <1>9, <2>1
  <2> HIDE DEF x, t
  <2>6. Filling(x, "text")
    BY <2>5 DEF Filling
  <2>7. t.depth <= x.count
    BY <2>4, <2>5
  <2>8. QED BY <1>5, <2>4, <2>6, <2>7 DEF x, t
<1>10. CASE e.type = "text_delta" \/ e.type = "arguments_delta"
  <2>1. k = IF e.type = "text_delta" THEN "text" ELSE "tool"
    <3>1. CASE e.type = "text_delta"
      <4>1. sent.part
        BY <1>1, <3>1
      <4>2. k # "none" /\ k # "tool"
        BY <4>1 DEF Filling
      <4>3. QED BY <3>1, <4>2
    <3>2. CASE e.type = "arguments_delta"
      <4>1. "function_call" \in sent.items
        BY <1>1, <3>2
      <4>2. k = "none" => sent.items \in {{}, {"message"}, {"other"}}
        BY DEF Filling
      <4>3. k = "text" => sent.items = {"message"}
        BY DEF Filling
      <4>4. /\ "function_call" \notin {} /\ "function_call" \notin {"message"}
            /\ "function_call" \notin {"other"}
        OBVIOUS
      <4>5. k # "none" /\ k # "text"
        BY <4>1, <4>2, <4>3, <4>4
      <4>6. QED BY <3>2, <4>5
    <3>3. QED BY <1>10, <3>1, <3>2
  <2>2. t = Responses!Delta(st, k)
    BY <1>2, <1>10, <2>1 DEF Responses!process_event
  <2>3. ResponsesAt(c, t, k) /\ t.depth = st.depth
    BY <2>1, <2>2, ResponsesMore
  <2>4. x.items = sent.items /\ x.part = sent.part /\ x.count = sent.count
    BY <1>4, <1>10
  <2> HIDE DEF x, t
  <2>5. Filling(x, k)
    BY <2>4 DEF Filling
  <2>6. t.depth <= x.count
    BY <2>3, <2>4
  <2>7. QED BY <1>5, <2>3, <2>5, <2>6 DEF x, t
<1>11. CASE e.type = "part_done"
  <2>1. k = "text" /\ sent.items = {"message"} /\ st.depth = 0
    BY <1>1, <1>11 DEF Filling
  <2>2. t = Responses!Close(st)
    BY <1>2, <1>11, <2>1 DEF Responses!process_event, Responses!handle_content_part_done
  <2>3. ResponsesAt(c, t, "none") /\ t.depth = 0
    BY <2>1, <2>2, ResponsesCloses
  <2>4. x.items = {"message"} /\ ~x.part /\ x.count = sent.count
    BY <1>4, <1>11, <2>1
  <2> HIDE DEF x, t
  <2>5. Filling(x, "none")
    BY <2>4 DEF Filling
  <2>6. t.depth <= x.count
    BY <2>1, <2>3, <2>4
  <2>7. QED BY <1>5, <2>3, <2>5, <2>6 DEF x, t
<1>12. CASE e.type = "item_done" /\ e.item = "function_call"
  <2>1. k = "tool" /\ sent.items = {"function_call"} /\ ~sent.part /\ st.depth = 1
    BY <1>1, <1>12 DEF Filling
  <2> DEFINE o == Responses!Close(st)
             m == IF o.depth > 0 THEN o.depth - 1 ELSE 0
  <2>2. ResponsesAt(c, o, "none") /\ o.depth = 1
    BY <2>1, ResponsesCloses
  <2>3. t = [o EXCEPT !.depth = m]
    BY <1>2, <1>12 DEF Responses!process_event, Responses!handle_output_item_done
  <2> HIDE DEF o
  <2>4. m = 0 /\ m \in Nat
    BY <2>2
  <2> HIDE DEF m, t
  <2>5. ResponsesAt(c, t, "none") /\ t.depth = 0
    BY <2>2, <2>3, <2>4, ResponsesDeeper
  <2>6. x.items = {} /\ x.part = sent.part /\ x.count = sent.count
    BY <1>4, <1>12, <2>1
  <2> HIDE DEF x
  <2>7. Filling(x, "none")
    BY <2>1, <2>6 DEF Filling
  <2>8. t.depth <= x.count
    BY <2>5, <2>6
  <2>9. QED BY <1>5, <2>5, <2>7, <2>8 DEF x, t
<1>13. CASE e.type = "item_done" /\ e.item # "function_call"
  <2>1. k = "none" /\ sent.items = {e.item} /\ ~sent.part /\ st.depth = 0
    BY <1>1, <1>13 DEF Filling
  <2>2. t = st
    BY <1>2, <1>13 DEF Responses!process_event, Responses!handle_output_item_done
  <2>3. x.items = {} /\ x.part = sent.part /\ x.count = sent.count
    BY <1>4, <1>13, <2>1
  <2> HIDE DEF x, t
  <2>4. Filling(x, "none")
    BY <2>1, <2>3 DEF Filling
  <2>5. t.depth <= x.count
    BY <2>2, <2>3
  <2>6. QED BY <1>5, <2>1, <2>2, <2>4, <2>5 DEF x, t
<1>14. CASE e.type = "completed"
  <2>1. t = Responses!EndMessage(st)
    BY <1>2, <1>3, <1>14 DEF Responses!process_event, Responses!handle_completed
  <2>2. ResponsesOver(c, t) /\ t.depth = st.depth
    BY <2>1, ResponsesEnds
  <2>3. QED BY <1>6, <2>2
<1>15. CASE e.type = "failed"
  <2>1. t = Responses!handle_error(st)
    BY <1>2, <1>15 DEF Responses!process_event
  <2>2. ResponsesOver(c, t) /\ t.depth = st.depth
    BY <2>1, ResponsesFails
  <2>3. QED BY <1>6, <2>2
<1>16. CASE e.type = "incomplete"
  <2>1. t = st
    BY <1>2, <1>16 DEF Responses!process_event
  <2>2. x.items = sent.items /\ x.part = sent.part /\ x.count = sent.count
    BY <1>4, <1>16
  <2> HIDE DEF x, t
  <2>3. Filling(x, k)
    BY <2>2 DEF Filling
  <2>4. QED BY <1>5, <2>1, <2>2, <2>3 DEF x, t
<1>17. QED
  BY <1>1, <1>7, <1>8, <1>9, <1>10, <1>11, <1>12, <1>13, <1>14, <1>15, <1>16

\* An event of a usual answer.
LEMMA ResponsesEvent ==
  ASSUME NEW c, Usual("OpenAIResponses"), sent.count \in Nat, sent.part \in BOOLEAN,
         ResponsesMatch(c, st, sent), NEW e \in Responses!NextEvents
  PROVE  ResponsesMatch(c, Responses!process_event(st, e), Responses!SentAfter(e))
<1> DEFINE t == Responses!process_event(st, e)
           x == Responses!SentAfter(e)
<1>1. (e.type = "created" <=> sent.stage = "new")
  BY DEF Responses!NextEvents
<1>2. x.stage # "new"
  BY DEF Responses!SentAfter
<1>3. CASE sent.stage = "new"
  <2>1. /\ ~sent.part /\ sent.items = {} /\ st.depth = 0 /\ ResponsesFresh(c, st)
        /\ st.depth <= sent.count
    BY <1>3 DEF ResponsesMatch
  <2>2. t = Responses!BeginMessage(st)
    BY <1>1, <1>3, <2>1 DEF Responses!process_event, ResponsesFresh
  <2>3. ResponsesAt(c, t, "none") /\ t.depth = 0
    BY <2>1, <2>2, ResponsesBegins
  <2>4. x.items = {} /\ x.part = sent.part /\ x.count = sent.count
    BY <1>1, <1>3, <2>1 DEF Responses!SentAfter
  <2> HIDE DEF x, t
  <2>5. Filling(x, "none")
    BY <2>1, <2>4 DEF Filling
  <2>6. ResponsesMatch(c, t, x)
    BY <1>2, <2>1, <2>3, <2>4, <2>5 DEF ResponsesMatch, Fillings
  <2>7. QED BY <2>6 DEF x, t
<1>4. CASE sent.stage # "new" /\ ResponsesOver(c, st)
  <2>1. t = st
    BY <1>4 DEF Responses!process_event, ResponsesOver
  <2>2. x.count >= sent.count
    BY DEF Responses!SentAfter
  <2>3. st.depth <= sent.count /\ st.depth \in Nat
    BY <1>4 DEF ResponsesMatch, ResponsesOver, ResponsesStates
  <2>4. x.count \in Nat
    BY DEF Responses!SentAfter
  <2> HIDE DEF x, t
  <2>5. t.depth <= x.count
    BY <2>1, <2>2, <2>3, <2>4
  <2>6. ResponsesMatch(c, t, x)
    BY <1>2, <1>4, <2>1, <2>5 DEF ResponsesMatch
  <2>7. QED BY <2>6 DEF x, t
<1>5. CASE sent.stage # "new" /\ ~ResponsesOver(c, st)
  <2>1. PICK k \in Fillings : /\ Filling(sent, k) /\ ResponsesAt(c, st, k)
                              /\ st.depth = IF k = "tool" THEN 1 ELSE 0
    BY <1>5 DEF ResponsesMatch
  <2>2. st.depth <= sent.count
    BY DEF ResponsesMatch
  <2>3. QED BY <1>5, <2>1, <2>2, ResponsesFilling
<1>6. QED BY <1>3, <1>4, <1>5

\* The body ends wherever the answer is, once it has begun.
LEMMA ResponsesStops ==
  ASSUME NEW c, NEW s, NEW x, ResponsesMatch(c, s, x), x.stage # "new"
  PROVE  ResponsesMatch(c, Responses!finish(s), x)
<1>1. CASE ResponsesOver(c, s)
  BY <1>1 DEF Responses!finish, ResponsesOver
<1>2. CASE ~ResponsesOver(c, s)
  <2>1. PICK k \in Fillings : ResponsesAt(c, s, k)
    BY <1>2 DEF ResponsesMatch
  <2>2. Responses!finish(s) = Responses!EndMessage(s)
    BY <2>1 DEF Responses!finish, ResponsesAt
  <2>3. ResponsesOver(c, Responses!finish(s)) /\ Responses!finish(s).depth = s.depth
    BY <2>1, <2>2, ResponsesEnds
  <2>4. QED BY <2>3 DEF ResponsesMatch
<1>3. QED BY <1>1, <1>2

\* A translator that matches a client is well typed.
LEMMA ResponsesMatchType ==
  ASSUME NEW c, NEW s, NEW x, ResponsesMatch(c, s, x)
  PROVE  s \in ResponsesStates /\ s.depth <= x.count
BY DEF ResponsesMatch, ResponsesFresh, ResponsesAt, ResponsesOver

\* A state with another queue.
LEMMA ResponsesTypeOut ==
  ASSUME NEW s \in ResponsesStates, NEW q \in Seq(Events)
  PROVE  LET t == [s EXCEPT !.out = q] IN
         /\ t \in ResponsesStates /\ t.out = q
         /\ t.started = s.started /\ t.index = s.index /\ t.finished = s.finished
         /\ t.open = s.open /\ t.depth = s.depth
BY DEF ResponsesStates

\* The queue may be replaced by any that leads another client to the same view.
LEMMA ResponsesMoves ==
  ASSUME NEW c, NEW s, NEW x, NEW q \in Seq(Events), ResponsesMatch(c, s, x)
  PROVE  \E d : /\ Reaches(c, s.out, d)
                /\ \A c2 : Reaches(c2, q, d) => ResponsesMatch(c2, [s EXCEPT !.out = q], x)
<1> DEFINE t == [s EXCEPT !.out = q]
<1>1. /\ t \in ResponsesStates /\ t.out = q
      /\ t.started = s.started /\ t.index = s.index /\ t.finished = s.finished
      /\ t.open = s.open /\ t.depth = s.depth
  BY ResponsesMatchType, ResponsesTypeOut
<1> HIDE DEF t
<1> SUFFICES \E d : /\ Reaches(c, s.out, d)
                    /\ \A c2 : Reaches(c2, q, d) => ResponsesMatch(c2, t, x)
  BY DEF t
<1>2. t.depth <= x.count
  BY <1>1, ResponsesMatchType
<1>3. CASE x.stage = "new" /\ ~x.part /\ x.items = {} /\ s.depth = 0 /\ ResponsesFresh(c, s)
  <2> DEFINE d == View("idle", {}, s.index, Silent)
  <2>1. Reaches(c, s.out, d)
    BY <1>3 DEF ResponsesFresh
  <2>2. ASSUME NEW c2, Reaches(c2, q, d)
        PROVE  ResponsesFresh(c2, t)
    BY <1>1, <1>3, <2>2 DEF ResponsesFresh
  <2>3. QED BY <1>1, <1>2, <1>3, <2>1, <2>2 DEF ResponsesMatch
<1>4. ASSUME x.stage # "new", NEW k \in Fillings, Filling(x, k), ResponsesAt(c, s, k),
             s.depth = IF k = "tool" THEN 1 ELSE 0
      PROVE  \E d : /\ Reaches(c, s.out, d)
                    /\ \A c2 : Reaches(c2, q, d) => ResponsesMatch(c2, t, x)
  <2>1. Reaches(c, s.out, ResponsesView(s, k))
    BY <1>4 DEF ResponsesAt
  <2>2. ResponsesView(t, k) = ResponsesView(s, k)
    BY <1>1 DEF ResponsesView
  <2>3. ASSUME NEW c2, Reaches(c2, q, ResponsesView(s, k))
        PROVE  ResponsesAt(c2, t, k)
    BY <1>1, <1>4, <2>2, <2>3 DEF ResponsesAt
  <2>4. QED BY <1>1, <1>2, <1>4, <2>1, <2>3 DEF ResponsesMatch
<1>5. CASE x.stage # "new" /\ ResponsesOver(c, s)
  <2>1. PICK stage \in {"stopped", "failed"} : \E o, n :
          Reaches(c, s.out, View(stage, o, n, Silent))
    BY <1>5 DEF ResponsesOver
  <2>2. PICK o, n : Reaches(c, s.out, View(stage, o, n, Silent))
    BY <2>1
  <2>3. ASSUME NEW c2, Reaches(c2, q, View(stage, o, n, Silent))
        PROVE  ResponsesOver(c2, t)
    BY <1>1, <1>5, <2>3 DEF ResponsesOver
  <2>4. QED BY <1>2, <1>5, <2>2, <2>3 DEF ResponsesMatch
<1>6. QED BY <1>3, <1>4, <1>5 DEF ResponsesMatch

-----------------------------------------------------------------------------
(* The task between a Responses backend and its client *)

ResponsesSent == [stage : {"new", "open", "ended"}, items : SUBSET Responses!ItemTypes,
                  part : BOOLEAN, count : 0 .. MaxItems]

ResponsesInv ==
  /\ TaskInv
  /\ sent \in ResponsesSent
  /\ st \in ResponsesStates /\ st.depth <= sent.count
  /\ reader # "broken" => \E c : ResponsesMatch(c, st, sent) /\ (connected => c = client)

\* The stream starts with the invariant.
LEMMA ResponsesInit == Responses!Init => ResponsesInv
<1> SUFFICES ASSUME Responses!Init PROVE ResponsesInv
  OBVIOUS
<1> DEFINE q == <<>>
           v == View("idle", {}, 0, Silent)
<1>1. q \in Seq(Events)
  OBVIOUS
<1>2. client = v
  BY DEF Responses!Init, Responses!TaskInit, View, Silent, Responses!Kinds, Kinds
<1>3. v \in Clients
  BY ClientsStart
<1> HIDE DEF v
<1>4. Reaches(client, q, v)
  BY <1>2, <1>3, ReachesNothing
<1> HIDE DEF q
<1>5. /\ st = [started |-> FALSE, index |-> 0, open |-> FALSE, depth |-> 0,
               finished |-> FALSE, out |-> q]
      /\ sent = [stage |-> "new", items |-> {}, part |-> FALSE, count |-> 0]
  BY DEF Responses!Init, q
<1>6. st \in ResponsesStates
  BY <1>1, <1>5 DEF ResponsesStates
<1>7. ~st.started /\ ~st.finished /\ ~st.open /\ st.out = q /\ st.index = 0 /\ st.depth = 0
  BY <1>5
<1>8. ResponsesFresh(client, st)
  BY <1>4, <1>6, <1>7 DEF ResponsesFresh, v
<1>9. /\ sent.stage = "new" /\ sent.items = {} /\ ~sent.part /\ sent.count = 0
      /\ sent \in ResponsesSent
  BY <1>5, BoundsAssumption DEF ResponsesSent
<1>10. ResponsesMatch(client, st, sent)
  BY <1>7, <1>8, <1>9 DEF ResponsesMatch
<1>11. done = FALSE /\ reader = "reading" /\ connected = TRUE
  BY DEF Responses!Init, Responses!TaskInit
<1>12. TaskInv
  BY <1>2, <1>3, <1>11 DEF TaskInv
<1>13. QED BY <1>6, <1>7, <1>9, <1>10, <1>12 DEF ResponsesInv

\* The task reads the backend.
LEMMA ResponsesReads ==
  ASSUME Usual("OpenAIResponses"), ResponsesInv, Responses!ReadEvent \/ Responses!ReadEnd
  PROVE  ResponsesInv' /\ Legal
<1>1. /\ reader = "reading" /\ UNCHANGED <<done, connected, client>>
      /\ reader' \in {"reading", "completed"}
  BY DEF Responses!ReadEvent, Responses!ReadEnd, Responses!Reading
<1>2. PICK c : ResponsesMatch(c, st, sent) /\ (connected => c = client)
  BY <1>1 DEF ResponsesInv
<1>3. ResponsesMatch(c, st', sent') /\ sent' \in ResponsesSent
  <2>1. CASE Responses!ReadEvent
    <3>1. PICK e \in Responses!NextEvents :
            st' = Responses!process_event(st, e) /\ sent' = Responses!SentAfter(e)
      BY <2>1 DEF Responses!ReadEvent
    <3>2. /\ sent.count \in 0 .. MaxItems /\ sent.part \in BOOLEAN /\ sent.count \in Nat
          /\ sent.items \in SUBSET Responses!ItemTypes
      BY BoundsAssumption DEF ResponsesInv, ResponsesSent
    <3>3. ResponsesMatch(c, st', sent')
      BY <1>2, <3>1, <3>2, ResponsesEvent
    <3>4. e.item \in Responses!ItemTypes
          /\ (e.type \in {"item_added", "part_added"} => sent.count < MaxItems)
      BY DEF Responses!NextEvents
    <3>5. Responses!SentAfter(e).count \in 0 .. MaxItems
      BY <3>2, <3>4, BoundsAssumption DEF Responses!SentAfter
    <3>6. Responses!SentAfter(e).items \in SUBSET Responses!ItemTypes
      BY <3>2, <3>4 DEF Responses!SentAfter
    <3>7. Responses!SentAfter(e).part \in BOOLEAN
      BY <3>2 DEF Responses!SentAfter
    <3>8. Responses!SentAfter(e) \in ResponsesSent
      BY <3>5, <3>6, <3>7 DEF Responses!SentAfter, ResponsesSent
    <3>9. QED BY <3>1, <3>3, <3>8
  <2>2. CASE Responses!ReadEnd
    <3>1. sent' = sent /\ sent.stage # "new" /\ st' = Responses!finish(st)
      BY <2>2, UsualMeans DEF Responses!ReadEnd
    <3>2. ResponsesMatch(c, st', sent)
      BY <1>2, <3>1, ResponsesStops
    <3>3. QED BY <3>1, <3>2 DEF ResponsesInv
  <2>3. QED BY <2>1, <2>2
<1>4. st' \in ResponsesStates /\ st'.depth <= sent'.count
  BY <1>3, ResponsesMatchType
<1>5. TaskInv'
  BY <1>1 DEF ResponsesInv, TaskInv, Outcomes
<1>6. connected' => c = client'
  BY <1>1, <1>2
<1>7. ResponsesInv'
  BY <1>3, <1>4, <1>5, <1>6 DEF ResponsesInv
<1>8. QED BY <1>1, <1>7, Unheard

\* The task sends an event.
LEMMA ResponsesSends ==
  ASSUME ResponsesInv, Responses!Send
  PROVE  ResponsesInv' /\ Legal
<1> DEFINE q == Tail(st.out)
<1>1. /\ connected /\ st.out # <<>> /\ st' = [st EXCEPT !.out = q]
      /\ client' = Sees(client, Head(st.out)) /\ UNCHANGED <<sent, done, reader, connected>>
  BY ResponsesShared DEF Responses!Send
<1>2. ResponsesMatch(client, st, sent)
  BY <1>1 DEF ResponsesInv, TaskInv
<1>3. st.out \in Seq(Events)
  BY DEF ResponsesInv, ResponsesStates
<1>4. q \in Seq(Events)
  BY <1>1, <1>3
<1> HIDE DEF q
<1>5. PICK d : /\ Reaches(client, st.out, d)
               /\ \A c2 : Reaches(c2, q, d) => ResponsesMatch(c2, [st EXCEPT !.out = q], sent)
  BY <1>2, <1>4, ResponsesMoves
<1>6. client' \in Clients /\ Reaches(client', q, d) /\ Legal
  BY <1>1, <1>3, <1>5, TaskSends DEF q
<1>7. ResponsesMatch(client', st', sent')
  BY <1>1, <1>5, <1>6
<1>8. st' \in ResponsesStates /\ st'.depth <= sent'.count
  BY <1>7, ResponsesMatchType
<1>9. TaskInv'
  BY <1>1, <1>6 DEF ResponsesInv, TaskInv
<1>10. sent' \in ResponsesSent
  BY <1>1 DEF ResponsesInv
<1>11. QED BY <1>6, <1>7, <1>8, <1>9, <1>10 DEF ResponsesInv

\* The task is broken off, or the client leaves.
LEMMA ResponsesDrops ==
  ASSUME ResponsesInv,
         Responses!ReadError \/ Responses!TimeOut \/ Responses!Leave \/ Responses!SendFails
         \/ UNCHANGED <<vars, backend>>
  PROVE  ResponsesInv' /\ Legal
<1> USE DEF Outcomes
<1>1. CASE Responses!ReadError
  <2>1. /\ reader = "reading" /\ st.out = <<>> /\ reader' = "broken"
        /\ UNCHANGED <<sent, st, done, connected, client>>
    BY <1>1 DEF Responses!ReadError, Responses!Reading
  <2>2. TaskInv'
    BY <2>1 DEF ResponsesInv, TaskInv
  <2>3. QED BY <2>1, <2>2, Unheard DEF ResponsesInv
<1>2. CASE Responses!TimeOut
  <2> DEFINE q == <<>>
  <2>1. /\ reader = "reading" /\ st' = [st EXCEPT !.out = q] /\ reader' = "broken"
        /\ UNCHANGED <<sent, done, connected, client>>
    BY <1>2 DEF Responses!TimeOut
  <2>2. q \in Seq(Events) /\ q = <<>>
    OBVIOUS
  <2> HIDE DEF q
  <2>3. st' \in ResponsesStates /\ st'.out = q /\ st'.depth = st.depth
    BY <2>1, <2>2, ResponsesTypeOut DEF ResponsesInv
  <2>4. TaskInv'
    BY <2>1, <2>2, <2>3 DEF ResponsesInv, TaskInv
  <2>5. QED BY <2>1, <2>3, <2>4, Unheard DEF ResponsesInv
<1>3. CASE Responses!Leave
  <2>1. connected' = FALSE /\ UNCHANGED <<sent, st, done, reader, client>>
    BY <1>3 DEF Responses!Leave
  <2>2. TaskInv'
    BY <2>1 DEF ResponsesInv, TaskInv
  <2>3. ASSUME reader # "broken"
        PROVE  \E c : ResponsesMatch(c, st', sent') /\ (connected' => c = client')
    <3>1. PICK c : ResponsesMatch(c, st, sent)
      BY <2>3 DEF ResponsesInv
    <3>2. ResponsesMatch(c, st', sent')
      BY <2>1, <3>1
    <3>3. QED BY <2>1, <3>2
  <2>4. QED BY <2>1, <2>2, <2>3, Unheard DEF ResponsesInv
<1>4. CASE Responses!SendFails
  <2> DEFINE q == <<>>
  <2>1. /\ ~connected /\ st.out # <<>> /\ st' = [st EXCEPT !.out = q]
        /\ reader' \in {reader, "disconnected"} /\ UNCHANGED <<sent, done, connected, client>>
    BY <1>4 DEF Responses!SendFails, Responses!DropEvents
  <2>2. q \in Seq(Events) /\ q = <<>> /\ reader # "broken"
    BY <2>1 DEF ResponsesInv, TaskInv
  <2> HIDE DEF q
  <2>3. st' \in ResponsesStates /\ st'.out = q /\ st'.depth = st.depth
    BY <2>1, <2>2, ResponsesTypeOut DEF ResponsesInv
  <2>4. TaskInv'
    BY <2>1, <2>2, <2>3 DEF ResponsesInv, TaskInv
  <2>5. \E d : ResponsesMatch(d, st', sent')
    <3>1. PICK c : ResponsesMatch(c, st, sent)
      BY <2>2 DEF ResponsesInv
    <3>2. PICK d : /\ Reaches(c, st.out, d)
                   /\ \A c2 : Reaches(c2, q, d) => ResponsesMatch(c2, [st EXCEPT !.out = q], sent)
      BY <2>2, <3>1, ResponsesMoves
    <3>3. st.out \in Seq(Events)
      BY DEF ResponsesInv, ResponsesStates
    <3>4. Reaches(d, q, d)
      BY <2>2, <3>2, <3>3, ReachesType, ReachesNothing
    <3>5. QED BY <2>1, <3>2, <3>4
  <2>6. QED BY <2>1, <2>3, <2>4, <2>5, Unheard DEF ResponsesInv
<1>5. CASE UNCHANGED <<vars, backend>>
  <2>1. TaskInv' /\ UNCHANGED <<sent, st, done, reader, connected, client>>
    BY <1>5 DEF vars, ResponsesInv, TaskInv
  <2>2. ASSUME reader # "broken"
        PROVE  \E c : ResponsesMatch(c, st', sent') /\ (connected' => c = client')
    <3>1. PICK c : ResponsesMatch(c, st, sent) /\ (connected => c = client)
      BY <2>2 DEF ResponsesInv
    <3>2. ResponsesMatch(c, st', sent')
      BY <2>1, <3>1
    <3>3. QED BY <2>1, <3>1, <3>2
  <2>3. QED BY <2>1, <2>2, Unheard DEF ResponsesInv
<1>6. QED BY <1>1, <1>2, <1>3, <1>4, <1>5

\* Every step of the task.
LEMMA ResponsesSteps ==
  ASSUME Usual("OpenAIResponses"), ResponsesInv, Responses!Next \/ UNCHANGED <<vars, backend>>
  PROVE  ResponsesInv' /\ Legal
BY ResponsesReads, ResponsesSends, ResponsesDrops DEF Responses!Next

\* Between two events the queue is empty, and the client fills what the backend fills.
LEMMA ResponsesInStep == ResponsesInv => Responses!InStep
<1> SUFFICES ASSUME ResponsesInv, Responses!Reading, connected, ~st.finished
             PROVE  /\ client.open = {[index |-> st.index, kind |-> k] : k \in Responses!Saying}
                    /\ st.open <=> client.open # {}
                    /\ st.started <=> client.stage # "idle"
  BY DEF Responses!InStep
<1>1. reader = "reading" /\ st.out = <<>>
  BY DEF Responses!Reading
<1>2. ResponsesMatch(client, st, sent)
  BY <1>1 DEF ResponsesInv
<1>3. \A d : Reaches(client, st.out, d) => client = d
  BY <1>1, ReachesSame
<1>4. ~ResponsesOver(client, st)
  BY DEF ResponsesOver
<1>5. CASE sent.stage = "new"
  <2>1. ResponsesFresh(client, st) /\ ~sent.part /\ sent.items = {}
    BY <1>2, <1>5 DEF ResponsesMatch
  <2>2. client = View("idle", {}, st.index, Silent) /\ ~st.open /\ ~st.started
    BY <1>3, <2>1 DEF ResponsesFresh
  <2>3. Responses!Saying = {}
    BY <2>1 DEF Responses!Saying
  <2>4. QED BY <2>2, <2>3 DEF View
<1>6. CASE sent.stage # "new"
  <2>1. PICK k \in Fillings : Filling(sent, k) /\ ResponsesAt(client, st, k)
    BY <1>2, <1>4, <1>6 DEF ResponsesMatch
  <2>2. client = ResponsesView(st, k) /\ st.started /\ (st.open <=> k # "none")
    BY <1>3, <2>1 DEF ResponsesAt
  <2>3. Responses!Saying = IF k = "none" THEN {} ELSE {k}
    <3>1. CASE k = "none"
      <4>1. ~sent.part /\ sent.items \in {{}, {"message"}, {"other"}}
        BY <2>1, <3>1 DEF Filling
      <4>2. "function_call" \notin sent.items
        BY <4>1
      <4>3. QED BY <3>1, <4>1, <4>2 DEF Responses!Saying
    <3>2. CASE k = "text"
      <4>1. sent.part /\ "function_call" \notin sent.items
        BY <2>1, <3>2 DEF Filling
      <4>2. QED BY <3>2, <4>1 DEF Responses!Saying
    <3>3. CASE k = "tool"
      <4>1. ~sent.part /\ "function_call" \in sent.items
        BY <2>1, <3>3 DEF Filling
      <4>2. QED BY <3>3, <4>1 DEF Responses!Saying
    <3>4. QED BY <3>1, <3>2, <3>3 DEF Fillings
  <2>4. CASE k = "none"
    BY <2>2, <2>3, <2>4 DEF ResponsesView, View
  <2>5. CASE k # "none"
    <3>1. client.open = {[index |-> st.index, kind |-> k]} /\ client.stage = "open"
      BY <2>2, <2>5 DEF ResponsesView, View
    <3>2. QED BY <2>2, <2>3, <2>5, <3>1
  <2>6. QED BY <2>4, <2>5
<1>7. QED BY <1>5, <1>6

-----------------------------------------------------------------------------
(* The translator of a Gemini backend *)

\* One queue behind another.
LEMMA ReachesJoin ==
  ASSUME NEW c, NEW d, NEW e, NEW a \in Seq(Events), NEW b \in Seq(Events),
         Reaches(c, a, d), Reaches(d, b, e)
  PROVE  Reaches(c, a \o b, e)
<1>1. PICK v : Run(c, a, v) /\ v[Len(a) + 1] = d
  BY DEF Reaches
<1>2. PICK u : Run(d, b, u) /\ u[Len(b) + 1] = e
  BY DEF Reaches
<1> DEFINE n == Len(a)
           m == Len(b)
           q == a \o b
           w == [i \in 1 .. n + m + 1 |-> IF i <= n THEN v[i] ELSE u[i - n]]
<1>3. /\ n \in Nat /\ m \in Nat /\ Len(q) = n + m
      /\ \A i \in 1 .. n : q[i] = a[i]
      /\ \A i \in n + 1 .. n + m : q[i] = b[i - n]
  OBVIOUS
<1>4. u[1] = d /\ v[n + 1] = d /\ v[1] = c
  BY <1>1, <1>2 DEF Run
<1>5. w \in [1 .. Len(q) + 1 -> Clients] /\ w[1] = c
  <2>1. \A i \in 1 .. n + m + 1 : w[i] \in Clients
    <3> TAKE i \in 1 .. n + m + 1
    <3>1. CASE i <= n
      <4>1. i \in 1 .. n + 1
        BY <1>3, <3>1
      <4>2. v[i] \in Clients
        BY <1>1, <4>1 DEF Run
      <4>3. QED BY <3>1, <4>2
    <3>2. CASE i > n
      <4>1. i - n \in 1 .. m + 1
        BY <1>3, <3>2
      <4>2. u[i - n] \in Clients
        BY <1>2, <4>1 DEF Run
      <4>3. QED BY <1>3, <3>2, <4>2
    <3>3. QED BY <1>3, <3>1, <3>2
  <2>2. w[1] = c
    <3>1. CASE n = 0
      BY <1>3, <1>4, <3>1
    <3>2. CASE n > 0
      BY <1>3, <1>4, <3>2
    <3>3. QED BY <1>3, <3>1, <3>2
  <2>3. QED BY <1>3, <2>1, <2>2
<1>6. \A i \in 1 .. Len(q) : Fits(w[i], q[i]) /\ w[i + 1] = Sees(w[i], q[i])
  <2> TAKE i \in 1 .. Len(q)
  <2>1. CASE i \in 1 .. n
    <3>1. Fits(v[i], a[i]) /\ v[i + 1] = Sees(v[i], a[i])
      BY <1>1, <2>1 DEF Run
    <3>2. w[i] = v[i] /\ q[i] = a[i]
      BY <1>3, <2>1
    <3>3. w[i + 1] = v[i + 1]
      <4>1. CASE i < n
        BY <1>3, <2>1, <4>1
      <4>2. CASE i = n
        <5>1. w[i + 1] = u[1]
          BY <1>3, <2>1, <4>2
        <5>2. QED BY <1>4, <4>2, <5>1
      <4>3. QED BY <1>3, <2>1, <4>1, <4>2
    <3>4. QED BY <3>1, <3>2, <3>3
  <2>2. CASE i \in n + 1 .. n + m
    <3>1. i - n \in 1 .. m
      BY <1>3, <2>2
    <3>2. Fits(u[i - n], b[i - n]) /\ u[i - n + 1] = Sees(u[i - n], b[i - n])
      BY <1>2, <3>1 DEF Run
    <3>3. w[i] = u[i - n] /\ q[i] = b[i - n] /\ w[i + 1] = u[i + 1 - n]
      BY <1>3, <2>2
    <3>4. i + 1 - n = i - n + 1
      BY <1>3, <2>2
    <3>5. QED BY <3>2, <3>3, <3>4
  <2>3. QED BY <1>3, <2>1, <2>2
<1>7. w[Len(q) + 1] = e
  <2>1. w[n + m + 1] = u[n + m + 1 - n]
    BY <1>3
  <2>2. n + m + 1 - n = m + 1
    BY <1>3
  <2>3. QED BY <1>2, <1>3, <2>1, <2>2
<1>8. QED BY <1>5, <1>6, <1>7 DEF Run, Reaches

\* A batch of m tool calls, each a whole block.
Calls(n, m) ==
  [i \in 1 .. 3 * m |->
     LET b == n + (i - 1) \div 3 IN
     CASE i % 3 = 1 -> Block("block_start", b, "tool")
       [] i % 3 = 2 -> Block("block_delta", b, "tool")
       [] i % 3 = 0 -> BlockStop(b)]

\* Three events to a call.
LEMMA Thirds ==
  ASSUME NEW i \in Nat \ {0}
  PROVE  /\ (i - 1) \div 3 \in Nat
         /\ i % 3 \in {0, 1, 2}
         /\ i % 3 = 1 => (i + 1) % 3 = 2 /\ i \div 3 = (i - 1) \div 3
         /\ i % 3 = 2 => (i + 1) % 3 = 0 /\ i \div 3 = (i - 1) \div 3
         /\ i % 3 = 0 => (i + 1) % 3 = 1 /\ i \div 3 = (i - 1) \div 3 + 1
OBVIOUS

\* One call: it is opened, filled and closed.
LEMMA CallEvents ==
  ASSUME NEW b \in Nat, NEW h \in [Kinds -> Nat]
  PROVE  LET d == View("open", {}, b, h)
             o == View("open", {[index |-> b, kind |-> "tool"]}, b + 1, h)
             f == View("open", {}, b + 1, h)
         IN /\ d \in Clients /\ o \in Clients
            /\ Fits(d, Block("block_start", b, "tool"))
            /\ Sees(d, Block("block_start", b, "tool")) = o
            /\ Fits(o, Block("block_delta", b, "tool"))
            /\ Sees(o, Block("block_delta", b, "tool")) = o
            /\ Fits(o, BlockStop(b))
            /\ Sees(o, BlockStop(b)) = f
<1> DEFINE d == View("open", {}, b, h)
           o == View("open", {[index |-> b, kind |-> "tool"]}, b + 1, h)
           f == View("open", {}, b + 1, h)
           e1 == Block("block_start", b, "tool")
           e2 == Block("block_delta", b, "tool")
           e3 == BlockStop(b)
<1>1. "tool" \in Kinds /\ b + 1 \in Nat
  BY DEF Kinds
<1>2. d \in Clients /\ o \in Clients
  BY <1>1 DEF View, Clients
<1>3. e1 \in Events /\ e2 \in Events /\ e3 \in Events
  BY <1>1, EventTypes
<1>4. /\ e1.type = "block_start" /\ e1.index = b /\ e1.kind = "tool"
      /\ e2.type = "block_delta" /\ e2.index = b /\ e2.kind = "tool" /\ e2.size = 0
      /\ e3.type = "block_stop" /\ e3.index = b
  BY DEF Block, BlockStop, Sized
<1>5. Fits(d, e1)
  BY <1>4 DEF Fits, View
<1>6. Fits(o, e2)
  BY <1>4 DEF Fits, View
<1>7. Fits(o, e3)
  BY <1>1, <1>4 DEF Fits, View
<1>8. Sees(d, e1) = o
  BY <1>2, <1>3, <1>4, <1>5, SeesFitting DEF View
<1>9. [h EXCEPT !["tool"] = @ + 0] = h
  BY <1>1
<1>10. Sees(o, e2) = o
  BY <1>2, <1>3, <1>4, <1>6, <1>9, SeesFitting DEF View
<1>11. Sees(o, e3) = f
  BY <1>2, <1>3, <1>4, <1>7, SeesFitting DEF View
<1>12. QED BY <1>2, <1>5, <1>6, <1>7, <1>8, <1>10, <1>11

\* A batch is legal where no block is open, and leaves none open.
LEMMA ReachesCalls ==
  ASSUME NEW n \in Nat, NEW m \in Nat, NEW h \in [Kinds -> Nat]
  PROVE  /\ Calls(n, m) \in Seq(Events)
         /\ Reaches(View("open", {}, n, h), Calls(n, m), View("open", {}, n + m, h))
<1> DEFINE q == Calls(n, m)
           b(i) == n + (i - 1) \div 3
           o(i) == View("open", {[index |-> b(i), kind |-> "tool"]}, b(i) + 1, h)
           w == [i \in 1 .. 3 * m + 1 |->
                   IF i % 3 = 1 THEN View("open", {}, b(i), h) ELSE o(i)]
<1>1. "tool" \in Kinds /\ 3 * m \in Nat
  BY DEF Kinds
<1>2. \A i \in Nat \ {0} : b(i) \in Nat
  BY Thirds
<1>3. \A i \in Nat \ {0} : /\ View("open", {}, b(i), h) \in Clients
                           /\ o(i) \in Clients
  BY <1>1, <1>2 DEF View, Clients
<1>4. \A i \in 1 .. 3 * m : /\ i % 3 = 1 => q[i] = Block("block_start", b(i), "tool")
                            /\ i % 3 = 2 => q[i] = Block("block_delta", b(i), "tool")
                            /\ i % 3 = 0 => q[i] = BlockStop(b(i))
  BY DEF Calls
<1>5. \A i \in 1 .. 3 * m : q[i] \in Events
  <2> TAKE i \in 1 .. 3 * m
  <2>1. i \in Nat \ {0} /\ b(i) \in Nat
    BY <1>2
  <2>2. i % 3 \in {0, 1, 2}
    BY <2>1, Thirds
  <2> HIDE DEF b, q
  <2>3. QED BY <1>1, <1>4, <2>1, <2>2, EventTypes
<1>6. q = [i \in 1 .. 3 * m |-> q[i]]
  BY DEF Calls
<1> HIDE DEF q
<1>7. q \in Seq(Events) /\ Len(q) = 3 * m
  <2> DEFINE l    == 3 * m
             F(i) == q[i]
  <2>1. l \in Nat /\ \A i \in 1 .. l : F(i) \in Events
    BY <1>1, <1>5
  <2>2. q = [i \in 1 .. l |-> F(i)]
    BY <1>6
  <2> HIDE DEF l, F
  <2>3. [i \in 1 .. l |-> F(i)] \in Seq(Events) /\ Len([i \in 1 .. l |-> F(i)]) = l
    BY <2>1
  <2>4. QED BY <2>2, <2>3 DEF l
<1>8. w \in [1 .. Len(q) + 1 -> Clients]
  <2>1. \A i \in 1 .. 3 * m + 1 : w[i] \in Clients
    <3> TAKE i \in 1 .. 3 * m + 1
    <3>1. i \in Nat \ {0}
      BY <1>1
    <3>2. View("open", {}, b(i), h) \in Clients /\ o(i) \in Clients
      BY <1>3, <3>1
    <3> HIDE DEF b, o
    <3>3. QED BY <3>2
  <2>2. DOMAIN w = 1 .. 3 * m + 1 /\ w = [i \in 1 .. 3 * m + 1 |-> w[i]]
    OBVIOUS
  <2> HIDE DEF w
  <2>3. QED BY <1>7, <2>1, <2>2
<1>9. w[1] = View("open", {}, n, h)
  <2>1. 1 % 3 = 1 /\ b(1) = n /\ 1 \in 1 .. 3 * m + 1
    BY <1>1
  <2>2. QED BY <2>1
<1>10. \A i \in 1 .. Len(q) : Fits(w[i], q[i]) /\ w[i + 1] = Sees(w[i], q[i])
  <2> TAKE i \in 1 .. Len(q)
  <2>1. /\ i \in Nat \ {0} /\ i + 1 \in Nat \ {0} /\ i \in 1 .. 3 * m
        /\ i + 1 \in 1 .. 3 * m + 1 /\ i \in 1 .. 3 * m + 1 /\ i + 1 - 1 = i
    BY <1>1, <1>7
  <2>2. /\ i % 3 = 1 => w[i] = View("open", {}, b(i), h)
        /\ i % 3 # 1 => w[i] = o(i)
        /\ (i + 1) % 3 = 1 => w[i + 1] = View("open", {}, b(i + 1), h)
        /\ (i + 1) % 3 # 1 => w[i + 1] = o(i + 1)
    BY <2>1
  <2>3. /\ i % 3 \in {0, 1, 2}
        /\ i % 3 = 1 => (i + 1) % 3 = 2 /\ b(i + 1) = b(i)
        /\ i % 3 = 2 => (i + 1) % 3 = 0 /\ b(i + 1) = b(i)
        /\ i % 3 = 0 => (i + 1) % 3 = 1 /\ b(i + 1) = b(i) + 1
    BY <2>1, Thirds
  <2>4. w[i] \in Clients /\ q[i] \in Events /\ b(i) \in Nat
    BY <1>2, <1>5, <1>8, <1>7, <2>1
  <2>9. /\ Fits(View("open", {}, b(i), h), Block("block_start", b(i), "tool"))
        /\ Sees(View("open", {}, b(i), h), Block("block_start", b(i), "tool")) = o(i)
        /\ Fits(o(i), Block("block_delta", b(i), "tool"))
        /\ Sees(o(i), Block("block_delta", b(i), "tool")) = o(i)
        /\ Fits(o(i), BlockStop(b(i)))
        /\ Sees(o(i), BlockStop(b(i))) = View("open", {}, b(i) + 1, h)
    BY <2>4, CallEvents
  <2>10. b(i + 1) = b(i) => o(i + 1) = o(i)
    OBVIOUS
  <2>11. b(i + 1) = b(i) + 1 => View("open", {}, b(i + 1), h) = View("open", {}, b(i) + 1, h)
    OBVIOUS
  <2> HIDE DEF w, b, o
  <2>5. CASE i % 3 = 1
    BY <1>4, <2>1, <2>2, <2>3, <2>5, <2>9, <2>10
  <2>6. CASE i % 3 = 2
    BY <1>4, <2>1, <2>2, <2>3, <2>6, <2>9, <2>10
  <2>7. CASE i % 3 = 0
    BY <1>4, <2>1, <2>2, <2>3, <2>7, <2>9, <2>11
  <2>8. QED BY <2>3, <2>5, <2>6, <2>7
<1>11. w[Len(q) + 1] = View("open", {}, n + m, h)
  <2>1. (3 * m + 1) % 3 = 1 /\ (3 * m + 1 - 1) \div 3 = m
    OBVIOUS
  <2>2. QED BY <1>1, <1>7, <2>1
<1>12. Run(View("open", {}, n, h), q, w)
  BY <1>8, <1>9, <1>10 DEF Run
<1>13. QED BY <1>7, <1>11, <1>12 DEF Reaches, q

GeminiStates == [started : BOOLEAN, index : Nat, textOpen : BOOLEAN, thoughtOpen : BOOLEAN,
                 text : Nat, thought : Nat, tools : Nat, finished : BOOLEAN,
                 out : Seq(Events)]

\* The translator's copies of the operators of StreamTask are the same.
LEMMA GeminiShared ==
  /\ \A s, e : Gemini!Emit(s, e) = Emit(s, e)
  /\ \A t, i, k, n : Gemini!Sized(t, i, k, n) = Sized(t, i, k, n)
  /\ \A t, i, k : Gemini!Block(t, i, k) = Block(t, i, k)
  /\ \A i : Gemini!BlockStop(i) = BlockStop(i)
  /\ \A t : Gemini!Plain(t) = Plain(t)
  /\ \A s : Gemini!BeginMessage(s) = BeginMessage(s)
  /\ \A c, e : Gemini!Sees(c, e) = Sees(c, e)
BY DEF Gemini!Emit, Emit, Gemini!Block, Block, Gemini!BlockStop, BlockStop,
       Gemini!Plain, Plain, Gemini!Sized, Sized, Gemini!BeginMessage,
       BeginMessage, Gemini!Sees, Sees

\* The parts of a state that opening and closing a block leave alone.
SameSaid(s, t) == t.text = s.text /\ t.thought = s.thought /\ t.tools = s.tools

\* An event is put into the queue, and nothing else changes.
LEMMA GeminiEmit ==
  ASSUME NEW s \in GeminiStates, NEW e \in Events
  PROVE  /\ Emit(s, e) \in GeminiStates
         /\ Emit(s, e).out = Append(s.out, e)
         /\ Emit(s, e).started = s.started /\ Emit(s, e).index = s.index
         /\ Emit(s, e).textOpen = s.textOpen /\ Emit(s, e).thoughtOpen = s.thoughtOpen
         /\ Emit(s, e).finished = s.finished
         /\ SameSaid(s, Emit(s, e))
<1> DEFINE q == Append(s.out, e)
<1>1. q \in Seq(Events)
  BY DEF GeminiStates
<1>2. Emit(s, e) = [s EXCEPT !.out = q]
  BY DEF Emit
<1> HIDE DEF q
<1>3. LET t == [s EXCEPT !.out = q] IN
      /\ t \in GeminiStates /\ t.out = q /\ t.started = s.started /\ t.index = s.index
      /\ t.textOpen = s.textOpen /\ t.thoughtOpen = s.thoughtOpen
      /\ t.finished = s.finished
      /\ t.text = s.text /\ t.thought = s.thought /\ t.tools = s.tools
  BY <1>1 DEF GeminiStates
<1>4. QED BY <1>2, <1>3 DEF SameSaid, q

\* A client that has heard so much thought and so much text.
Heard(thought, text) ==
  [k \in Kinds |-> IF k = "thinking" THEN thought ELSE IF k = "text" THEN text ELSE 0]

\* What such a client has heard, by kind.
LEMMA HeardType ==
  ASSUME NEW a \in Nat, NEW b \in Nat
  PROVE  Heard(a, b) \in [Kinds -> Nat]
BY DEF Heard, Kinds

\* Where the queue leads the client while a block of kind k is open.
GeminiView(s, k) ==
  LET h == Heard(s.thought, s.text) IN
  IF k = "none" THEN View("open", {}, s.index, h)
  ELSE View("open", {[index |-> s.index, kind |-> k]}, s.index + 1, h)

GeminiAt(c, s, k) ==
  /\ s \in GeminiStates /\ s.started /\ ~s.finished
  /\ s.textOpen <=> k = "text"
  /\ s.thoughtOpen <=> k = "thinking"
  /\ Reaches(c, s.out, GeminiView(s, k))

GeminiFresh(c, s) ==
  /\ s \in GeminiStates /\ ~s.started /\ ~s.finished /\ ~s.textOpen /\ ~s.thoughtOpen
  /\ Reaches(c, s.out, View("idle", {}, s.index, Heard(s.thought, s.text)))

GeminiOver(c, s) ==
  /\ s \in GeminiStates /\ s.started /\ s.finished
  /\ \E n : Reaches(c, s.out, View("stopped", {}, n, Heard(s.thought, s.text)))

\* The message begins.
LEMMA GeminiBegins ==
  ASSUME NEW c, NEW s, GeminiFresh(c, s)
  PROVE  GeminiAt(c, Gemini!BeginMessage(s), "none") /\ SameSaid(s, Gemini!BeginMessage(s))
<1> DEFINE b == [s EXCEPT !.started = TRUE]
           t == Emit(b, Plain("message_start"))
<1>1. Gemini!BeginMessage(s) = t
  BY GeminiShared DEF BeginMessage, GeminiFresh
<1>2. /\ b \in GeminiStates /\ b.started /\ b.out = s.out /\ b.index = s.index
      /\ b.textOpen = s.textOpen /\ b.thoughtOpen = s.thoughtOpen /\ b.finished = s.finished
      /\ SameSaid(s, b)
  BY DEF GeminiFresh, GeminiStates, SameSaid
<1> HIDE DEF b
<1>3. Plain("message_start") \in Events
  BY EventTypes
<1>4. /\ t \in GeminiStates /\ t.started /\ t.out = Append(s.out, Plain("message_start"))
      /\ t.index = s.index /\ t.textOpen = s.textOpen /\ t.thoughtOpen = s.thoughtOpen
      /\ t.finished = s.finished /\ SameSaid(s, t)
  BY <1>2, <1>3, GeminiEmit DEF SameSaid
<1> HIDE DEF t
<1>5. Reaches(c, t.out, View("open", {}, t.index, Heard(t.thought, t.text)))
  <2>1. s.out \in Seq(Events)
    BY DEF GeminiFresh, GeminiStates
  <2>2. QED BY <1>4, <2>1, ReachesBegin DEF GeminiFresh, SameSaid
<1>6. ~t.finished /\ ~t.textOpen /\ ~t.thoughtOpen
  BY <1>4 DEF GeminiFresh
<1>7. GeminiAt(c, t, "none")
  BY <1>4, <1>5, <1>6 DEF GeminiAt, GeminiView
<1>8. QED BY <1>1, <1>4, <1>7

\* A block is opened.
Opened(s, k) ==
  IF k = "text" THEN [s EXCEPT !.textOpen = TRUE] ELSE [s EXCEPT !.thoughtOpen = TRUE]

\* The client sees it opened.
LEMMA GeminiOpens ==
  ASSUME NEW c, NEW s, NEW k \in {"text", "thinking"}, GeminiAt(c, s, "none")
  PROVE  LET t == Emit(Opened(s, k), Block("block_start", s.index, k)) IN
         GeminiAt(c, t, k) /\ SameSaid(s, t)
<1> DEFINE b == Opened(s, k)
           e == Block("block_start", s.index, k)
           t == Emit(b, e)
<1>1. /\ b \in GeminiStates /\ b.started = s.started /\ b.out = s.out
      /\ b.index = s.index /\ b.finished = s.finished
      /\ b.textOpen <=> k = "text"
      /\ b.thoughtOpen <=> k = "thinking"
      /\ SameSaid(s, b)
  <2>1. CASE k = "text"
    BY <2>1 DEF GeminiAt, GeminiStates, SameSaid, Opened
  <2>2. CASE k = "thinking"
    BY <2>2 DEF GeminiAt, GeminiStates, SameSaid, Opened
  <2>3. QED BY <2>1, <2>2
<1> HIDE DEF b
<1>2. s.out \in Seq(Events) /\ s.index \in Nat /\ k \in Kinds /\ k # "none"
  BY DEF GeminiAt, GeminiStates, Kinds
<1>3. e \in Events
  BY <1>2, EventTypes
<1> HIDE DEF e
<1>4. /\ t \in GeminiStates /\ t.started = s.started /\ t.out = Append(s.out, e)
      /\ t.index = s.index /\ t.finished = s.finished
      /\ t.textOpen = b.textOpen /\ t.thoughtOpen = b.thoughtOpen /\ SameSaid(s, t)
  BY <1>1, <1>3, GeminiEmit DEF SameSaid
<1> HIDE DEF t
<1> DEFINE h == Heard(s.thought, s.text)
<1>5. Reaches(c, s.out, View("open", {}, s.index, h))
  BY DEF GeminiAt, GeminiView
<1>6. Reaches(c, t.out, View("open", {[index |-> s.index, kind |-> k]}, s.index + 1, h))
  BY <1>2, <1>4, <1>5, ReachesOpen DEF e
<1>7. t.started /\ ~t.finished
  BY <1>4 DEF GeminiAt
<1>8. GeminiView(t, k) = View("open", {[index |-> s.index, kind |-> k]}, s.index + 1, h)
  BY <1>2, <1>4 DEF GeminiView, SameSaid
<1>9. GeminiAt(c, t, k)
  BY <1>1, <1>4, <1>6, <1>7, <1>8 DEF GeminiAt
<1>10. QED BY <1>4, <1>9 DEF t, e, b

\* It is closed.
Shut(s, k) ==
  IF k = "text" THEN [s EXCEPT !.textOpen = FALSE, !.index = s.index + 1]
  ELSE [s EXCEPT !.thoughtOpen = FALSE, !.index = s.index + 1]

\* The client sees it closed.
LEMMA GeminiShuts ==
  ASSUME NEW c, NEW s, NEW k \in {"text", "thinking"}, GeminiAt(c, s, k)
  PROVE  LET t == Emit(Shut(s, k), BlockStop(s.index)) IN
         GeminiAt(c, t, "none") /\ SameSaid(s, t)
<1> DEFINE b == Shut(s, k)
           e == BlockStop(s.index)
           t == Emit(b, e)
<1>1. /\ s \in GeminiStates /\ s.out \in Seq(Events) /\ s.index \in Nat /\ k \in Kinds
      /\ k # "none" /\ s.index + 1 \in Nat
  BY DEF GeminiAt, GeminiStates, Kinds
<1>2. \A n \in Nat :
        LET w == [s EXCEPT !.textOpen = FALSE, !.index = n]
            y == [s EXCEPT !.thoughtOpen = FALSE, !.index = n] IN
        /\ w \in GeminiStates /\ w.started = s.started /\ w.out = s.out /\ w.index = n
        /\ ~w.textOpen /\ w.thoughtOpen = s.thoughtOpen /\ w.finished = s.finished
        /\ SameSaid(s, w)
        /\ y \in GeminiStates /\ y.started = s.started /\ y.out = s.out /\ y.index = n
        /\ ~y.thoughtOpen /\ y.textOpen = s.textOpen /\ y.finished = s.finished
        /\ SameSaid(s, y)
  BY <1>1 DEF GeminiStates, SameSaid
<1>3. /\ b \in GeminiStates /\ b.started = s.started /\ b.out = s.out
      /\ b.index = s.index + 1 /\ b.finished = s.finished /\ SameSaid(s, b)
      /\ ~b.textOpen /\ ~b.thoughtOpen
  <2>1. s.textOpen = (k = "text") /\ s.thoughtOpen = (k = "thinking")
    BY <1>1 DEF GeminiAt, GeminiStates
  <2>2. CASE k = "text"
    BY <1>1, <1>2, <2>1, <2>2 DEF Shut
  <2>3. CASE k = "thinking"
    BY <1>1, <1>2, <2>1, <2>3 DEF Shut
  <2>4. QED BY <2>2, <2>3
<1> HIDE DEF b
<1>4. e \in Events
  BY <1>1, EventTypes
<1> HIDE DEF e
<1>5. /\ t \in GeminiStates /\ t.started = s.started /\ t.out = Append(s.out, e)
      /\ t.index = s.index + 1 /\ t.finished = s.finished
      /\ ~t.textOpen /\ ~t.thoughtOpen /\ SameSaid(s, t)
  BY <1>3, <1>4, GeminiEmit DEF SameSaid
<1> HIDE DEF t
<1> DEFINE h == Heard(s.thought, s.text)
<1>6. Reaches(c, s.out, View("open", {[index |-> s.index, kind |-> k]}, s.index + 1, h))
  BY <1>1 DEF GeminiAt, GeminiView
<1>7. Reaches(c, t.out, View("open", {}, s.index + 1, h))
  BY <1>1, <1>5, <1>6, ReachesClose DEF e
<1>8. t.started /\ ~t.finished
  BY <1>5 DEF GeminiAt
<1>9. GeminiView(t, "none") = View("open", {}, s.index + 1, h)
  BY <1>5 DEF GeminiView, SameSaid
<1>10. GeminiAt(c, t, "none")
  BY <1>5, <1>7, <1>8, <1>9 DEF GeminiAt
<1>11. QED BY <1>5, <1>10 DEF t, e, b

\* More of what the backend thinks or says is sent on.
Grown(s, k, n) ==
  IF k = "text" THEN [s EXCEPT !.text = n] ELSE [s EXCEPT !.thought = n]

\* The client hears what is new.
LEMMA GeminiMore ==
  ASSUME NEW c, NEW s, NEW k \in {"text", "thinking"}, GeminiAt(c, s, k),
         NEW n \in Nat, NEW p \in Nat,
         p = IF k = "text" THEN s.text ELSE s.thought, n >= p
  PROVE  LET t == Emit(Grown(s, k, n), Sized("block_delta", s.index, k, n - p)) IN
         /\ GeminiAt(c, t, k) /\ t.tools = s.tools
         /\ t.text = IF k = "text" THEN n ELSE s.text
         /\ t.thought = IF k = "text" THEN s.thought ELSE n
<1> DEFINE b == Grown(s, k, n)
           m == n - p
           e == Sized("block_delta", s.index, k, m)
           t == Emit(b, e)
           h == Heard(s.thought, s.text)
           g == Heard(b.thought, b.text)
<1>1. /\ s \in GeminiStates /\ s.out \in Seq(Events) /\ s.index \in Nat /\ k \in Kinds
      /\ k # "none" /\ m \in Nat /\ s.text \in Nat /\ s.thought \in Nat
  BY DEF GeminiAt, GeminiStates, Kinds
<1>2. /\ b \in GeminiStates /\ b.started = s.started /\ b.out = s.out
      /\ b.index = s.index /\ b.finished = s.finished
      /\ b.textOpen = s.textOpen /\ b.thoughtOpen = s.thoughtOpen /\ b.tools = s.tools
      /\ b.text = (IF k = "text" THEN n ELSE s.text)
      /\ b.thought = IF k = "text" THEN s.thought ELSE n
  <2>1. CASE k = "text"
    BY <1>1, <2>1 DEF GeminiStates, Grown
  <2>2. CASE k = "thinking"
    BY <1>1, <2>2 DEF GeminiStates, Grown
  <2>3. QED BY <2>1, <2>2
<1> HIDE DEF b
<1>3. e \in Events
  BY <1>1 DEF Events, Sized, Kinds
<1>4. [h EXCEPT ![k] = @ + m] = g
  <2>1. CASE k = "text"
    <3>1. h["text"] + m = n
      BY <1>1, <2>1 DEF Heard, Kinds
    <3>2. [h EXCEPT !["text"] = n] = Heard(s.thought, n)
      BY DEF Heard, Kinds
    <3>3. QED BY <1>2, <2>1, <3>1, <3>2
  <2>2. CASE k = "thinking"
    <3>1. h["thinking"] + m = n
      BY <1>1, <2>2 DEF Heard, Kinds
    <3>2. [h EXCEPT !["thinking"] = n] = Heard(n, s.text)
      BY DEF Heard, Kinds
    <3>3. QED BY <1>2, <2>2, <3>1, <3>2
  <2>3. QED BY <2>1, <2>2
<1> HIDE DEF e, m
<1>5. /\ t \in GeminiStates /\ t.started = s.started /\ t.out = Append(s.out, e)
      /\ t.index = s.index /\ t.finished = s.finished
      /\ t.textOpen = s.textOpen /\ t.thoughtOpen = s.thoughtOpen
      /\ t.tools = s.tools /\ t.text = b.text /\ t.thought = b.thought
  BY <1>2, <1>3, GeminiEmit DEF SameSaid
<1> HIDE DEF t
<1>6. Reaches(c, s.out, View("open", {[index |-> s.index, kind |-> k]}, s.index + 1, h))
  BY <1>1 DEF GeminiAt, GeminiView
<1> HIDE DEF h
<1>7. Reaches(c, t.out, View("open", {[index |-> s.index, kind |-> k]}, s.index + 1, g))
  <2>1. Reaches(c, Append(s.out, Sized("block_delta", s.index, k, m)),
                View("open", {[index |-> s.index, kind |-> k]}, s.index + 1,
                     [h EXCEPT ![k] = @ + m]))
    <3> HIDE DEF g
    <3>1. QED BY <1>1, <1>6, ReachesDelta, ZenonT(30)
  <2>2. [h EXCEPT ![k] = @ + m] = g
    BY <1>4 DEF h
  <2>3. t.out = Append(s.out, Sized("block_delta", s.index, k, m))
    BY <1>5 DEF e
  <2>4. QED BY <2>1, <2>2, <2>3
<1>8. t.started /\ ~t.finished /\ (t.textOpen <=> k = "text") /\ (t.thoughtOpen <=> k = "thinking")
  BY <1>5 DEF GeminiAt
<1>9. GeminiView(t, k) = View("open", {[index |-> s.index, kind |-> k]}, s.index + 1, g)
  BY <1>1, <1>5 DEF GeminiView
<1>10. GeminiAt(c, t, k)
  BY <1>5, <1>7, <1>8, <1>9 DEF GeminiAt
<1>11. QED BY <1>2, <1>5, <1>10 DEF t, e, m, b

GeminiOpenings == {"none", "text", "thinking"}

\* The fields of a state, one by one.
LEMMA GeminiTypes ==
  ASSUME NEW c, NEW s, NEW k, GeminiAt(c, s, k)
  PROVE  /\ s \in GeminiStates /\ s.out \in Seq(Events) /\ s.index \in Nat
         /\ s.text \in Nat /\ s.thought \in Nat /\ s.tools \in Nat
         /\ s.textOpen \in BOOLEAN /\ s.thoughtOpen \in BOOLEAN
         /\ s.started \in BOOLEAN /\ s.finished \in BOOLEAN
BY DEF GeminiAt, GeminiStates

\* The text block is closed, if there is one.
LEMMA GeminiClosesText ==
  ASSUME NEW c, NEW s, NEW k \in GeminiOpenings, GeminiAt(c, s, k)
  PROVE  /\ GeminiAt(c, Gemini!CloseText(s), IF k = "text" THEN "none" ELSE k)
         /\ SameSaid(s, Gemini!CloseText(s))
<1>1. CASE k = "text"
  <2>1. Gemini!CloseText(s) = Emit(Shut(s, k), BlockStop(s.index))
    BY <1>1, GeminiShared DEF Gemini!CloseText, Shut, GeminiAt
  <2>2. k \in {"text", "thinking"}
    BY <1>1
  <2>3. QED BY <1>1, <2>1, <2>2, GeminiShuts
<1>2. CASE k # "text"
  <2>1. Gemini!CloseText(s) = s
    BY <1>2 DEF Gemini!CloseText, GeminiAt
  <2>2. QED BY <1>2, <2>1 DEF SameSaid
<1>3. QED BY <1>1, <1>2

\* The thinking block is closed, if there is one.
LEMMA GeminiClosesThought ==
  ASSUME NEW c, NEW s, NEW k \in GeminiOpenings, GeminiAt(c, s, k)
  PROVE  /\ GeminiAt(c, Gemini!CloseThought(s), IF k = "thinking" THEN "none" ELSE k)
         /\ SameSaid(s, Gemini!CloseThought(s))
<1>1. CASE k = "thinking"
  <2>1. Gemini!CloseThought(s) = Emit(Shut(s, k), BlockStop(s.index))
    BY <1>1, GeminiShared DEF Gemini!CloseThought, Shut, GeminiAt
  <2>2. k \in {"text", "thinking"}
    BY <1>1
  <2>3. QED BY <1>1, <2>1, <2>2, GeminiShuts
<1>2. CASE k # "thinking"
  <2>1. Gemini!CloseThought(s) = s
    BY <1>2 DEF Gemini!CloseThought, GeminiAt
  <2>2. QED BY <1>2, <2>1 DEF SameSaid
<1>3. QED BY <1>1, <1>2

\* The thought of a response that is not shorter than before.
LEMMA GeminiThinks ==
  ASSUME NEW c, NEW s, NEW k \in GeminiOpenings, GeminiAt(c, s, k), NEW n \in Nat,
         n >= s.thought, n > s.thought => k # "text"
  PROVE  LET t == Gemini!Thought(s, n) IN
         /\ GeminiAt(c, t, IF n > s.thought THEN "thinking" ELSE k)
         /\ t.thought = n /\ t.text = s.text /\ t.tools = s.tools
<1>1. s.thought \in Nat /\ s \in GeminiStates
  BY GeminiTypes
<1>2. Gemini!guard_shrinkage(n, s.thought) = s.thought
  BY <1>1 DEF Gemini!guard_shrinkage
<1>3. CASE n = s.thought
  <2>1. Gemini!Thought(s, n) = [s EXCEPT !.thought = s.thought]
    BY <1>1, <1>2, <1>3 DEF Gemini!Thought
  <2>2. [s EXCEPT !.thought = s.thought] = s
    BY <1>1 DEF GeminiStates
  <2>3. ~(n > s.thought)
    BY <1>1, <1>3
  <2>4. QED BY <1>3, <2>1, <2>2, <2>3
<1>4. CASE n > s.thought
  <2> DEFINE o == IF s.thoughtOpen THEN s
                  ELSE Emit([s EXCEPT !.thoughtOpen = TRUE],
                            Block("block_start", s.index, "thinking"))
  <2>1. Gemini!Thought(s, n) = Emit([o EXCEPT !.thought = n],
                                    Sized("block_delta", o.index, "thinking", n - s.thought))
    <3>1. ~(n <= s.thought)
      BY <1>1, <1>4
    <3>2. Gemini!Thought(s, n) =
            LET c1 == s
                o1 == IF c1.thoughtOpen THEN c1
                      ELSE Gemini!Emit([c1 EXCEPT !.thoughtOpen = TRUE],
                                       Gemini!Block("block_start", c1.index, "thinking"))
            IN Gemini!Emit([o1 EXCEPT !.thought = n],
                           Gemini!Sized("block_delta", o1.index, "thinking", n - s.thought))
      BY <1>2, <3>1, ZenonT(30) DEF Gemini!Thought
    <3>3. QED BY <3>2, GeminiShared, ZenonT(30)
  <2>2. GeminiAt(c, o, "thinking") /\ SameSaid(s, o)
    <3>1. CASE k = "thinking"
      <4>1. s.thoughtOpen
        BY <3>1 DEF GeminiAt
      <4>2. o = s
        BY <4>1
      <4>3. QED BY <3>1, <4>2 DEF SameSaid
    <3>2. CASE k = "none"
      <4>1. ~s.thoughtOpen
        BY <3>2 DEF GeminiAt
      <4>2. o = Emit(Opened(s, "thinking"), Block("block_start", s.index, "thinking"))
        BY <4>1 DEF Opened
      <4>3. GeminiAt(c, s, "none")
        BY <3>2
      <4>4. QED BY <4>2, <4>3, GeminiOpens
    <3>3. QED BY <1>4, <3>1, <3>2 DEF GeminiOpenings
  <2> HIDE DEF o
  <2>3. o.thought = s.thought /\ o.text = s.text /\ o.tools = s.tools
    BY <2>2 DEF SameSaid
  <2>4. n >= s.thought
    BY <1>4
  <2> DEFINE t == Emit(Grown(o, "thinking", n),
                       Sized("block_delta", o.index, "thinking", n - s.thought))
  <2>5. /\ GeminiAt(c, t, "thinking") /\ t.tools = o.tools
        /\ t.text = o.text /\ t.thought = n
    BY <1>1, <2>2, <2>3, <2>4, GeminiMore
  <2>6. Gemini!Thought(s, n) = t
    BY <2>1 DEF Grown
  <2> HIDE DEF t
  <2>7. QED BY <1>4, <2>3, <2>5, <2>6
<1>5. QED BY <1>1, <1>3, <1>4

\* Its text.
LEMMA GeminiSays ==
  ASSUME NEW c, NEW s, NEW k \in GeminiOpenings, GeminiAt(c, s, k), NEW n \in Nat,
         n >= s.text
  PROVE  LET t == Gemini!Text(s, n) IN
         /\ GeminiAt(c, t, IF n > s.text THEN "text" ELSE k)
         /\ t.text = n /\ t.thought = s.thought /\ t.tools = s.tools
<1>1. s.text \in Nat /\ s \in GeminiStates
  BY GeminiTypes
<1>2. Gemini!guard_shrinkage(n, s.text) = s.text
  BY <1>1 DEF Gemini!guard_shrinkage
<1>3. CASE n = s.text
  <2>1. Gemini!Text(s, n) = [s EXCEPT !.text = s.text]
    BY <1>1, <1>2, <1>3 DEF Gemini!Text
  <2>2. [s EXCEPT !.text = s.text] = s
    BY <1>1 DEF GeminiStates
  <2>3. ~(n > s.text)
    BY <1>1, <1>3
  <2>4. QED BY <1>3, <2>1, <2>2, <2>3
<1>4. CASE n > s.text
  <2> DEFINE b == Gemini!CloseThought(s)
             o == IF b.textOpen THEN b
                  ELSE Emit([b EXCEPT !.textOpen = TRUE],
                            Block("block_start", b.index, "text"))
             l == IF k = "thinking" THEN "none" ELSE k
  <2>1. Gemini!Text(s, n) = Emit([o EXCEPT !.text = n],
                                 Sized("block_delta", o.index, "text", n - s.text))
    <3>1. ~(n <= s.text)
      BY <1>1, <1>4
    <3>2. Gemini!Text(s, n) =
            LET c1 == Gemini!CloseThought(s)
                o1 == IF c1.textOpen THEN c1
                      ELSE Gemini!Emit([c1 EXCEPT !.textOpen = TRUE],
                                       Gemini!Block("block_start", c1.index, "text"))
            IN Gemini!Emit([o1 EXCEPT !.text = n],
                           Gemini!Sized("block_delta", o1.index, "text", n - s.text))
      BY <1>2, <3>1, ZenonT(30) DEF Gemini!Text
    <3>3. QED BY <3>2, GeminiShared, ZenonT(30)
  <2>2. GeminiAt(c, b, l) /\ SameSaid(s, b)
    BY GeminiClosesThought
  <2>3. l \in {"none", "text"}
    BY DEF GeminiOpenings
  <2> HIDE DEF b, l
  <2>4. GeminiAt(c, o, "text") /\ SameSaid(s, o)
    <3>1. CASE l = "text"
      <4>1. b.textOpen
        BY <2>2, <3>1 DEF GeminiAt
      <4>2. o = b
        BY <4>1
      <4>3. QED BY <2>2, <3>1, <4>2
    <3>2. CASE l = "none"
      <4>1. ~b.textOpen
        BY <2>2, <3>2 DEF GeminiAt
      <4>2. o = Emit(Opened(b, "text"), Block("block_start", b.index, "text"))
        BY <4>1 DEF Opened
      <4>3. GeminiAt(c, b, "none")
        BY <2>2, <3>2
      <4> HIDE DEF o
      <4>4. GeminiAt(c, o, "text") /\ SameSaid(b, o)
        BY <4>2, <4>3, GeminiOpens
      <4>5. QED BY <2>2, <4>4 DEF SameSaid
    <3>3. QED BY <2>3, <3>1, <3>2
  <2> HIDE DEF o
  <2>5. o.thought = s.thought /\ o.text = s.text /\ o.tools = s.tools
    BY <2>4 DEF SameSaid
  <2>6. n >= s.text
    BY <1>4
  <2> DEFINE t == Emit(Grown(o, "text", n),
                       Sized("block_delta", o.index, "text", n - s.text))
  <2>7. /\ GeminiAt(c, t, "text") /\ t.tools = o.tools
        /\ t.text = n /\ t.thought = o.thought
    BY <1>1, <2>4, <2>5, <2>6, GeminiMore
  <2>8. Gemini!Text(s, n) = t
    BY <2>1 DEF Grown
  <2> HIDE DEF t
  <2>9. QED BY <1>4, <2>5, <2>7, <2>8
<1>5. QED BY <1>1, <1>3, <1>4

\* Its tool calls, of which only those that are new are sent.
LEMMA GeminiCalls ==
  ASSUME NEW c, NEW s, NEW k \in GeminiOpenings, GeminiAt(c, s, k), NEW n \in Nat,
         n >= s.tools, n > s.tools => k # "thinking"
  PROVE  LET t == Gemini!ToolCalls(s, n) IN
         /\ GeminiAt(c, t, IF n > s.tools THEN "none" ELSE k)
         /\ t.text = s.text /\ t.thought = s.thought /\ t.tools = n
<1>1. s.tools \in Nat /\ s \in GeminiStates
  BY GeminiTypes
<1>2. CASE n = s.tools
  <2>1. ~(n > s.tools) /\ n <= s.tools
    BY <1>1, <1>2
  <2>2. Gemini!ToolCalls(s, n) = s
    BY <2>1 DEF Gemini!ToolCalls
  <2>3. QED BY <1>2, <2>1, <2>2
<1>3. CASE n > s.tools
  <2> DEFINE b     == Gemini!CloseText(s)
             fresh == n - s.tools
             q     == b.out \o Calls(b.index, fresh)
             j     == b.index + fresh
             t     == [b EXCEPT !.tools = n, !.index = j, !.out = q]
  <2>1. fresh \in Nat /\ ~(n <= s.tools)
    BY <1>1, <1>3
  <2>2. Gemini!ToolCalls(s, n) = t
    <3>1. Gemini!ToolCalls(s, n) =
            [b EXCEPT !.tools = n, !.index = @ + fresh, !.out = @ \o Calls(b.index, fresh)]
      BY <2>1, ZenonT(30)
         DEF Gemini!ToolCalls, Calls, Gemini!Block, Block, Gemini!BlockStop, BlockStop,
             Gemini!Sized, Sized
    <3>2. QED BY <3>1, ZenonT(30)
  <2>3. (IF k = "text" THEN "none" ELSE k) = "none"
    BY <1>3 DEF GeminiOpenings
  <2>4. GeminiAt(c, b, "none") /\ SameSaid(s, b)
    BY <2>3, GeminiClosesText
  <2> HIDE DEF b, fresh
  <2> DEFINE h == Heard(b.thought, b.text)
  <2>5. /\ b \in GeminiStates /\ b.out \in Seq(Events) /\ b.index \in Nat
        /\ b.thought \in Nat /\ b.text \in Nat /\ j \in Nat
    BY <2>1, <2>4, GeminiTypes
  <2>6. h \in [Kinds -> Nat]
    BY <2>5, HeardType
  <2>7. Reaches(c, b.out, View("open", {}, b.index, h))
    BY <2>4 DEF GeminiAt, GeminiView
  <2> HIDE DEF h
  <2>8. /\ Calls(b.index, fresh) \in Seq(Events)
        /\ Reaches(View("open", {}, b.index, h), Calls(b.index, fresh),
                   View("open", {}, j, h))
    BY <2>1, <2>5, <2>6, ReachesCalls
  <2> HIDE DEF j
  <2>9. q \in Seq(Events)
    BY <2>5, <2>8
  <2>10. Reaches(c, q, View("open", {}, j, h))
    BY <2>5, <2>7, <2>8, ReachesJoin
  <2> HIDE DEF q
  <2>11. /\ t \in GeminiStates /\ t.started = b.started /\ t.finished = b.finished
         /\ t.textOpen = b.textOpen /\ t.thoughtOpen = b.thoughtOpen
         /\ t.text = b.text /\ t.thought = b.thought
         /\ t.tools = n /\ t.index = j /\ t.out = q
    <3>1. \A j1 \in Nat, q1 \in Seq(Events) :
            LET u == [b EXCEPT !.tools = n, !.index = j1, !.out = q1] IN
            /\ u \in GeminiStates /\ u.started = b.started /\ u.finished = b.finished
            /\ u.textOpen = b.textOpen /\ u.thoughtOpen = b.thoughtOpen
            /\ u.text = b.text /\ u.thought = b.thought
            /\ u.tools = n /\ u.index = j1 /\ u.out = q1
      BY <2>5 DEF GeminiStates
    <3>2. QED BY <2>5, <2>9, <3>1
  <2> HIDE DEF t
  <2>12. GeminiView(t, "none") = View("open", {}, j, h)
    BY <2>11 DEF GeminiView, h
  <2>13. GeminiAt(c, t, "none")
    BY <2>4, <2>10, <2>11, <2>12 DEF GeminiAt
  <2>14. QED BY <1>3, <2>2, <2>4, <2>11, <2>13 DEF SameSaid
<1>4. QED BY <1>1, <1>2, <1>3

\* The message ends in any state.
LEMMA GeminiEnds ==
  ASSUME NEW c, NEW s, NEW k \in GeminiOpenings, GeminiAt(c, s, k)
  PROVE  GeminiOver(c, Gemini!finish(s)) /\ SameSaid(s, Gemini!finish(s))
<1> DEFINE a == Gemini!CloseThought(s)
           b == Gemini!CloseText(a)
           f == [b EXCEPT !.finished = TRUE]
           d == Emit(f, Plain("message_delta"))
           t == Emit(d, Plain("message_stop"))
           l == IF k = "thinking" THEN "none" ELSE k
<1>1. Gemini!finish(s) = t
  BY GeminiShared DEF Gemini!finish, GeminiAt
<1>2. GeminiAt(c, a, l) /\ SameSaid(s, a) /\ l \in GeminiOpenings
  BY GeminiClosesThought DEF GeminiOpenings
<1>3. (IF l = "text" THEN "none" ELSE l) = "none"
  BY DEF GeminiOpenings
<1> HIDE DEF a, l
<1>4. GeminiAt(c, b, "none") /\ SameSaid(a, b)
  BY <1>2, <1>3, GeminiClosesText
<1>5. SameSaid(s, b)
  BY <1>2, <1>4 DEF SameSaid
<1> HIDE DEF b
<1>6. f \in GeminiStates /\ f.started /\ f.finished /\ f.out = b.out /\ SameSaid(b, f)
  BY <1>4 DEF GeminiAt, GeminiStates, SameSaid
<1> HIDE DEF f
<1>7. Plain("message_delta") \in Events /\ Plain("message_stop") \in Events
  BY EventTypes
<1>8. /\ d \in GeminiStates /\ d.started /\ d.finished /\ SameSaid(f, d)
      /\ d.out = Append(b.out, Plain("message_delta"))
  BY <1>6, <1>7, GeminiEmit
<1> HIDE DEF d
<1>9. /\ t \in GeminiStates /\ t.started /\ t.finished /\ SameSaid(d, t)
      /\ t.out = Append(d.out, Plain("message_stop"))
  BY <1>7, <1>8, GeminiEmit
<1> HIDE DEF t
<1>10. SameSaid(s, t)
  BY <1>5, <1>6, <1>8, <1>9 DEF SameSaid
<1>11. b.out \in Seq(Events) /\ d.out \in Seq(Events)
  BY <1>4, <1>8 DEF GeminiAt, GeminiStates
<1>12. Heard(b.thought, b.text) = Heard(t.thought, t.text)
  BY <1>5, <1>10 DEF SameSaid
<1>13. Reaches(c, b.out, View("open", {}, b.index, Heard(t.thought, t.text)))
  BY <1>4, <1>12 DEF GeminiAt, GeminiView
<1>14. Reaches(c, d.out, View("ending", {}, b.index, Heard(t.thought, t.text)))
  BY <1>8, <1>11, <1>13, ReachesEnd
<1>15. Reaches(c, t.out, View("stopped", {}, b.index, Heard(t.thought, t.text)))
  BY <1>9, <1>11, <1>14, ReachesStop
<1>16. GeminiOver(c, t)
  BY <1>9, <1>15 DEF GeminiOver
<1>17. QED BY <1>1, <1>10, <1>16

-----------------------------------------------------------------------------
(* The translator of a Gemini backend: usual answers *)

\* The translator has sent on everything the last response held.  A thought is
\* only open while nothing else has been said.
GeminiSaid(s, x) ==
  /\ s.thought = x.thought /\ s.text = x.text /\ s.tools = x.tools
  /\ x.longest = [thinking |-> x.thought, text |-> x.text]

GeminiMatch(c, s, x) ==
  /\ GeminiSaid(s, x)
  /\ \/ /\ ~x.begun /\ ~x.finish /\ x.thought = 0 /\ x.text = 0 /\ x.tools = 0
        /\ GeminiFresh(c, s)
     \/ x.begun /\ ~x.finish /\ \E k \in GeminiOpenings :
          /\ GeminiAt(c, s, k)
          /\ k = "thinking" => x.text = 0 /\ x.tools = 0 /\ x.thought > 0
          /\ k = "text" => x.text > 0
     \/ x.begun /\ GeminiOver(c, s)

\* A translator that matches a client is well typed.
LEMMA GeminiMatchType ==
  ASSUME NEW c, NEW s, NEW x, GeminiMatch(c, s, x)
  PROVE  s \in GeminiStates
BY DEF GeminiMatch, GeminiFresh, GeminiAt, GeminiOver

GeminiSent == [thought : 0 .. MaxLength, text : 0 .. MaxLength, tools : 0 .. MaxItems,
               finish : BOOLEAN, begun : BOOLEAN,
               longest : [{"thinking", "text"} -> 0 .. MaxLength]]

\* What a usual backend may say next, and how that is remembered.
LEMMA GeminiNextResponses ==
  ASSUME Usual("GeminiNative"), sent \in GeminiSent, NEW e \in Gemini!NextResponses
  PROVE  /\ e.candidate \in BOOLEAN /\ e.finish \in BOOLEAN
         /\ e.thought \in 0 .. MaxLength /\ e.text \in 0 .. MaxLength
         /\ e.tools \in 0 .. MaxItems
         /\ e.thought \in Nat /\ e.text \in Nat /\ e.tools \in Nat
         /\ e.thought >= sent.thought /\ e.text >= sent.text /\ e.tools >= sent.tools
         /\ ~e.candidate => /\ e.thought = sent.thought /\ e.text = sent.text
                            /\ e.tools = sent.tools /\ e.finish = sent.finish
         /\ e.thought > sent.thought => sent.text = 0 /\ sent.tools = 0
         /\ e.tools > sent.tools /\ e.thought > 0 => e.text > 0
         /\ sent.finish => /\ e.thought = sent.thought /\ e.text = sent.text
                           /\ e.tools = sent.tools /\ e.finish
<1>1. e \in [candidate : BOOLEAN, thought : 0 .. MaxLength, text : 0 .. MaxLength,
             tools : 0 .. MaxItems, finish : BOOLEAN]
  BY DEF Gemini!NextResponses
<1>2. /\ e.thought \in Nat /\ e.text \in Nat /\ e.tools \in Nat
      /\ e.candidate \in BOOLEAN /\ e.finish \in BOOLEAN
      /\ e.thought \in 0 .. MaxLength /\ e.text \in 0 .. MaxLength
      /\ e.tools \in 0 .. MaxItems
  BY <1>1, BoundsAssumption
<1>3. /\ ~e.candidate => e = [candidate |-> FALSE, thought |-> sent.thought,
                              text |-> sent.text, tools |-> sent.tools,
                              finish |-> sent.finish]
      /\ e.thought >= sent.thought /\ e.text >= sent.text /\ e.tools >= sent.tools
      /\ e.thought > sent.thought => sent.text = 0 /\ sent.tools = 0
      /\ e.tools > sent.tools /\ e.thought > 0 => e.text > 0
      /\ sent.finish => /\ e.thought = sent.thought /\ e.text = sent.text
                        /\ e.tools = sent.tools /\ e.finish
  BY UsualMeans DEF Gemini!NextResponses
<1>4. ~e.candidate => /\ e.thought = sent.thought /\ e.text = sent.text
                      /\ e.tools = sent.tools /\ e.finish = sent.finish
  BY <1>3
<1>5. QED BY <1>2, <1>3, <1>4

\* What is remembered of it: the longest thought and text are the last.
LEMMA GeminiSentAfter ==
  ASSUME Usual("GeminiNative"), sent \in GeminiSent, NEW e \in Gemini!NextResponses,
         sent.longest = [thinking |-> sent.thought, text |-> sent.text]
  PROVE  LET x == Gemini!SentAfter(e) IN
         /\ x \in GeminiSent /\ x.begun /\ x.finish = e.finish
         /\ x.thought = e.thought /\ x.text = e.text /\ x.tools = e.tools
         /\ x.longest = [thinking |-> e.thought, text |-> e.text]
<1> DEFINE x == Gemini!SentAfter(e)
           l == [thinking |-> e.thought, text |-> e.text]
<1>1. sent.thought \in Nat /\ sent.text \in Nat
  BY BoundsAssumption DEF GeminiSent
<1>2. /\ Gemini!Longer(sent.longest.thinking, e.thought) = e.thought
      /\ Gemini!Longer(sent.longest.text, e.text) = e.text
  BY <1>1, GeminiNextResponses DEF Gemini!Longer
<1>3. x = [thought |-> e.thought, text |-> e.text, tools |-> e.tools, finish |-> e.finish,
           begun |-> TRUE, longest |-> l]
  BY <1>2 DEF Gemini!SentAfter
<1>4. l \in [{"thinking", "text"} -> 0 .. MaxLength]
  BY GeminiNextResponses
<1> HIDE DEF l
<1>5. x \in GeminiSent
  BY <1>3, <1>4, GeminiNextResponses DEF GeminiSent
<1>6. /\ x.begun /\ x.finish = e.finish
      /\ x.thought = e.thought /\ x.text = e.text /\ x.tools = e.tools
      /\ x.longest = l
  BY <1>3
<1>7. QED BY <1>5, <1>6 DEF l

\* A response of which nothing is new moves nothing.
LEMMA GeminiRepeats ==
  ASSUME NEW s \in GeminiStates, s.started,
         NEW e, e.thought = s.thought, e.text = s.text, e.tools = s.tools,
         e.finish => s.finished
  PROVE  Gemini!process_response(s, e) = s
<1>1. s.thought \in Nat /\ s.text \in Nat /\ s.tools \in Nat
  BY DEF GeminiStates
<1>2. Gemini!BeginMessage(s) = s
  BY DEF Gemini!BeginMessage
<1>3. [s EXCEPT !.thought = s.thought] = s /\ [s EXCEPT !.text = s.text] = s
  BY DEF GeminiStates
<1>4. Gemini!Thought(s, e.thought) = s
  <2>1. Gemini!guard_shrinkage(e.thought, s.thought) = s.thought /\ e.thought <= s.thought
    BY <1>1 DEF Gemini!guard_shrinkage
  <2>2. Gemini!Thought(s, e.thought) = [s EXCEPT !.thought = s.thought]
    BY <2>1, ZenonT(30) DEF Gemini!Thought
  <2>3. QED BY <1>3, <2>2
<1>5. Gemini!Text(s, e.text) = s
  <2>1. Gemini!guard_shrinkage(e.text, s.text) = s.text /\ e.text <= s.text
    BY <1>1 DEF Gemini!guard_shrinkage
  <2>2. Gemini!Text(s, e.text) = [s EXCEPT !.text = s.text]
    BY <2>1, ZenonT(30) DEF Gemini!Text
  <2>3. QED BY <1>3, <2>2
<1>6. Gemini!ToolCalls(s, e.tools) = s
  <2>1. e.tools <= s.tools
    BY <1>1
  <2>2. QED BY <2>1, ZenonT(30) DEF Gemini!ToolCalls
<1>7. e.finish => Gemini!finish(s) = s
  BY DEF Gemini!finish
<1>8. QED BY <1>2, <1>4, <1>5, <1>6, <1>7, ZenonT(30) DEF Gemini!process_response

\* A response in the course of the message.
LEMMA GeminiSpeaks ==
  ASSUME NEW c, Usual("GeminiNative"), sent \in GeminiSent, NEW e \in Gemini!NextResponses,
         NEW s, NEW k \in GeminiOpenings, GeminiAt(c, s, k), GeminiSaid(s, sent),
         k = "thinking" => sent.text = 0 /\ sent.tools = 0 /\ sent.thought > 0,
         k = "text" => sent.text > 0
  PROVE  LET u == Gemini!ToolCalls(Gemini!Text(Gemini!Thought(s, e.thought), e.text), e.tools)
         IN /\ u.thought = e.thought /\ u.text = e.text /\ u.tools = e.tools
            /\ \E l \in GeminiOpenings :
                 /\ GeminiAt(c, u, l)
                 /\ l = "thinking" => e.text = 0 /\ e.tools = 0 /\ e.thought > 0
                 /\ l = "text" => e.text > 0
<1> DEFINE a == Gemini!Thought(s, e.thought)
           b == Gemini!Text(a, e.text)
           u == Gemini!ToolCalls(b, e.tools)
           k1 == IF e.thought > s.thought THEN "thinking" ELSE k
           k2 == IF e.text > s.text THEN "text" ELSE k1
           k3 == IF e.tools > s.tools THEN "none" ELSE k2
<1>1. /\ e.thought \in Nat /\ e.text \in Nat /\ e.tools \in Nat
      /\ e.thought >= s.thought /\ e.text >= s.text /\ e.tools >= s.tools
      /\ e.thought > s.thought => s.text = 0 /\ s.tools = 0
      /\ e.tools > s.tools /\ e.thought > 0 => e.text > 0
      /\ k = "thinking" => s.text = 0 /\ s.tools = 0 /\ s.thought > 0
      /\ k = "text" => s.text > 0
  BY GeminiNextResponses DEF GeminiSaid
<1>2. s.thought \in Nat /\ s.text \in Nat /\ s.tools \in Nat
  BY GeminiTypes
<1>3. e.thought > s.thought => k # "text"
  BY <1>1, <1>2
<1>4. /\ GeminiAt(c, a, k1) /\ a.thought = e.thought /\ a.text = s.text
      /\ a.tools = s.tools
  BY <1>1, <1>3, GeminiThinks
<1>5. k1 \in GeminiOpenings
  BY DEF GeminiOpenings
<1>6. k1 = "thinking" => s.text = 0 /\ s.tools = 0 /\ e.thought > 0
  BY <1>1, <1>2
<1>7. k1 = "text" => s.text > 0
  BY <1>1, <1>2
<1> HIDE DEF a, k1
<1>8. /\ GeminiAt(c, b, k2) /\ b.text = e.text /\ b.thought = e.thought
      /\ b.tools = s.tools
  BY <1>1, <1>4, <1>5, GeminiSays
<1>9. k2 \in GeminiOpenings
  BY <1>5 DEF GeminiOpenings
<1>10. k2 = "thinking" => e.text = 0 /\ s.tools = 0 /\ e.thought > 0
  BY <1>1, <1>2, <1>6
<1>11. k2 = "text" => e.text > 0
  BY <1>1, <1>2, <1>7
<1> HIDE DEF b, k2
<1>12. e.tools > s.tools => k2 # "thinking"
  BY <1>1, <1>10
<1>13. /\ GeminiAt(c, u, k3) /\ u.text = e.text /\ u.thought = e.thought
       /\ u.tools = e.tools
  BY <1>1, <1>8, <1>9, <1>12, GeminiCalls
<1>14. k3 \in GeminiOpenings
  BY <1>9 DEF GeminiOpenings
<1>15. k3 = "thinking" => e.text = 0 /\ e.tools = 0 /\ e.thought > 0
  BY <1>1, <1>2, <1>10
<1>16. k3 = "text" => e.text > 0
  BY <1>11
<1> HIDE DEF u, k3
<1>17. QED BY <1>13, <1>14, <1>15, <1>16 DEF u, b, a

\* A response of a usual answer.
LEMMA GeminiResponse ==
  ASSUME NEW c, Usual("GeminiNative"), sent \in GeminiSent, NEW e \in Gemini!NextResponses,
         GeminiMatch(c, st, sent), st.finished => sent.finish
  PROVE  LET t == Gemini!process_response(st, e)
             x == Gemini!SentAfter(e)
         IN GeminiMatch(c, t, x) /\ (t.finished => x.finish)
<1> DEFINE t == Gemini!process_response(st, e)
           x == Gemini!SentAfter(e)
<1>1. /\ st.thought = sent.thought /\ st.text = sent.text /\ st.tools = sent.tools
      /\ sent.longest = [thinking |-> sent.thought, text |-> sent.text]
  BY DEF GeminiMatch, GeminiSaid
<1>2. /\ x \in GeminiSent /\ x.begun /\ x.finish = e.finish
      /\ x.thought = e.thought /\ x.text = e.text /\ x.tools = e.tools
      /\ x.longest = [thinking |-> e.thought, text |-> e.text]
  BY <1>1, GeminiSentAfter
<1> HIDE DEF x
<1>3. CASE GeminiOver(c, st)
  <2>1. st \in GeminiStates /\ st.started /\ st.finished
    BY <1>3 DEF GeminiOver
  <2>2. /\ e.thought = st.thought /\ e.text = st.text /\ e.tools = st.tools /\ e.finish
    BY <1>1, <2>1, GeminiNextResponses
  <2>3. t = st
    BY <2>1, <2>2, GeminiRepeats
  <2> HIDE DEF t
  <2>4. GeminiMatch(c, t, x)
    BY <1>2, <1>3, <2>2, <2>3 DEF GeminiMatch, GeminiSaid
  <2>5. QED BY <1>2, <2>2, <2>3, <2>4 DEF x, t
<1>4. ASSUME NEW s, s = Gemini!BeginMessage(st), NEW k \in GeminiOpenings,
             GeminiAt(c, s, k), GeminiSaid(s, sent), ~sent.finish,
             k = "thinking" => sent.text = 0 /\ sent.tools = 0 /\ sent.thought > 0,
             k = "text" => sent.text > 0
      PROVE  GeminiMatch(c, t, x) /\ (t.finished => x.finish)
  <2> DEFINE u == Gemini!ToolCalls(Gemini!Text(Gemini!Thought(s, e.thought), e.text), e.tools)
  <2>1. CASE ~e.candidate
    <3>1. t = s
      BY <1>4, <2>1 DEF Gemini!process_response
    <3>2. /\ e.thought = sent.thought /\ e.text = sent.text /\ e.tools = sent.tools
          /\ e.finish = sent.finish
      BY <2>1, GeminiNextResponses
    <3> HIDE DEF t
    <3>3. ~t.finished
      BY <1>4, <3>1 DEF GeminiAt
    <3>4. GeminiMatch(c, t, x)
      BY <1>2, <1>4, <3>1, <3>2 DEF GeminiMatch, GeminiSaid
    <3>5. QED BY <3>3, <3>4
  <2>2. /\ u.thought = e.thought /\ u.text = e.text /\ u.tools = e.tools
        /\ \E l \in GeminiOpenings :
             /\ GeminiAt(c, u, l)
             /\ l = "thinking" => e.text = 0 /\ e.tools = 0 /\ e.thought > 0
             /\ l = "text" => e.text > 0
    BY <1>4, GeminiSpeaks
  <2>3. CASE e.candidate /\ e.finish
    <3>1. t = Gemini!finish(u)
      BY <1>4, <2>3 DEF Gemini!process_response
    <3> HIDE DEF t, u
    <3>2. PICK l \in GeminiOpenings : GeminiAt(c, u, l)
      BY <2>2
    <3>3. GeminiOver(c, t) /\ SameSaid(u, t)
      BY <3>1, <3>2, GeminiEnds
    <3>4. GeminiMatch(c, t, x)
      BY <1>2, <2>2, <3>3 DEF GeminiMatch, GeminiSaid, SameSaid
    <3>5. QED BY <1>2, <2>3, <3>4
  <2>4. CASE e.candidate /\ ~e.finish
    <3>1. t = u
      BY <1>4, <2>4 DEF Gemini!process_response
    <3> HIDE DEF t, u
    <3>2. ~t.finished
      BY <2>2, <3>1 DEF GeminiAt
    <3>3. GeminiMatch(c, t, x)
      BY <1>2, <2>2, <2>4, <3>1 DEF GeminiMatch, GeminiSaid
    <3>4. QED BY <3>2, <3>3
  <2>5. e.candidate \in BOOLEAN
    BY GeminiNextResponses
  <2>6. QED BY <2>1, <2>3, <2>4, <2>5
<1>5. CASE /\ ~sent.begun /\ ~sent.finish /\ sent.thought = 0 /\ sent.text = 0 /\ sent.tools = 0
           /\ GeminiFresh(c, st)
  <2> DEFINE s == Gemini!BeginMessage(st)
  <2>1. GeminiAt(c, s, "none") /\ SameSaid(st, s)
    BY <1>5, GeminiBegins
  <2>2. "none" \in GeminiOpenings /\ s = Gemini!BeginMessage(st)
    BY DEF GeminiOpenings
  <2> HIDE DEF s, t
  <2>3. GeminiSaid(s, sent)
    BY <1>1, <2>1 DEF GeminiSaid, SameSaid
  <2>4. QED BY <1>4, <1>5, <2>1, <2>2, <2>3 DEF x, t
<1>6. CASE /\ ~sent.finish
           /\ \E k \in GeminiOpenings :
                /\ GeminiAt(c, st, k)
                /\ k = "thinking" => sent.text = 0 /\ sent.tools = 0 /\ sent.thought > 0
                /\ k = "text" => sent.text > 0
  <2>1. PICK k \in GeminiOpenings :
                /\ GeminiAt(c, st, k)
                /\ k = "thinking" => sent.text = 0 /\ sent.tools = 0 /\ sent.thought > 0
                /\ k = "text" => sent.text > 0
    BY <1>6
  <2>2. st = Gemini!BeginMessage(st)
    BY <2>1 DEF Gemini!BeginMessage, GeminiAt
  <2>3. GeminiSaid(st, sent)
    BY <1>1 DEF GeminiSaid
  <2> HIDE DEF t
  <2>4. QED BY <1>4, <1>6, <2>1, <2>2, <2>3 DEF x, t
<1>7. QED BY <1>3, <1>5, <1>6 DEF GeminiMatch, x

\* The end of the stream, wherever the message is.
LEMMA GeminiStops ==
  ASSUME NEW c, NEW s, NEW x, x.begun, GeminiMatch(c, s, x)
  PROVE  GeminiMatch(c, Gemini!finish(s), x)
<1>1. GeminiSaid(s, x)
  BY DEF GeminiMatch
<1>2. CASE GeminiOver(c, s)
  <2>1. Gemini!finish(s) = s
    BY <1>2 DEF GeminiOver, Gemini!finish
  <2>2. QED BY <2>1
<1>3. CASE \E k \in GeminiOpenings : GeminiAt(c, s, k)
  <2>1. GeminiOver(c, Gemini!finish(s)) /\ SameSaid(s, Gemini!finish(s))
    BY <1>3, GeminiEnds
  <2>2. GeminiSaid(Gemini!finish(s), x)
    BY <1>1, <2>1 DEF GeminiSaid, SameSaid
  <2>3. QED BY <2>1, <2>2 DEF GeminiMatch
<1>4. QED BY <1>2, <1>3 DEF GeminiMatch

\* A state with another queue.
LEMMA GeminiTypeOut ==
  ASSUME NEW s \in GeminiStates, NEW q \in Seq(Events)
  PROVE  LET t == [s EXCEPT !.out = q] IN
         /\ t \in GeminiStates /\ t.out = q
         /\ t.started = s.started /\ t.index = s.index /\ t.finished = s.finished
         /\ t.textOpen = s.textOpen /\ t.thoughtOpen = s.thoughtOpen /\ SameSaid(s, t)
BY DEF GeminiStates, SameSaid

\* The queue may be replaced by any that leads another client to the same view.
LEMMA GeminiMoves ==
  ASSUME NEW c, NEW s, NEW x, NEW q \in Seq(Events), GeminiMatch(c, s, x)
  PROVE  \E d : /\ Reaches(c, s.out, d)
                /\ \A c2 : Reaches(c2, q, d) => GeminiMatch(c2, [s EXCEPT !.out = q], x)
<1> DEFINE t == [s EXCEPT !.out = q]
<1>1. /\ t \in GeminiStates /\ t.out = q
      /\ t.started = s.started /\ t.index = s.index /\ t.finished = s.finished
      /\ t.textOpen = s.textOpen /\ t.thoughtOpen = s.thoughtOpen
      /\ t.text = s.text /\ t.thought = s.thought /\ t.tools = s.tools
  BY GeminiMatchType, GeminiTypeOut DEF SameSaid
<1> HIDE DEF t
<1> SUFFICES \E d : /\ Reaches(c, s.out, d)
                    /\ \A c2 : Reaches(c2, q, d) => GeminiMatch(c2, t, x)
  BY DEF t
<1>2. GeminiSaid(t, x)
  BY <1>1 DEF GeminiMatch, GeminiSaid
<1>3. CASE /\ ~x.begun /\ ~x.finish /\ x.thought = 0 /\ x.text = 0 /\ x.tools = 0
           /\ GeminiFresh(c, s)
  <2> DEFINE d == View("idle", {}, s.index, Heard(s.thought, s.text))
  <2>1. Reaches(c, s.out, d)
    BY <1>3 DEF GeminiFresh
  <2>2. ASSUME NEW c2, Reaches(c2, q, d)
        PROVE  GeminiFresh(c2, t)
    BY <1>1, <1>3, <2>2 DEF GeminiFresh
  <2>3. QED BY <1>2, <1>3, <2>1, <2>2 DEF GeminiMatch
<1>4. ASSUME x.begun, ~x.finish, NEW k \in GeminiOpenings, GeminiAt(c, s, k),
             k = "thinking" => x.text = 0 /\ x.tools = 0 /\ x.thought > 0,
             k = "text" => x.text > 0
      PROVE  \E d : /\ Reaches(c, s.out, d)
                    /\ \A c2 : Reaches(c2, q, d) => GeminiMatch(c2, t, x)
  <2>1. Reaches(c, s.out, GeminiView(s, k))
    BY <1>4 DEF GeminiAt
  <2>2. GeminiView(t, k) = GeminiView(s, k)
    BY <1>1 DEF GeminiView
  <2>3. ASSUME NEW c2, Reaches(c2, q, GeminiView(s, k))
        PROVE  GeminiAt(c2, t, k)
    BY <1>1, <1>4, <2>2, <2>3 DEF GeminiAt
  <2>4. QED BY <1>2, <1>4, <2>1, <2>3 DEF GeminiMatch
<1>5. CASE x.begun /\ GeminiOver(c, s)
  <2>1. PICK n : Reaches(c, s.out, View("stopped", {}, n, Heard(s.thought, s.text)))
    BY <1>5 DEF GeminiOver
  <2>2. ASSUME NEW c2, Reaches(c2, q, View("stopped", {}, n, Heard(s.thought, s.text)))
        PROVE  GeminiOver(c2, t)
    BY <1>1, <1>5, <2>2 DEF GeminiOver
  <2>3. QED BY <1>2, <1>5, <2>1, <2>2 DEF GeminiMatch
<1>6. QED BY <1>3, <1>4, <1>5 DEF GeminiMatch

-----------------------------------------------------------------------------
(* The task between a Gemini backend and its client *)

\* While it is read, an answer is finished by the backend alone.
GeminiInv ==
  /\ TaskInv
  /\ sent \in GeminiSent
  /\ st \in GeminiStates /\ GeminiSaid(st, sent)
  /\ reader = "reading" /\ st.finished => sent.finish
  /\ reader # "broken" => \E c : GeminiMatch(c, st, sent) /\ (connected => c = client)

\* The stream starts with the invariant.
LEMMA GeminiInit == Gemini!Init => GeminiInv
<1> SUFFICES ASSUME Gemini!Init PROVE GeminiInv
  OBVIOUS
<1> DEFINE q == <<>>
           l == [thinking |-> 0, text |-> 0]
           v == View("idle", {}, 0, Heard(0, 0))
<1>1. q \in Seq(Events) /\ l \in [{"thinking", "text"} -> 0 .. MaxLength]
  BY BoundsAssumption
<1>2. Heard(0, 0) = Silent
  BY DEF Heard, Silent
<1>3. client = v
  BY <1>2 DEF Gemini!Init, Gemini!TaskInit, View, Silent, Gemini!Kinds, Kinds
<1>4. v \in Clients
  BY <1>2, ClientsStart
<1> HIDE DEF v
<1>5. Reaches(client, q, v)
  BY <1>3, <1>4, ReachesNothing
<1>6. /\ st = [started |-> FALSE, index |-> 0, textOpen |-> FALSE, thoughtOpen |-> FALSE,
               text |-> 0, thought |-> 0, tools |-> 0, finished |-> FALSE, out |-> q]
      /\ sent = [thought |-> 0, text |-> 0, tools |-> 0, finish |-> FALSE,
                 begun |-> FALSE, longest |-> l]
  BY DEF Gemini!Init
<1>7. l = [thinking |-> 0, text |-> 0]
  OBVIOUS
<1> HIDE DEF q, l
<1>8. st \in GeminiStates
  BY <1>1, <1>6 DEF GeminiStates
<1>9. /\ ~st.started /\ ~st.finished /\ ~st.textOpen /\ ~st.thoughtOpen /\ st.out = q
      /\ st.index = 0 /\ st.text = 0 /\ st.thought = 0 /\ st.tools = 0
  BY <1>6
<1>10. /\ ~sent.begun /\ ~sent.finish /\ sent.thought = 0 /\ sent.text = 0
       /\ sent.tools = 0 /\ sent.longest = l
  BY <1>6
<1>11. sent \in GeminiSent
  BY <1>1, <1>6, BoundsAssumption DEF GeminiSent
<1>12. GeminiFresh(client, st)
  BY <1>5, <1>8, <1>9 DEF GeminiFresh, v
<1>13. GeminiSaid(st, sent)
  BY <1>7, <1>9, <1>10 DEF GeminiSaid
<1>14. GeminiMatch(client, st, sent)
  BY <1>10, <1>12, <1>13 DEF GeminiMatch
<1>15. done = FALSE /\ reader = "reading" /\ connected = TRUE
  BY DEF Gemini!Init, Gemini!TaskInit
<1>16. TaskInv
  BY <1>3, <1>4, <1>15 DEF TaskInv
<1>17. QED BY <1>8, <1>9, <1>11, <1>13, <1>14, <1>16 DEF GeminiInv

\* The task reads the backend.
LEMMA GeminiReads ==
  ASSUME Usual("GeminiNative"), GeminiInv, Gemini!ReadResponse \/ Gemini!ReadEnd
  PROVE  GeminiInv' /\ Legal
<1>1. /\ reader = "reading" /\ UNCHANGED <<done, connected, client>>
      /\ reader' \in {"reading", "completed"}
  BY DEF Gemini!ReadResponse, Gemini!ReadEnd, Gemini!Reading
<1>2. PICK c : GeminiMatch(c, st, sent) /\ (connected => c = client)
  BY <1>1 DEF GeminiInv
<1>3. /\ GeminiMatch(c, st', sent') /\ sent' \in GeminiSent
      /\ reader' = "reading" /\ st'.finished => sent'.finish
  <2>1. CASE Gemini!ReadResponse
    <3>1. PICK e \in Gemini!NextResponses :
            st' = Gemini!process_response(st, e) /\ sent' = Gemini!SentAfter(e)
      BY <2>1 DEF Gemini!ReadResponse
    <3>2. sent \in GeminiSent /\ (st.finished => sent.finish)
      BY <1>1 DEF GeminiInv
    <3>3. GeminiMatch(c, st', sent') /\ (st'.finished => sent'.finish)
      BY <1>2, <3>1, <3>2, GeminiResponse
    <3>4. sent.longest = [thinking |-> sent.thought, text |-> sent.text]
      BY DEF GeminiInv, GeminiSaid
    <3>5. sent' \in GeminiSent
      BY <3>1, <3>2, <3>4, GeminiSentAfter
    <3>6. QED BY <3>3, <3>5
  <2>2. CASE Gemini!ReadEnd
    <3>1. /\ sent' = sent /\ sent.begun /\ st' = Gemini!finish(st)
          /\ reader' = "completed"
      BY <2>2, UsualMeans DEF Gemini!ReadEnd
    <3>2. GeminiMatch(c, st', sent)
      BY <1>2, <3>1, GeminiStops
    <3>3. QED BY <3>1, <3>2 DEF GeminiInv
  <2>3. QED BY <2>1, <2>2
<1>4. st' \in GeminiStates /\ GeminiSaid(st', sent')
  BY <1>3, GeminiMatchType DEF GeminiMatch
<1>5. TaskInv'
  BY <1>1 DEF GeminiInv, TaskInv, Outcomes
<1>6. connected' => c = client'
  BY <1>1, <1>2
<1>7. GeminiInv'
  BY <1>3, <1>4, <1>5, <1>6 DEF GeminiInv
<1>8. QED BY <1>1, <1>7, Unheard

\* The task sends an event.
LEMMA GeminiSends ==
  ASSUME GeminiInv, Gemini!Send
  PROVE  GeminiInv' /\ Legal
<1> DEFINE q == Tail(st.out)
<1>1. /\ connected /\ st.out # <<>> /\ st' = [st EXCEPT !.out = q]
      /\ client' = Sees(client, Head(st.out)) /\ UNCHANGED <<sent, done, reader, connected>>
  BY GeminiShared DEF Gemini!Send
<1>2. GeminiMatch(client, st, sent)
  BY <1>1 DEF GeminiInv, TaskInv
<1>3. st \in GeminiStates /\ st.out \in Seq(Events)
  BY DEF GeminiInv, GeminiStates
<1>4. q \in Seq(Events)
  BY <1>1, <1>3
<1> HIDE DEF q
<1>5. PICK d : /\ Reaches(client, st.out, d)
               /\ \A c2 : Reaches(c2, q, d) => GeminiMatch(c2, [st EXCEPT !.out = q], sent)
  BY <1>2, <1>4, GeminiMoves
<1>6. client' \in Clients /\ Reaches(client', q, d) /\ Legal
  BY <1>1, <1>3, <1>5, TaskSends DEF q
<1>7. GeminiMatch(client', st', sent')
  BY <1>1, <1>5, <1>6
<1>8. st' \in GeminiStates /\ GeminiSaid(st', sent')
  BY <1>7, GeminiMatchType DEF GeminiMatch
<1>9. TaskInv'
  BY <1>1, <1>6 DEF GeminiInv, TaskInv
<1>10. st'.finished = st.finished
  BY <1>1, <1>3, <1>4, GeminiTypeOut
<1>11. sent' \in GeminiSent /\ (reader' = "reading" /\ st'.finished => sent'.finish)
  BY <1>1, <1>10 DEF GeminiInv
<1>12. QED BY <1>6, <1>7, <1>8, <1>9, <1>11 DEF GeminiInv

\* The task is broken off, or the client leaves.
LEMMA GeminiDrops ==
  ASSUME GeminiInv,
         Gemini!ReadError \/ Gemini!Leave \/ Gemini!SendEndFails
         \/ UNCHANGED <<vars, backend>>
  PROVE  GeminiInv' /\ Legal
<1> USE DEF Outcomes
<1>1. CASE Gemini!ReadError
  <2>1. /\ reader = "reading" /\ st.out = <<>> /\ reader' = "broken"
        /\ UNCHANGED <<sent, st, done, connected, client>>
    BY <1>1 DEF Gemini!ReadError, Gemini!Reading
  <2>2. TaskInv'
    BY <2>1 DEF GeminiInv, TaskInv
  <2>3. GeminiSaid(st', sent')
    BY <2>1 DEF GeminiInv, GeminiSaid
  <2>4. QED BY <2>1, <2>2, <2>3, Unheard DEF GeminiInv
<1>2. CASE Gemini!Leave
  <2>1. connected' = FALSE /\ UNCHANGED <<sent, st, done, reader, client>>
    BY <1>2 DEF Gemini!Leave
  <2>2. TaskInv'
    BY <2>1 DEF GeminiInv, TaskInv
  <2>3. ASSUME reader # "broken"
        PROVE  \E c : GeminiMatch(c, st', sent') /\ (connected' => c = client')
    <3>1. PICK c : GeminiMatch(c, st, sent)
      BY <2>3 DEF GeminiInv
    <3>2. GeminiMatch(c, st', sent')
      BY <2>1, <3>1
    <3>3. QED BY <2>1, <3>2
  <2>4. GeminiSaid(st', sent')
    BY <2>1 DEF GeminiInv, GeminiSaid
  <2>5. QED BY <2>1, <2>2, <2>3, <2>4, Unheard DEF GeminiInv
<1>3. CASE Gemini!SendEndFails
  <2> DEFINE q == <<>>
  <2>1. /\ ~connected /\ st.out # <<>> /\ st' = [st EXCEPT !.out = q]
        /\ reader' = "disconnected" /\ UNCHANGED <<sent, done, connected, client>>
    BY <1>3 DEF Gemini!SendEndFails, Gemini!DropEvents
  <2>2. q \in Seq(Events) /\ q = <<>> /\ reader # "broken"
    BY <2>1 DEF GeminiInv, TaskInv
  <2> HIDE DEF q
  <2>3. st' \in GeminiStates /\ st'.out = q /\ SameSaid(st, st')
    BY <2>1, <2>2, GeminiTypeOut DEF GeminiInv
  <2>4. TaskInv'
    BY <2>1, <2>2, <2>3 DEF GeminiInv, TaskInv
  <2>5. GeminiSaid(st', sent')
    BY <2>1, <2>3 DEF GeminiInv, GeminiSaid, SameSaid
  <2>6. \E d : GeminiMatch(d, st', sent')
    <3>1. PICK c : GeminiMatch(c, st, sent)
      BY <2>2 DEF GeminiInv
    <3>2. PICK d : /\ Reaches(c, st.out, d)
                   /\ \A c2 : Reaches(c2, q, d) => GeminiMatch(c2, [st EXCEPT !.out = q], sent)
      BY <2>2, <3>1, GeminiMoves
    <3>3. st.out \in Seq(Events)
      BY DEF GeminiInv, GeminiStates
    <3>4. Reaches(d, q, d)
      BY <2>2, <3>2, <3>3, ReachesType, ReachesNothing
    <3>5. QED BY <2>1, <3>2, <3>4
  <2>7. QED BY <2>1, <2>3, <2>4, <2>5, <2>6, Unheard DEF GeminiInv
<1>4. CASE UNCHANGED <<vars, backend>>
  <2>1. TaskInv' /\ UNCHANGED <<sent, st, done, reader, connected, client>>
    BY <1>4 DEF vars, GeminiInv, TaskInv
  <2>2. ASSUME reader # "broken"
        PROVE  \E c : GeminiMatch(c, st', sent') /\ (connected' => c = client')
    <3>1. PICK c : GeminiMatch(c, st, sent) /\ (connected => c = client)
      BY <2>2 DEF GeminiInv
    <3>2. GeminiMatch(c, st', sent')
      BY <2>1, <3>1
    <3>3. QED BY <2>1, <3>1, <3>2
  <2>3. GeminiSaid(st', sent')
    BY <2>1 DEF GeminiInv, GeminiSaid
  <2>4. QED BY <2>1, <2>2, <2>3, Unheard DEF GeminiInv
<1>5. QED BY <1>1, <1>2, <1>3, <1>4

\* Every step of the task.
LEMMA GeminiSteps ==
  ASSUME Usual("GeminiNative"), GeminiInv, Gemini!Next \/ UNCHANGED <<vars, backend>>
  PROVE  GeminiInv' /\ Legal
BY GeminiReads, GeminiSends, GeminiDrops DEF Gemini!Next

\* Between two responses the client is where the queue has led it.
LEMMA GeminiBetween ==
  ASSUME GeminiInv, Gemini!Reading, connected
  PROVE  /\ GeminiMatch(client, st, sent)
         /\ \A d : Reaches(client, st.out, d) => client = d
<1>1. reader = "reading" /\ st.out = <<>>
  BY DEF Gemini!Reading
<1>2. GeminiMatch(client, st, sent)
  BY <1>1 DEF GeminiInv
<1>3. \A d : Reaches(client, st.out, d) => client = d
  BY <1>1, ReachesSame
<1>4. QED BY <1>2, <1>3

\* Between two responses the client has open what the translator has open.
LEMMA GeminiInStep == GeminiInv => Gemini!InStep
<1> SUFFICES ASSUME GeminiInv, Gemini!Reading, connected
             PROVE  /\ ~st.finished => /\ client.open = Gemini!OpenBlocks
                                       /\ st.started <=> client.stage # "idle"
                    /\ st.finished <=> client.stage = "stopped"
  BY DEF Gemini!InStep
<1>1. GeminiMatch(client, st, sent)
  BY GeminiBetween
<1>2. \A d : Reaches(client, st.out, d) => client = d
  BY GeminiBetween
<1>3. CASE GeminiFresh(client, st)
  <2>1. /\ client = View("idle", {}, st.index, Heard(st.thought, st.text))
        /\ ~st.started /\ ~st.finished /\ ~st.textOpen /\ ~st.thoughtOpen
    BY <1>2, <1>3 DEF GeminiFresh
  <2>2. Gemini!OpenBlocks = {}
    BY <2>1 DEF Gemini!OpenBlocks
  <2>3. QED BY <2>1, <2>2 DEF View
<1>4. CASE \E k \in GeminiOpenings : GeminiAt(client, st, k)
  <2>1. PICK k \in GeminiOpenings : GeminiAt(client, st, k)
    BY <1>4
  <2>2. client = GeminiView(st, k)
    BY <1>2, <2>1 DEF GeminiAt
  <2>3. /\ st.started /\ ~st.finished
        /\ st.textOpen <=> k = "text"
        /\ st.thoughtOpen <=> k = "thinking"
    BY <2>1 DEF GeminiAt
  <2>4. Gemini!OpenBlocks = IF k = "none" THEN {} ELSE {[index |-> st.index, kind |-> k]}
    <3>1. CASE k = "none"
      BY <2>3, <3>1 DEF Gemini!OpenBlocks
    <3>2. CASE k = "text"
      BY <2>3, <3>2 DEF Gemini!OpenBlocks
    <3>3. CASE k = "thinking"
      BY <2>3, <3>3 DEF Gemini!OpenBlocks
    <3>4. QED BY <3>1, <3>2, <3>3 DEF GeminiOpenings
  <2>5. /\ client.stage = "open"
        /\ client.open = IF k = "none" THEN {} ELSE {[index |-> st.index, kind |-> k]}
    BY <2>2 DEF GeminiView, View
  <2>6. QED BY <2>3, <2>4, <2>5
<1>5. CASE GeminiOver(client, st)
  <2>1. st.finished /\ client.stage = "stopped"
    BY <1>2, <1>5 DEF GeminiOver, View
  <2>2. QED BY <2>1
<1>6. QED BY <1>1, <1>3, <1>4, <1>5 DEF GeminiMatch

-----------------------------------------------------------------------------
(* The streaming endpoints: usual answers *)

SysInv ==
  /\ backend \in Backends
  /\ backend = "OpenAI"          => OpenAIInv
  /\ backend = "OpenAIResponses" => ResponsesInv
  /\ backend = "GeminiNative"    => GeminiInv

\* There are three kinds of backends.
LEMMA BackendKinds ==
  ASSUME SysInv
  PROVE  backend \in {"OpenAI", "OpenAIResponses", "GeminiNative"}
BY BackendsAssumption DEF SysInv

\* Whatever the backend, the stream starts with its invariant.
LEMMA SysStart == Init => SysInv
<1> SUFFICES ASSUME Init PROVE SysInv
  OBVIOUS
<1>1. backend \in {"OpenAI", "OpenAIResponses", "GeminiNative"} /\ backend \in Backends
  BY BackendsAssumption DEF Init
<1>2. CASE backend = "OpenAI"
  BY <1>1, <1>2, OpenAIInit DEF Init, SysInv
<1>3. CASE backend = "OpenAIResponses"
  BY <1>1, <1>3, ResponsesInit DEF Init, SysInv
<1>4. CASE backend = "GeminiNative"
  BY <1>1, <1>4, GeminiInit DEF Init, SysInv
<1>5. QED BY <1>1, <1>2, <1>3, <1>4

\* And every step keeps it, and tells the client nothing illegal.
LEMMA SysStep ==
  ASSUME \A b \in Backends : Usual(b), SysInv, [Next]_<<vars, backend>>
  PROVE  SysInv' /\ Legal
<1>1. backend' = backend
  BY DEF Next, OpenAINext, ResponsesNext, GeminiNext
<1>2. CASE backend = "OpenAI"
  <2>1. OpenAI!Next \/ UNCHANGED <<vars, backend>>
    BY <1>2 DEF Next, OpenAINext, ResponsesNext, GeminiNext
  <2>2. OpenAIInv' /\ Legal
    BY <1>2, <2>1, OpenAISteps DEF SysInv
  <2>3. QED BY <1>1, <1>2, <2>2 DEF SysInv
<1>3. CASE backend = "OpenAIResponses"
  <2>1. Responses!Next \/ UNCHANGED <<vars, backend>>
    BY <1>3 DEF Next, OpenAINext, ResponsesNext, GeminiNext
  <2>2. ResponsesInv' /\ Legal
    BY <1>3, <2>1, ResponsesSteps DEF SysInv
  <2>3. QED BY <1>1, <1>3, <2>2 DEF SysInv
<1>4. CASE backend = "GeminiNative"
  <2>1. Gemini!Next \/ UNCHANGED <<vars, backend>>
    BY <1>4 DEF Next, OpenAINext, ResponsesNext, GeminiNext
  <2>2. GeminiInv' /\ Legal
    BY <1>4, <2>1, GeminiSteps DEF SysInv
  <2>3. QED BY <1>1, <1>4, <2>2 DEF SysInv
<1>5. QED BY <1>2, <1>3, <1>4, BackendKinds

\* Between two frames of a usual answer the client has the blocks open that the
\* translator between it and the backend thinks are open, and knows of the
\* beginning and the end of the message when the translator does.
THEOREM UsualInStep ==
  ASSUME \A b \in Backends : Usual(b)
  PROVE  Spec => []InStep
<1>1. Init => SysInv
  BY SysStart
<1>2. SysInv /\ [Next]_<<vars, backend>> => SysInv'
  BY SysStep
<1>3. SysInv => InStep
  BY BackendKinds, OpenAIInStep, ResponsesInStep, GeminiInStep DEF SysInv, InStep
<1>4. QED BY <1>1, <1>2, <1>3, PTL DEF Spec

\* What the client of a usual answer sees is a legal message, whichever
\* translator wrote it and wherever the stream breaks off: the endpoints
\* implement MessageStream.
THEOREM UsualProtocol ==
  ASSUME \A b \in Backends : Usual(b)
  PROVE  Spec => ProtocolKept
<1>1. Init => SysInv
  BY SysStart
<1>2. SysInv /\ [Next]_<<vars, backend>> => SysInv' /\ Legal
  BY SysStep
<1>3. Init => Protocol!Init
  <2> SUFFICES ASSUME Init PROVE Protocol!Init
    OBVIOUS
  <2>1. backend \in {"OpenAI", "OpenAIResponses", "GeminiNative"}
    BY BackendsAssumption DEF Init
  <2>2. OpenAI!TaskInit \/ Responses!TaskInit \/ Gemini!TaskInit
    BY <2>1 DEF Init, OpenAI!Init, Responses!Init, Gemini!Init
  <2>3. client.stage = "idle" /\ client.open = {} /\ client.next = 0
    BY <2>2 DEF OpenAI!TaskInit, Responses!TaskInit, Gemini!TaskInit
  <2>4. QED BY <2>3 DEF Protocol!Init
<1>4. QED BY <1>1, <1>2, <1>3, PTL DEF Spec, ProtocolKept, Protocol!Spec, Legal

-----------------------------------------------------------------------------
(* The end of a stream, whatever the backend does *)

\* The last event of a queue ends the message.
Closing(out) == out # <<>> /\ out[Len(out)].type \in {"message_stop", "error"}

\* A translator that has finished says no more, and one that finishes says so.
Concludes(s, t) == IF s.finished THEN t = s ELSE t.finished => Closing(t.out)

\* The two events that end a message.
LEMMA ClosedBy ==
  ASSUME NEW q \in Seq(Events), NEW e \in {"message_stop", "error"}
  PROVE  Closing(Append(q, Plain(e)))
<1>1. Plain(e) \in Events /\ Plain(e).type = e
  BY EventTypes DEF Plain, Block, Sized
<1>2. Append(q, Plain(e))[Len(Append(q, Plain(e)))] = Plain(e) /\ Append(q, Plain(e)) # <<>>
  BY <1>1
<1>3. QED BY <1>1, <1>2 DEF Closing

-----------------------------------------------------------------------------
(* An OpenAI-compatible backend, whatever it does *)

\* A part of process_chunk that leaves the tools alone keeps the types.
LEMMA OpenAIKeepsTools ==
  ASSUME NEW s, NEW t \in OpenAIStates, OpenAIType(s), SameTools(s, t)
  PROVE  OpenAIType(t)
BY DEF OpenAIType, SameTools, LastOpen

\* What a chunk says is sent in events of the translator's types.
LEMMA OpenAISaysTyped ==
  ASSUME NEW s, OpenAIType(s)
  PROVE  /\ OpenAIType(OpenAI!BeginMessage(s)) /\ SameTools(s, OpenAI!BeginMessage(s))
         /\ OpenAIType(OpenAI!CloseText(s)) /\ SameTools(s, OpenAI!CloseText(s))
         /\ OpenAIType(OpenAI!CloseThinking(s)) /\ SameTools(s, OpenAI!CloseThinking(s))
         /\ OpenAIType(OpenAI!Reasoning(s)) /\ SameTools(s, OpenAI!Reasoning(s))
         /\ OpenAIType(OpenAI!Refusal(s)) /\ SameTools(s, OpenAI!Refusal(s))
<1>1. s \in OpenAIStates
  BY DEF OpenAIType
<1>2. OpenAIType(OpenAI!BeginMessage(s)) /\ SameTools(s, OpenAI!BeginMessage(s))
  BY <1>1, OpenAIBegin, OpenAIKeepsTools
<1>3. OpenAIType(OpenAI!CloseText(s)) /\ SameTools(s, OpenAI!CloseText(s))
  BY <1>1, OpenAICloseText, OpenAIKeepsTools
<1>4. OpenAIType(OpenAI!CloseThinking(s)) /\ SameTools(s, OpenAI!CloseThinking(s))
  BY <1>1, OpenAICloseThinking, OpenAIKeepsTools
<1>5. ASSUME NEW o \in OpenAIStates, NEW k \in Kinds, SameTools(s, o)
      PROVE  LET t == Emit(o, Block("block_delta", o.index, k)) IN
             OpenAIType(t) /\ SameTools(s, t)
  <2> DEFINE t == Emit(o, Block("block_delta", o.index, k))
  <2>1. Block("block_delta", o.index, k) \in Events
    BY EventTypes DEF OpenAIStates
  <2>2. t \in OpenAIStates /\ SameTools(o, t)
    BY <2>1, OpenAIEmit
  <2>3. OpenAIType(o)
    BY <1>5, OpenAIKeepsTools
  <2> HIDE DEF t
  <2>4. OpenAIType(t)
    BY <2>2, <2>3, OpenAIKeepsTools
  <2>5. QED BY <1>5, <2>2, <2>4 DEF t, SameTools
<1>6. OpenAIType(OpenAI!Reasoning(s)) /\ SameTools(s, OpenAI!Reasoning(s))
  <2> DEFINE o == OpenAI!OpenThinking(s)
  <2>1. o \in OpenAIStates /\ SameTools(s, o)
    BY <1>1, OpenAIOpenThinking
  <2>2. OpenAI!Reasoning(s) = Emit(o, Block("block_delta", o.index, "thinking"))
    BY OpenAIShared DEF OpenAI!Reasoning
  <2> HIDE DEF o
  <2>3. "thinking" \in Kinds
    BY DEF Kinds
  <2>4. QED BY <1>5, <2>1, <2>2, <2>3
<1>7. OpenAIType(OpenAI!Refusal(s)) /\ SameTools(s, OpenAI!Refusal(s))
  <2> DEFINE o == OpenAI!OpenText(s)
  <2>1. o \in OpenAIStates /\ SameTools(s, o)
    BY <1>1, OpenAIOpenText
  <2>2. OpenAI!Refusal(s) = Emit(o, Block("block_delta", o.index, "text"))
    BY OpenAIShared DEF OpenAI!Refusal
  <2> HIDE DEF o
  <2>3. "text" \in Kinds
    BY DEF Kinds
  <2>4. QED BY <1>5, <2>1, <2>2, <2>3
<1>8. QED BY <1>2, <1>3, <1>4, <1>6, <1>7

\* Content is a refusal's text after the thinking block was closed.
LEMMA OpenAIContentTyped ==
  ASSUME NEW s, OpenAIType(s)
  PROVE  OpenAIType(OpenAI!Content(s)) /\ SameTools(s, OpenAI!Content(s))
<1> DEFINE b == OpenAI!CloseThinking(s)
<1>1. OpenAI!Content(s) = OpenAI!Refusal(b)
  BY DEF OpenAI!Content, OpenAI!Refusal
<1>2. OpenAIType(b) /\ SameTools(s, b)
  BY OpenAISaysTyped
<1> HIDE DEF b
<1>3. QED BY <1>1, <1>2, OpenAISaysTyped DEF SameTools

\* A tool call is put behind those there have been, or belongs to one of them.
LEMMA OpenAIToolTyped ==
  ASSUME NEW s, OpenAIType(s), NEW n \in Nat, Len(s.tools) <= n, NEW tc,
         tc.index \in Nat, tc.index = n \/ tc.name = "absent"
  PROVE  LET t == OpenAI!ToolCall(s, tc) IN
         /\ OpenAIType(t) /\ t.finished = s.finished
         /\ Len(t.tools) <= IF tc.index = n THEN n + 1 ELSE n
<1> DEFINE b == OpenAI!CloseText(s)
           c == OpenAI!CloseLastTool(b)
           t == OpenAI!ToolCall(s, tc)
<1>1. OpenAIType(b) /\ b.tools = s.tools /\ b.finished = s.finished
  BY OpenAISaysTyped DEF SameTools
<1>2. b \in OpenAIStates /\ LastOpen(b)
  BY <1>1 DEF OpenAIType
<1> HIDE DEF b
<1>3. /\ c \in OpenAIStates /\ Len(c.tools) = Len(b.tools) /\ c.finished = s.finished
      /\ \A i \in 1 .. Len(b.tools) : c.tools[i].closed
  BY <1>1, <1>2, OpenAICloseLastTool DEF SameFlags
<1>4. OpenAI!CloseLastTool(OpenAI!CloseText(s)) = c
  BY DEF b
<1>5. \/ t = s
      \/ t = OpenAI!Arguments(s, tc)
      \/ /\ tc.name = "given" /\ ~(tc.index > MaxToolIndex)
         /\ t = OpenAI!Arguments(OpenAI!OpenTool(c, tc), tc)
      \/ t = c
  BY <1>4 DEF OpenAI!ToolCall
<1> HIDE DEF c, t
<1>6. Len(s.tools) \in Nat /\ Len(s.tools) <= MaxToolIndex + 1
  BY DEF OpenAIType, OpenAIStates
<1>7. CASE t = s
  BY <1>6, <1>7 DEF t
<1>8. CASE t = OpenAI!Arguments(s, tc)
  <2>1. t \in OpenAIStates /\ t.tools = s.tools /\ t.finished = s.finished
    BY <1>8, OpenAIArguments DEF OpenAIType, SameFlags
  <2>2. OpenAIType(t)
    BY <2>1 DEF OpenAIType, LastOpen
  <2>3. QED BY <1>6, <2>1, <2>2 DEF t
<1>9. CASE t = c
  <2>1. Len(t.tools) = Len(s.tools) /\ t \in OpenAIStates /\ t.finished = s.finished
    BY <1>1, <1>3, <1>9
  <2>2. LastOpen(t)
    BY <1>1, <1>3, <1>6, <1>9 DEF LastOpen
  <2>3. QED BY <1>6, <2>1, <2>2 DEF OpenAIType, t
<1>10. CASE /\ tc.name = "given" /\ ~(tc.index > MaxToolIndex)
            /\ t = OpenAI!Arguments(OpenAI!OpenTool(c, tc), tc)
  <2> DEFINE o == OpenAI!OpenTool(c, tc)
  <2>1. tc.index = n /\ tc.index >= Len(c.tools) /\ \A i \in 1 .. Len(c.tools) : c.tools[i].closed
    BY <1>1, <1>3, <1>10
  <2>2. o \in OpenAIStates /\ SameFlags(c, o) /\ LastOpen(o) /\ Len(o.tools) = tc.index + 1
    BY <1>3, <2>1, OpenAIOpenTool
  <2> HIDE DEF o
  <2>3. t \in OpenAIStates /\ t.tools = o.tools /\ t.finished = s.finished
    BY <1>3, <1>10, <2>2, OpenAIArguments DEF o, SameFlags
  <2>4. LastOpen(t) /\ Len(t.tools) = n + 1
    BY <2>1, <2>2, <2>3 DEF LastOpen
  <2>5. n + 1 <= MaxToolIndex + 1
    BY <1>10, <2>1, BoundsAssumption
  <2>6. QED BY <2>1, <2>3, <2>4, <2>5 DEF OpenAIType, t
<1>11. QED BY <1>5, <1>7, <1>8, <1>9, <1>10

\* An end is an event, too; no tools are kept beyond the end of the content.
LEMMA OpenAIEndsTyped ==
  ASSUME NEW s, OpenAIType(s)
  PROVE  /\ OpenAIType(OpenAI!EndContent(s)) /\ OpenAI!EndContent(s).tools = <<>>
         /\ OpenAI!EndContent(s).finished = s.finished
         /\ OpenAIType(OpenAI!Fail(s)) /\ OpenAI!Fail(s).tools = s.tools
         /\ Closing(OpenAI!Fail(s).out)
         /\ OpenAIType(OpenAI!finish(s)) /\ OpenAI!finish(s).tools = s.tools
         /\ OpenAI!finish(s).finished /\ Concludes(s, OpenAI!finish(s))
<1>1. /\ OpenAIType(OpenAI!EndContent(s)) /\ OpenAI!EndContent(s).tools = <<>>
      /\ OpenAI!EndContent(s).finished = s.finished
  <2> DEFINE a == OpenAI!CloseThinking(s)
             b == OpenAI!CloseText(a)
             f == OpenAI!FlushTools(b)
             t == Emit(f, Plain("message_delta"))
  <2>1. OpenAI!EndContent(s) = t
    BY OpenAIShared DEF OpenAI!EndContent
  <2>2. OpenAIType(a) /\ a.finished = s.finished
    BY OpenAISaysTyped DEF SameTools
  <2> HIDE DEF a
  <2>3. OpenAIType(b) /\ b.finished = s.finished
    BY <2>2, OpenAISaysTyped DEF SameTools
  <2> HIDE DEF b
  <2>4. f \in OpenAIStates /\ f.tools = <<>> /\ f.finished = s.finished
    BY <2>3, OpenAIFlushTools DEF OpenAIType, SameFlags
  <2> HIDE DEF f
  <2>5. t \in OpenAIStates /\ t.tools = <<>> /\ t.finished = s.finished
    BY <2>4, OpenAIEmit, EventTypes DEF SameTools
  <2> HIDE DEF t
  <2>6. OpenAIType(t)
    BY <2>5, BoundsAssumption DEF OpenAIType, LastOpen
  <2>7. QED BY <2>1, <2>5, <2>6
<1>2. ASSUME NEW e \in {"error", "message_stop"}
      PROVE  LET t == OpenAI!Emit([s EXCEPT !.finished = TRUE], OpenAI!Plain(e)) IN
             OpenAIType(t) /\ t.tools = s.tools /\ t.finished /\ Closing(t.out)
  <2> DEFINE b == [s EXCEPT !.finished = TRUE]
             t == Emit(b, Plain(e))
  <2>1. OpenAI!Emit([s EXCEPT !.finished = TRUE], OpenAI!Plain(e)) = t
    BY OpenAIShared
  <2>2. b \in OpenAIStates /\ b.tools = s.tools /\ b.finished
    BY DEF OpenAIType, OpenAIStates
  <2> HIDE DEF b
  <2>3. Plain(e) \in Events
    BY EventTypes
  <2>4. t \in OpenAIStates /\ t.tools = s.tools /\ t.finished /\ t.out = Append(b.out, Plain(e))
    BY <2>2, <2>3, OpenAIEmit DEF SameTools
  <2>5. Closing(t.out)
    BY <2>2, <2>3, <2>4, ClosedBy DEF OpenAIStates
  <2> HIDE DEF t
  <2>6. OpenAIType(t)
    BY <2>4 DEF OpenAIType, LastOpen
  <2>7. QED BY <2>1, <2>4, <2>5, <2>6
<1>3. /\ OpenAIType(OpenAI!Fail(s)) /\ OpenAI!Fail(s).tools = s.tools
      /\ Closing(OpenAI!Fail(s).out)
  BY <1>2 DEF OpenAI!Fail
<1>4. /\ OpenAIType(OpenAI!finish(s)) /\ OpenAI!finish(s).tools = s.tools
      /\ OpenAI!finish(s).finished /\ Concludes(s, OpenAI!finish(s))
  <2>1. CASE s.finished
    BY <2>1 DEF OpenAI!finish, Concludes
  <2>2. CASE ~s.finished
    BY <1>2, <2>2 DEF OpenAI!finish, Concludes
  <2>3. QED BY <2>1, <2>2
<1>5. QED BY <1>1, <1>3, <1>4

\* A chunk, whatever is in it, and the number of calls there have been.
LEMMA OpenAIChunkTyped ==
  ASSUME OpenAIType(st), sent.calls \in Nat, Len(st.tools) <= sent.calls,
         NEW ch \in OpenAI!NextChunks
  PROVE  LET t == OpenAI!process_chunk(st, ch) IN
         /\ OpenAIType(t) /\ Len(t.tools) <= OpenAI!SentAfter(ch).calls
         /\ Concludes(st, t)
<1> DEFINE t == OpenAI!process_chunk(st, ch)
           n == OpenAI!SentAfter(ch).calls
           b == OpenAI!BeginMessage(st)
           r == IF ch.reasoning THEN OpenAI!Reasoning(b) ELSE b
           w == IF ch.content THEN OpenAI!Content(r) ELSE r
           f == IF ch.refusal THEN OpenAI!Refusal(w) ELSE w
           u == IF ch.tool # OpenAI!NoTool THEN OpenAI!ToolCall(f, ch.tool) ELSE f
<1>1. /\ ch.tool # OpenAI!NoTool =>
           /\ ch.tool \in OpenAI!NextToolCalls /\ ch.tool.index \in Nat
           /\ ch.tool.index = sent.calls \/ ch.tool.name = "absent"
  <2>1. ch.tool \in {OpenAI!NoTool} \cup OpenAI!NextToolCalls
    BY DEF OpenAI!NextChunks
  <2>2. \A tc \in OpenAI!NextToolCalls :
          tc.index \in Nat /\ (tc.index = sent.calls \/ tc.name = "absent")
    BY BoundsAssumption DEF OpenAI!NextToolCalls, OpenAI!ToolCalls
  <2>3. QED BY <2>1, <2>2
<1>2. n = IF ch.tool # OpenAI!NoTool /\ ch.tool.index = sent.calls
          THEN sent.calls + 1 ELSE sent.calls
  BY DEF OpenAI!SentAfter
<1>3. \/ t = st
      \/ ~st.finished /\ t = OpenAI!Fail(st)
      \/ ~st.finished /\ t = OpenAI!Fail(u)
      \/ ~st.finished /\ t = OpenAI!EndContent(u)
      \/ ~st.finished /\ t = u
  BY DEF OpenAI!process_chunk
<1> HIDE DEF t, n
<1>4. Len(st.tools) \in Nat
  BY DEF OpenAIType, OpenAIStates
<1>5. OpenAIType(b) /\ b.tools = st.tools /\ b.finished = st.finished
  BY OpenAISaysTyped DEF SameTools
<1> HIDE DEF b
<1>6. OpenAIType(r) /\ r.tools = st.tools /\ r.finished = st.finished
  BY <1>5, OpenAISaysTyped DEF SameTools
<1> HIDE DEF r
<1>7. OpenAIType(w) /\ w.tools = st.tools /\ w.finished = st.finished
  BY <1>6, OpenAIContentTyped DEF SameTools
<1> HIDE DEF w
<1>8. OpenAIType(f) /\ f.tools = st.tools /\ f.finished = st.finished
  BY <1>7, OpenAISaysTyped DEF SameTools
<1> HIDE DEF f
<1>9. OpenAIType(u) /\ Len(u.tools) <= n /\ u.finished = st.finished
  <2>1. CASE ch.tool # OpenAI!NoTool
    BY <1>1, <1>2, <1>8, <2>1, OpenAIToolTyped
  <2>2. CASE ch.tool = OpenAI!NoTool
    BY <1>2, <1>8, <2>2
  <2>3. QED BY <2>1, <2>2
<1> HIDE DEF u
<1>10. Len(<<>>) = 0 /\ n \in Nat /\ sent.calls <= n
  BY <1>2
<1>11. CASE t = st \/ (~st.finished /\ t = OpenAI!Fail(st))
  <2>1. OpenAIType(t) /\ t.tools = st.tools /\ Concludes(st, t)
    BY <1>11, OpenAIEndsTyped DEF Concludes
  <2>2. QED BY <1>4, <1>10, <2>1 DEF t, n
<1>12. CASE ~st.finished /\ (t = u \/ t = OpenAI!Fail(u))
  <2>1. OpenAIType(t) /\ t.tools = u.tools /\ Concludes(st, t)
    BY <1>9, <1>12, OpenAIEndsTyped DEF Concludes
  <2>2. QED BY <1>9, <2>1 DEF t, n
<1>13. CASE ~st.finished /\ t = OpenAI!EndContent(u)
  <2>1. OpenAIType(t) /\ t.tools = <<>> /\ Concludes(st, t)
    BY <1>9, <1>13, OpenAIEndsTyped DEF Concludes
  <2>2. QED BY <1>10, <2>1 DEF t, n
<1>14. QED BY <1>3, <1>11, <1>12, <1>13

\* Whatever the backend does: the types, and no tool but those it has called.
OpenAITypes ==
  /\ TaskInv
  /\ sent \in [stage : OpenAI!Stages, calls : 0 .. MaxTools]
  /\ OpenAIType(st) /\ Len(st.tools) <= sent.calls

\* An event makes a client of a client, and leaves a queue of events.
LEMMA TaskSendsAny ==
  ASSUME st.out \in Seq(Events), st.out # <<>>, client \in Clients,
         client' = Sees(client, Head(st.out))
  PROVE  client' \in Clients /\ Tail(st.out) \in Seq(Events)
BY SeesType

\* A queue cut short, to what is left of it or to nothing.
LEMMA OpenAICuts ==
  ASSUME OpenAITypes, NEW q \in Seq(Events), st' = [st EXCEPT !.out = q], sent' = sent
  PROVE  OpenAIType(st)' /\ Len(st'.tools) <= sent'.calls /\ st'.out = q
<1>1. OpenAIType(st') /\ st'.out = q /\ st'.tools = st.tools
  BY OpenAITypeOut DEF OpenAITypes
<1>2. OpenAIType(st)'
  BY <1>1 DEF OpenAIType, LastOpen
<1>3. QED BY <1>1, <1>2 DEF OpenAITypes

\* The types hold at the start.
LEMMA OpenAITypesInit == OpenAI!Init => OpenAITypes
<1> SUFFICES ASSUME OpenAI!Init PROVE OpenAITypes
  OBVIOUS
<1>1. OpenAIInv
  BY OpenAIInit
<1>2. Len(st.tools) = 0 /\ sent.calls = 0
  BY DEF OpenAI!Init
<1>3. QED BY <1>1, <1>2 DEF OpenAIInv, OpenAITypes

\* Every step of the task keeps the types.
LEMMA OpenAITypesStep ==
  ASSUME OpenAITypes, OpenAI!Next \/ UNCHANGED <<vars, backend>>
  PROVE  OpenAITypes'
<1> USE DEF Outcomes
<1>1. CASE OpenAI!ReadChunk
  <2>1. PICK ch \in OpenAI!NextChunks :
          st' = OpenAI!process_chunk(st, ch) /\ sent' = OpenAI!SentAfter(ch)
    BY <1>1 DEF OpenAI!ReadChunk
  <2>2. sent.calls \in Nat /\ sent.calls \in 0 .. MaxTools /\ sent.stage \in OpenAI!Stages
    BY BoundsAssumption DEF OpenAITypes
  <2>3. OpenAIType(st') /\ Len(st'.tools) <= sent'.calls
    BY <2>1, <2>2, OpenAIChunkTyped DEF OpenAITypes
  <2>4. sent' \in [stage : OpenAI!Stages, calls : 0 .. MaxTools]
    <3>1. ch.tool # OpenAI!NoTool /\ ch.tool.index = sent.calls => sent.calls < MaxTools
      BY <2>2 DEF OpenAI!NextChunks, OpenAI!NextToolCalls
    <3>2. OpenAI!SentAfter(ch).calls \in 0 .. MaxTools
      BY <2>2, <3>1, BoundsAssumption DEF OpenAI!SentAfter
    <3>3. OpenAI!SentAfter(ch).stage \in OpenAI!Stages
      BY <2>2 DEF OpenAI!SentAfter, OpenAI!Stages
    <3>4. QED BY <2>1, <3>2, <3>3 DEF OpenAI!SentAfter
  <2>5. OpenAIType(st)'
    BY <2>3 DEF OpenAIType, LastOpen
  <2>6. reader = "reading" /\ UNCHANGED <<done, reader, connected, client>>
    BY <1>1 DEF OpenAI!ReadChunk, OpenAI!Reading
  <2>7. TaskInv'
    BY <2>6 DEF OpenAITypes, TaskInv
  <2>8. QED BY <2>3, <2>4, <2>5, <2>7 DEF OpenAITypes
<1>2. CASE OpenAI!ReadDone \/ OpenAI!ReadEnd
  <2>1. sent' = sent /\ st' \in {st, OpenAI!finish(st)}
    BY <1>2 DEF OpenAI!ReadDone, OpenAI!ReadEnd
  <2>2. OpenAIType(st') /\ st'.tools = st.tools
    BY <2>1, OpenAIEndsTyped DEF OpenAITypes
  <2>3. OpenAIType(st)'
    BY <2>2 DEF OpenAIType, LastOpen
  <2>4. /\ UNCHANGED <<connected, client>> /\ done' \in BOOLEAN
        /\ reader' \in {"reading", "completed"}
    BY <1>2 DEF OpenAI!ReadDone, OpenAI!ReadEnd, OpenAI!Reading, OpenAITypes, TaskInv
  <2>5. TaskInv'
    BY <2>4 DEF OpenAITypes, TaskInv
  <2>6. QED BY <2>1, <2>2, <2>3, <2>5 DEF OpenAITypes
<1>3. CASE OpenAI!Send
  <2> DEFINE q == Tail(st.out)
  <2>1. /\ connected /\ st.out # <<>> /\ st' = [st EXCEPT !.out = q]
        /\ client' = Sees(client, Head(st.out)) /\ UNCHANGED <<sent, done, reader, connected>>
    BY <1>3, OpenAISharedSees DEF OpenAI!Send
  <2>2. st.out \in Seq(Events) /\ client \in Clients
    BY DEF OpenAITypes, OpenAIType, OpenAIStates, TaskInv
  <2>3. client' \in Clients /\ q \in Seq(Events)
    BY <2>1, <2>2, TaskSendsAny
  <2> HIDE DEF q
  <2>4. OpenAIType(st)' /\ Len(st'.tools) <= sent'.calls
    BY <2>1, <2>3, OpenAICuts
  <2>5. TaskInv'
    BY <2>1, <2>3 DEF OpenAITypes, TaskInv
  <2>6. QED BY <2>1, <2>4, <2>5 DEF OpenAITypes
<1>4. CASE OpenAI!TimeOut \/ OpenAI!SendFails
  <2> DEFINE q == <<>>
  <2>1. /\ st' = [st EXCEPT !.out = q] /\ reader' \in {reader, "broken", "disconnected"}
        /\ UNCHANGED <<sent, done, connected, client>>
    BY <1>4 DEF OpenAI!TimeOut, OpenAI!SendFails, OpenAI!DropEvents
  <2>2. q \in Seq(Events) /\ q = <<>>
    OBVIOUS
  <2> HIDE DEF q
  <2>3. OpenAIType(st)' /\ Len(st'.tools) <= sent'.calls /\ st'.out = q
    BY <2>1, <2>2, OpenAICuts
  <2>4. TaskInv'
    BY <2>1, <2>2, <2>3 DEF OpenAITypes, TaskInv
  <2>5. QED BY <2>1, <2>3, <2>4 DEF OpenAITypes
<1>5. CASE OpenAI!ReadError \/ OpenAI!Leave \/ UNCHANGED <<vars, backend>>
  <2>1. /\ UNCHANGED <<sent, st, done, client>> /\ connected' \in {connected, FALSE}
        /\ reader' = reader \/ (reader' = "broken" /\ st.out = <<>>)
    BY <1>5 DEF OpenAI!ReadError, OpenAI!Leave, OpenAI!Reading, vars
  <2>2. TaskInv' /\ OpenAIType(st)'
    BY <2>1 DEF OpenAITypes, TaskInv, OpenAIType, LastOpen
  <2>3. QED BY <2>1, <2>2 DEF OpenAITypes
<1>6. QED BY <1>1, <1>2, <1>3, <1>4, <1>5 DEF OpenAI!Next

\* They are those the specification asks for.
LEMMA OpenAITypesMean == OpenAITypes => OpenAI!TypeOK
<1> SUFFICES ASSUME OpenAITypes PROVE OpenAI!TypeOK
  OBVIOUS
<1>1. /\ st.started \in BOOLEAN /\ st.textOpen \in BOOLEAN
      /\ st.thinkingOpen \in BOOLEAN /\ st.finished \in BOOLEAN
      /\ st.index \in Nat /\ Len(st.tools) <= MaxToolIndex + 1
      /\ st.tools \in Seq(ToolStates) /\ st.out \in Seq(Events)
  BY DEF OpenAITypes, OpenAIType, OpenAIStates
<1>2. \A i \in DOMAIN st.tools : st.tools[i] \in [block : Nat, closed : BOOLEAN]
  <2>1. \A i \in DOMAIN st.tools : st.tools[i] \in ToolStates
    BY <1>1
  <2>2. QED BY <2>1 DEF ToolStates
<1>3. \A i \in DOMAIN st.out : st.out[i] \in Events
  BY <1>1
<1>4. OpenAI!Events = Events /\ OpenAI!Kinds = Kinds /\ OpenAI!Outcomes = Outcomes
  BY DEF OpenAI!Events, Events, OpenAI!Kinds, Kinds, OpenAI!Plain, Plain,
         OpenAI!Block, Block, OpenAI!Sized, Sized, OpenAI!Outcomes, Outcomes
<1>5. /\ client.stage \in {"idle", "open", "ending", "stopped", "failed", "confused"}
      /\ client.open \subseteq [index : Nat, kind : Kinds]
      /\ client.next \in Nat /\ client.heard \in [Kinds -> Nat]
  BY DEF OpenAITypes, TaskInv, Clients
<1>6. OpenAI!TaskTypeOK
  BY <1>3, <1>4, <1>5 DEF OpenAITypes, TaskInv, OpenAI!TaskTypeOK
<1>7. sent \in [stage : OpenAI!Stages, calls : 0 .. MaxTools]
  BY DEF OpenAITypes
<1>8. QED BY <1>1, <1>2, <1>6, <1>7 DEF OpenAI!TypeOK

-----------------------------------------------------------------------------
(* A Responses backend, whatever it does *)

\* What an operation may do to a state: no more calls are open.
Shallower(s, t) == t \in ResponsesStates /\ t.depth <= s.depth

\* What one does to it that does not end the message.
Within(s, t) == Shallower(s, t) /\ t.finished = s.finished

\* A state with another event or another field is a state.
LEMMA ResponsesSaysTyped ==
  ASSUME NEW s \in ResponsesStates, NEW k \in {"text", "tool"}
  PROVE  /\ Within(s, Responses!BeginMessage(s)) /\ Within(s, Responses!Close(s))
         /\ Within(s, Responses!Open(s, k)) /\ Within(s, Responses!Delta(s, k))
<1> USE DEF Shallower, Within
<1>1. s.index \in Nat /\ s.index + 1 \in Nat /\ k \in Kinds /\ s.depth <= s.depth
  BY DEF ResponsesStates, Kinds
<1>2. ASSUME NEW b \in ResponsesStates, b.depth = s.depth /\ b.finished = s.finished, NEW e \in Events
      PROVE  Within(s, Emit(b, e))
  BY <1>1, <1>2, ResponsesEmit
<1>3. Within(s, Responses!BeginMessage(s))
  <2> DEFINE b == [s EXCEPT !.started = TRUE]
  <2>1. b \in ResponsesStates /\ b.depth = s.depth /\ b.finished = s.finished
    BY DEF ResponsesStates
  <2> HIDE DEF b
  <2>2. Within(s, Emit(b, Plain("message_start")))
    BY <1>2, <2>1, EventTypes
  <2>3. BeginMessage(s) = s \/ BeginMessage(s) = Emit(b, Plain("message_start"))
    BY DEF BeginMessage, b
  <2>4. QED BY <1>1, <2>2, <2>3, ResponsesShared
<1>4. Within(s, Responses!Close(s))
  <2> DEFINE n == s.index + 1
             b == [s EXCEPT !.open = FALSE, !.index = n]
  <2>1. n \in Nat
    BY <1>1
  <2>2. Responses!Close(s) = s \/ Responses!Close(s) = Emit(b, BlockStop(s.index))
    BY ResponsesShared DEF Responses!Close
  <2> HIDE DEF n
  <2>3. b \in ResponsesStates /\ b.depth = s.depth /\ b.finished = s.finished
    BY <2>1 DEF ResponsesStates
  <2> HIDE DEF b
  <2>4. QED BY <1>1, <1>2, <2>2, <2>3, EventTypes
<1>5. Within(s, Responses!Open(s, k))
  <2> DEFINE b == [s EXCEPT !.open = TRUE]
  <2>1. b \in ResponsesStates /\ b.depth = s.depth /\ b.finished = s.finished
    BY DEF ResponsesStates
  <2>2. Responses!Open(s, k) = Emit(b, Block("block_start", s.index, k))
    BY ResponsesShared DEF Responses!Open
  <2> HIDE DEF b
  <2>3. QED BY <1>1, <1>2, <2>1, <2>2, EventTypes
<1>6. Within(s, Responses!Delta(s, k))
  <2>1. Responses!Delta(s, k) = Emit(s, Block("block_delta", s.index, k))
    BY ResponsesShared DEF Responses!Delta
  <2>2. QED BY <1>1, <1>2, <2>1, EventTypes
<1>7. QED BY <1>3, <1>4, <1>5, <1>6

\* A state of another depth.
LEMMA ResponsesDepthTyped ==
  ASSUME NEW s \in ResponsesStates, NEW n \in Nat
  PROVE  /\ [s EXCEPT !.depth = n] \in ResponsesStates /\ [s EXCEPT !.depth = n].depth = n
         /\ [s EXCEPT !.depth = n].finished = s.finished
BY DEF ResponsesStates

\* The end of a message.
LEMMA ResponsesEndTyped ==
  ASSUME NEW s \in ResponsesStates
  PROVE  /\ Shallower(s, Responses!EndMessage(s)) /\ Shallower(s, Responses!handle_error(s))
         /\ Shallower(s, Responses!finish(s))
         /\ Closing(Responses!EndMessage(s).out) /\ Closing(Responses!handle_error(s).out)
         /\ Responses!finish(s).finished /\ Concludes(s, Responses!finish(s))
<1> USE DEF Shallower
<1>1. ASSUME NEW b \in ResponsesStates, b.depth <= s.depth, NEW e \in Events
      PROVE  Shallower(s, Emit(b, e))
  BY <1>1, ResponsesEmit
<1>2. /\ Shallower(s, Responses!EndMessage(s)) /\ Responses!EndMessage(s).finished
      /\ Closing(Responses!EndMessage(s).out)
  <2> DEFINE b == Responses!Close(s)
             f == [b EXCEPT !.finished = TRUE]
             d == Emit(f, Plain("message_delta"))
  <2>1. Responses!EndMessage(s) = Emit(d, Plain("message_stop"))
    BY ResponsesShared DEF Responses!EndMessage
  <2>2. b \in ResponsesStates /\ b.depth <= s.depth
    BY ResponsesSaysTyped DEF Within
  <2> HIDE DEF b
  <2>3. f \in ResponsesStates /\ f.depth <= s.depth /\ f.finished
    BY <2>2, ResponsesFinishing
  <2> HIDE DEF f
  <2>4. d \in ResponsesStates /\ d.depth <= s.depth /\ d.finished
    <3>1. Plain("message_delta") \in Events
      BY EventTypes
    <3>2. d.finished
      BY <2>3, <3>1, ResponsesEmit
    <3>3. Shallower(s, d)
      BY <1>1, <2>3, <3>1
    <3> HIDE DEF d
    <3>4. QED BY <3>2, <3>3
  <2> HIDE DEF d
  <2>5. Emit(d, Plain("message_stop")).finished /\ Closing(Emit(d, Plain("message_stop")).out)
    <3> DEFINE t == Emit(d, Plain("message_stop"))
    <3>1. Plain("message_stop") \in Events /\ d.out \in Seq(Events)
      BY <2>4, EventTypes DEF ResponsesStates
    <3>2. t.finished = d.finished /\ t.out = Append(d.out, Plain("message_stop"))
      BY <2>4, <3>1, ResponsesEmit
    <3> HIDE DEF t
    <3>3. Closing(t.out)
      BY <3>1, <3>2, ClosedBy
    <3>4. QED BY <2>4, <3>2, <3>3 DEF t
  <2>6. QED BY <1>1, <2>1, <2>4, <2>5, EventTypes
<1>3. Shallower(s, Responses!handle_error(s)) /\ Closing(Responses!handle_error(s).out)
  <2> DEFINE f == [s EXCEPT !.finished = TRUE]
  <2>1. Responses!handle_error(s) = Emit(f, Plain("error"))
    BY ResponsesShared DEF Responses!handle_error
  <2>2. f \in ResponsesStates /\ f.depth <= s.depth
    <3>1. s.depth \in Nat
      BY DEF ResponsesStates
    <3>2. QED BY <3>1, ResponsesFinishing
  <2> HIDE DEF f
  <2>3. Closing(Emit(f, Plain("error")).out)
    BY <2>2, EventTypes, ResponsesEmit, ClosedBy DEF ResponsesStates
  <2>4. QED BY <1>1, <2>1, <2>2, <2>3, EventTypes
<1>4. s.depth \in Nat
  BY DEF ResponsesStates
<1>5. Shallower(s, s)
  BY <1>4
<1>6. QED BY <1>2, <1>3, <1>5 DEF Responses!finish, Concludes

\* An event, whatever it is, and the number of items there have been.
LEMMA ResponsesEventTyped ==
  ASSUME NEW s \in ResponsesStates, NEW n \in Nat, s.depth <= n, NEW e,
         e.type \in {"created", "item_added", "part_added", "text_delta", "part_done",
                     "item_done", "arguments_delta", "completed", "failed", "incomplete"}
  PROVE  LET t == Responses!process_event(s, e) IN
         /\ t \in ResponsesStates
         /\ t.depth <= IF e.type = "item_added" THEN n + 1 ELSE n
<1> DEFINE t == Responses!process_event(s, e)
           m == IF e.type = "item_added" THEN n + 1 ELSE n
           b == Responses!BeginMessage(s)
<1>1. Shallower(s, b)
  BY ResponsesSaysTyped DEF Within
<1>2. s.depth \in Nat /\ b \in ResponsesStates /\ b.depth \in Nat
  BY <1>1 DEF Shallower, ResponsesStates
<1>3. m \in Nat /\ n <= m
  OBVIOUS
<1>4. ASSUME Shallower(s, t)
      PROVE  t \in ResponsesStates /\ t.depth <= m
  <2>1. t \in ResponsesStates /\ t.depth \in Nat /\ t.depth <= s.depth
    BY <1>4 DEF Shallower, ResponsesStates
  <2> HIDE DEF t, m
  <2>2. QED BY <1>2, <1>3, <2>1
<1> HIDE DEF m, b
<1>5. CASE s.finished \/ e.type \in {"created", "text_delta", "arguments_delta", "failed",
                                     "incomplete"}
  <2>1. t \in {s, b, Responses!Delta(s, "text"), Responses!Delta(s, "tool"),
               Responses!handle_error(s)}
    BY <1>5 DEF Responses!process_event, b
  <2> HIDE DEF t
  <2>2. Shallower(s, s)
    BY <1>2 DEF Shallower
  <2>3. Shallower(s, t)
    BY <1>1, <2>1, <2>2, ResponsesSaysTyped, ResponsesEndTyped DEF Within
  <2>4. QED BY <1>4, <2>3 DEF m, t
<1>6. CASE ~s.finished /\ e.type = "item_added"
  <2> DEFINE c == Responses!Close(b)
             o == Responses!Open(c, "tool")
  <2>1. t = b \/ t = [o EXCEPT !.depth = o.depth + 1]
    BY <1>6 DEF Responses!process_event, Responses!handle_output_item_added, b
  <2> HIDE DEF t
  <2>2. c \in ResponsesStates /\ c.depth <= b.depth
    BY <1>2, ResponsesSaysTyped DEF Within, Shallower
  <2> HIDE DEF c
  <2>3. o \in ResponsesStates /\ o.depth <= c.depth
    BY <2>2, ResponsesSaysTyped DEF Within, Shallower
  <2> HIDE DEF o
  <2>4. c.depth \in Nat /\ o.depth \in Nat /\ o.depth + 1 \in Nat
    BY <2>2, <2>3 DEF ResponsesStates
  <2>5. o.depth + 1 <= m
    BY <1>1, <1>2, <1>6, <2>2, <2>3, <2>4 DEF m, Shallower
  <2>6. CASE t = b
    BY <1>1, <1>4, <2>6 DEF m, t
  <2>7. CASE t = [o EXCEPT !.depth = o.depth + 1]
    <3> DEFINE k == o.depth + 1
    <3>1. k \in Nat /\ k <= m /\ t = [o EXCEPT !.depth = k]
      BY <2>4, <2>5, <2>7
    <3> HIDE DEF k
    <3>2. QED BY <2>3, <3>1, ResponsesDepthTyped DEF m, t
  <2>8. QED BY <2>1, <2>6, <2>7
<1>7. CASE ~s.finished /\ e.type = "part_added"
  <2> DEFINE c == IF b.depth = 0 THEN Responses!Close(b) ELSE b
  <2>1. t = Responses!Open(c, "text")
    BY <1>7 DEF Responses!process_event, Responses!handle_content_part_added, b
  <2> HIDE DEF t
  <2>2. c \in ResponsesStates /\ c.depth <= b.depth
    BY <1>2, ResponsesSaysTyped DEF Within, Shallower
  <2> HIDE DEF c
  <2>3. t \in ResponsesStates /\ t.depth <= c.depth
    BY <2>1, <2>2, ResponsesSaysTyped DEF Within, Shallower
  <2>4. c.depth \in Nat /\ t.depth \in Nat
    BY <2>2, <2>3 DEF ResponsesStates
  <2>5. Shallower(s, t)
    BY <1>1, <1>2, <2>2, <2>3, <2>4 DEF Shallower
  <2>6. QED BY <1>4, <2>5 DEF m, t
<1>8. CASE ~s.finished /\ e.type = "part_done"
  <2>1. t = s \/ t = Responses!Close(s)
    BY <1>8 DEF Responses!process_event, Responses!handle_content_part_done
  <2> HIDE DEF t
  <2>2. Shallower(s, s)
    BY <1>2 DEF Shallower
  <2>3. Shallower(s, t)
    BY <2>1, <2>2, ResponsesSaysTyped DEF Within
  <2>4. QED BY <1>4, <2>3 DEF m, t
<1>9. CASE ~s.finished /\ e.type = "item_done"
  <2> DEFINE c == Responses!Close(s)
             k == IF c.depth > 0 THEN c.depth - 1 ELSE 0
  <2>1. t = s \/ t = [c EXCEPT !.depth = k]
    BY <1>9 DEF Responses!process_event, Responses!handle_output_item_done
  <2> HIDE DEF t
  <2>2. c \in ResponsesStates /\ c.depth <= s.depth
    BY ResponsesSaysTyped DEF Within, Shallower
  <2> HIDE DEF c
  <2>3. c.depth \in Nat
    BY <2>2 DEF ResponsesStates
  <2>4. k \in Nat /\ k <= s.depth
    BY <1>2, <2>2, <2>3
  <2> HIDE DEF k
  <2> DEFINE d == [c EXCEPT !.depth = k]
  <2>5. d \in ResponsesStates /\ d.depth = k
    BY <2>2, <2>4, ResponsesDepthTyped
  <2> HIDE DEF d
  <2>6. Shallower(s, s) /\ Shallower(s, d)
    BY <1>2, <2>4, <2>5 DEF Shallower
  <2>7. Shallower(s, t)
    BY <2>1, <2>6 DEF d
  <2>8. QED BY <1>4, <2>7 DEF m, t
<1>10. CASE ~s.finished /\ e.type = "completed"
  <2>1. t = Responses!EndMessage(b)
    BY <1>10 DEF Responses!process_event, Responses!handle_completed, b
  <2> HIDE DEF t
  <2>2. t \in ResponsesStates /\ t.depth <= b.depth
    BY <1>2, <2>1, ResponsesEndTyped DEF Shallower
  <2>3. t.depth \in Nat
    BY <2>2 DEF ResponsesStates
  <2>4. Shallower(s, t)
    BY <1>1, <1>2, <2>2, <2>3 DEF Shallower
  <2>5. QED BY <1>4, <2>4 DEF m, t
<1>11. QED BY <1>5, <1>6, <1>7, <1>8, <1>9, <1>10 DEF m

\* Only the events that end the message have the translator finish.
LEMMA ResponsesConcludes ==
  ASSUME NEW s \in ResponsesStates, NEW e,
         e.type \in {"created", "item_added", "part_added", "text_delta", "part_done",
                     "item_done", "arguments_delta", "completed", "failed", "incomplete"}
  PROVE  Concludes(s, Responses!process_event(s, e))
<1> DEFINE t == Responses!process_event(s, e)
           b == Responses!BeginMessage(s)
<1>1. CASE s.finished
  BY <1>1 DEF Responses!process_event, Concludes
<1>2. CASE ~s.finished /\ e.type = "failed"
  <2>1. t = Responses!handle_error(s)
    BY <1>2 DEF Responses!process_event
  <2> HIDE DEF t
  <2>2. Closing(t.out)
    BY <2>1, ResponsesEndTyped
  <2>3. QED BY <1>2, <2>2 DEF Concludes, t
<1>3. ASSUME ~s.finished, ~t.finished PROVE Concludes(s, t)
  BY <1>3 DEF Concludes
<1>4. b \in ResponsesStates /\ b.finished = s.finished
  BY ResponsesSaysTyped DEF Within, Shallower
<1> HIDE DEF b
<1>5. CASE ~s.finished /\ e.type = "completed"
  <2>1. t = Responses!EndMessage(b)
    BY <1>5 DEF Responses!process_event, Responses!handle_completed, b
  <2> HIDE DEF t
  <2>2. Closing(t.out)
    BY <1>4, <2>1, ResponsesEndTyped
  <2>3. QED BY <1>5, <2>2 DEF Concludes, t
<1>6. CASE ~s.finished /\ e.type \in {"created", "text_delta", "arguments_delta", "incomplete"}
  <2>1. t \in {s, b, Responses!Delta(s, "text"), Responses!Delta(s, "tool")}
    BY <1>6 DEF Responses!process_event, b
  <2> HIDE DEF t
  <2>2. t.finished = s.finished
    BY <1>4, <2>1, ResponsesSaysTyped DEF Within
  <2>3. QED BY <1>3, <1>6, <2>2 DEF t
<1>7. CASE ~s.finished /\ e.type = "item_added"
  <2> DEFINE c == Responses!Close(b)
             o == Responses!Open(c, "tool")
  <2>1. t = b \/ t = [o EXCEPT !.depth = o.depth + 1]
    BY <1>7 DEF Responses!process_event, Responses!handle_output_item_added, b
  <2> HIDE DEF t
  <2>2. c \in ResponsesStates /\ c.finished = b.finished
    BY <1>4, ResponsesSaysTyped DEF Within, Shallower
  <2> HIDE DEF c
  <2>3. o \in ResponsesStates /\ o.finished = c.finished
    BY <2>2, ResponsesSaysTyped DEF Within, Shallower
  <2> HIDE DEF o
  <2>4. [o EXCEPT !.depth = o.depth + 1].finished = o.finished
    BY <2>3 DEF ResponsesStates
  <2>5. QED BY <1>3, <1>4, <1>7, <2>1, <2>2, <2>3, <2>4 DEF t
<1>8. CASE ~s.finished /\ e.type = "part_added"
  <2> DEFINE c == IF b.depth = 0 THEN Responses!Close(b) ELSE b
  <2>1. t = Responses!Open(c, "text")
    BY <1>8 DEF Responses!process_event, Responses!handle_content_part_added, b
  <2> HIDE DEF t
  <2>2. c \in ResponsesStates /\ c.finished = b.finished
    BY <1>4, ResponsesSaysTyped DEF Within, Shallower
  <2> HIDE DEF c
  <2>3. t.finished = c.finished
    BY <2>1, <2>2, ResponsesSaysTyped DEF Within
  <2>4. QED BY <1>3, <1>4, <1>8, <2>2, <2>3 DEF t
<1>9. CASE ~s.finished /\ e.type \in {"part_done", "item_done"}
  <2> DEFINE c == Responses!Close(s)
             k == IF c.depth > 0 THEN c.depth - 1 ELSE 0
  <2>1. t = s \/ t = c \/ t = [c EXCEPT !.depth = k]
    BY <1>9 DEF Responses!process_event, Responses!handle_content_part_done,
                Responses!handle_output_item_done
  <2> HIDE DEF t
  <2>2. c \in ResponsesStates /\ c.finished = s.finished
    BY ResponsesSaysTyped DEF Within, Shallower
  <2> HIDE DEF c, k
  <2>3. [c EXCEPT !.depth = k].finished = c.finished
    BY <2>2 DEF ResponsesStates
  <2>4. QED BY <1>3, <1>9, <2>1, <2>2, <2>3 DEF t
<1>10. QED BY <1>1, <1>2, <1>5, <1>6, <1>7, <1>8, <1>9

\* Whatever the backend does: the types, and no open call but those begun.
ResponsesTypes ==
  /\ TaskInv
  /\ sent \in ResponsesSent
  /\ st \in ResponsesStates /\ st.depth <= sent.count

\* The types hold at the start.
LEMMA ResponsesTypesInit == Responses!Init => ResponsesTypes
BY ResponsesInit DEF ResponsesInv, ResponsesTypes

\* Every step of the task keeps the types.
LEMMA ResponsesTypesStep ==
  ASSUME ResponsesTypes, Responses!Next \/ UNCHANGED <<vars, backend>>
  PROVE  ResponsesTypes'
<1> USE DEF Outcomes
<1>1. CASE Responses!ReadEvent
  <2>1. PICK e \in Responses!NextEvents :
          st' = Responses!process_event(st, e) /\ sent' = Responses!SentAfter(e)
    BY <1>1 DEF Responses!ReadEvent
  <2>2. /\ sent.count \in 0 .. MaxItems /\ sent.part \in BOOLEAN /\ sent.count \in Nat
        /\ sent.items \in SUBSET Responses!ItemTypes
    BY BoundsAssumption DEF ResponsesTypes, ResponsesSent
  <2>3. /\ e.type \in {"created", "item_added", "part_added", "text_delta", "part_done",
                       "item_done", "arguments_delta", "completed", "failed", "incomplete"}
        /\ e.item \in Responses!ItemTypes
        /\ e.type \in {"item_added", "part_added"} => sent.count < MaxItems
    BY DEF Responses!NextEvents
  <2>4. st' \in ResponsesStates /\ st'.depth <= sent'.count
    <3>1. /\ st' \in ResponsesStates
          /\ st'.depth <= IF e.type = "item_added" THEN sent.count + 1 ELSE sent.count
      BY <2>1, <2>2, <2>3, ResponsesEventTyped DEF ResponsesTypes
    <3>2. st'.depth \in Nat
      BY <3>1 DEF ResponsesStates
    <3>3. sent'.count = IF e.type \in {"item_added", "part_added"} THEN sent.count + 1
                        ELSE sent.count
      BY <2>1 DEF Responses!SentAfter
    <3>4. QED BY <2>2, <3>1, <3>2, <3>3
  <2>5. sent' \in ResponsesSent
    <3>1. Responses!SentAfter(e).count \in 0 .. MaxItems
      BY <2>2, <2>3, BoundsAssumption DEF Responses!SentAfter
    <3>2. Responses!SentAfter(e).items \in SUBSET Responses!ItemTypes
      BY <2>2, <2>3 DEF Responses!SentAfter
    <3>3. Responses!SentAfter(e).part \in BOOLEAN
      BY <2>2 DEF Responses!SentAfter
    <3>4. QED BY <2>1, <3>1, <3>2, <3>3 DEF Responses!SentAfter, ResponsesSent
  <2>6. reader = "reading" /\ UNCHANGED <<done, reader, connected, client>>
    BY <1>1 DEF Responses!ReadEvent, Responses!Reading
  <2>7. TaskInv'
    BY <2>6 DEF ResponsesTypes, TaskInv
  <2>8. QED BY <2>4, <2>5, <2>7 DEF ResponsesTypes
<1>2. CASE Responses!ReadEnd
  <2>1. /\ sent' = sent /\ st' = Responses!finish(st) /\ reader' = "completed"
        /\ UNCHANGED <<done, connected, client>>
    BY <1>2 DEF Responses!ReadEnd
  <2>2. st' \in ResponsesStates /\ st'.depth <= st.depth
    BY <2>1, ResponsesEndTyped DEF ResponsesTypes, Shallower
  <2>3. st.depth \in Nat /\ st'.depth \in Nat /\ sent.count \in Nat
    BY <2>2, BoundsAssumption DEF ResponsesTypes, ResponsesStates, ResponsesSent
  <2>4. TaskInv'
    BY <2>1 DEF ResponsesTypes, TaskInv
  <2>5. QED BY <2>1, <2>2, <2>3, <2>4 DEF ResponsesTypes
<1>3. CASE Responses!Send
  <2> DEFINE q == Tail(st.out)
  <2>1. /\ connected /\ st.out # <<>> /\ st' = [st EXCEPT !.out = q]
        /\ client' = Sees(client, Head(st.out)) /\ UNCHANGED <<sent, done, reader, connected>>
    BY <1>3, ResponsesShared DEF Responses!Send
  <2>2. st.out \in Seq(Events) /\ client \in Clients
    BY DEF ResponsesTypes, ResponsesStates, TaskInv
  <2>3. client' \in Clients /\ q \in Seq(Events)
    BY <2>1, <2>2, TaskSendsAny
  <2> HIDE DEF q
  <2>4. st' \in ResponsesStates /\ st'.depth = st.depth
    BY <2>1, <2>3, ResponsesTypeOut DEF ResponsesTypes
  <2>5. TaskInv'
    BY <2>1, <2>3 DEF ResponsesTypes, TaskInv
  <2>6. QED BY <2>1, <2>4, <2>5 DEF ResponsesTypes
<1>4. CASE Responses!TimeOut \/ Responses!SendFails
  <2> DEFINE q == <<>>
  <2>1. /\ st' = [st EXCEPT !.out = q] /\ reader' \in {reader, "broken", "disconnected"}
        /\ UNCHANGED <<sent, done, connected, client>>
    BY <1>4 DEF Responses!TimeOut, Responses!SendFails, Responses!DropEvents
  <2>2. q \in Seq(Events) /\ q = <<>>
    OBVIOUS
  <2> HIDE DEF q
  <2>3. st' \in ResponsesStates /\ st'.out = q /\ st'.depth = st.depth
    BY <2>1, <2>2, ResponsesTypeOut DEF ResponsesTypes
  <2>4. TaskInv'
    BY <2>1, <2>2, <2>3 DEF ResponsesTypes, TaskInv
  <2>5. QED BY <2>1, <2>3, <2>4 DEF ResponsesTypes
<1>5. CASE Responses!ReadError \/ Responses!Leave \/ UNCHANGED <<vars, backend>>
  <2>1. /\ UNCHANGED <<sent, st, done, client>> /\ connected' \in {connected, FALSE}
        /\ reader' = reader \/ (reader' = "broken" /\ st.out = <<>>)
    BY <1>5 DEF Responses!ReadError, Responses!Leave, Responses!Reading, vars
  <2>2. TaskInv'
    BY <2>1 DEF ResponsesTypes, TaskInv
  <2>3. QED BY <2>1, <2>2 DEF ResponsesTypes
<1>6. QED BY <1>1, <1>2, <1>3, <1>4, <1>5 DEF Responses!Next

\* They are those the specification asks for.
LEMMA ResponsesTypesMean == ResponsesTypes => Responses!TypeOK
<1> SUFFICES ASSUME ResponsesTypes PROVE Responses!TypeOK
  OBVIOUS
<1>1. /\ st.started \in BOOLEAN /\ st.open \in BOOLEAN /\ st.finished \in BOOLEAN
      /\ st.index \in Nat /\ st.depth \in Nat /\ st.out \in Seq(Events)
  BY DEF ResponsesTypes, ResponsesStates
<1>2. \A i \in DOMAIN st.out : st.out[i] \in Events
  BY <1>1
<1>3. /\ Responses!Events = Events /\ Responses!Kinds = Kinds
      /\ Responses!Outcomes = Outcomes
  BY DEF Responses!Events, Events, Responses!Kinds, Kinds, Responses!Plain, Plain,
         Responses!Block, Block, Responses!Sized, Sized, Responses!Outcomes, Outcomes
<1>4. /\ client.stage \in {"idle", "open", "ending", "stopped", "failed", "confused"}
      /\ client.open \subseteq [index : Nat, kind : Kinds]
      /\ client.next \in Nat /\ client.heard \in [Kinds -> Nat]
  BY DEF ResponsesTypes, TaskInv, Clients
<1>5. Responses!TaskTypeOK
  BY <1>2, <1>3, <1>4 DEF ResponsesTypes, TaskInv, Responses!TaskTypeOK
<1>6. st.depth \in 0 .. MaxItems
  BY <1>1, BoundsAssumption DEF ResponsesTypes, ResponsesSent
<1>7. sent \in [stage : {"new", "open", "ended"}, items : SUBSET Responses!ItemTypes,
                part : BOOLEAN, count : 0 .. MaxItems]
  BY DEF ResponsesTypes, ResponsesSent
<1>8. QED BY <1>1, <1>5, <1>6, <1>7 DEF Responses!TypeOK

-----------------------------------------------------------------------------
(* A Gemini backend, whatever it does: what the client hears *)

\* How much of a kind an event says, and who has heard it after that.
Says(e, k) == IF e.type = "block_delta" /\ e.kind = k THEN e.size ELSE 0
After(h, e) == [k \in Kinds |-> h[k] + Says(e, k)]

\* v holds what has been heard after each event of a queue.
Listens(h, out, v) ==
  /\ v \in [1 .. Len(out) + 1 -> [Kinds -> Nat]]
  /\ v[1] = h
  /\ \A i \in 1 .. Len(out) : v[i + 1] = After(v[i], out[i])

Hears(h, out, g) == \E v : Listens(h, out, v) /\ v[Len(out) + 1] = g

\* Events say something or nothing.
LEMMA SaysType ==
  ASSUME NEW e \in Events, NEW h \in [Kinds -> Nat]
  PROVE  After(h, e) \in [Kinds -> Nat]
<1>1. \A k \in Kinds : Says(e, k) \in Nat
  BY DEF Says, Events, Sized, Block, Plain
<1>2. QED BY <1>1 DEF After

\* A client hears an event whether it is confused by it or not.
LEMMA SeesHears ==
  ASSUME NEW c \in Clients, NEW e \in Events
  PROVE  Sees(c, e).heard = After(c.heard, e)
<1>1. c.heard \in [Kinds -> Nat]
  BY DEF Clients
<1>2. CASE e.type = "block_delta"
  <2>1. e.kind \in Kinds /\ e.size \in Nat
    BY <1>2 DEF Events, Sized, Block, Plain
  <2>2. Sees(c, e).heard = [c.heard EXCEPT ![e.kind] = @ + e.size]
    BY <1>2 DEF Sees, Clients
  <2>3. [c.heard EXCEPT ![e.kind] = @ + e.size] = After(c.heard, e)
    BY <1>1, <1>2, <2>1 DEF After, Says
  <2>4. QED BY <2>2, <2>3
<1>3. CASE e.type # "block_delta"
  <2>1. e.type \in {"message_start", "block_start", "block_stop", "message_delta",
                    "message_stop", "error"}
    BY <1>3 DEF Events, Sized, Block, Plain
  <2>2. Sees(c, e).heard = c.heard
    BY <2>1 DEF Sees, Clients
  <2>3. After(c.heard, e) = c.heard
    BY <1>1, <1>3 DEF After, Says
  <2>4. QED BY <2>2, <2>3
<1>4. QED BY <1>2, <1>3

\* Of an empty queue nothing is heard.
LEMMA HearsNothing ==
  ASSUME NEW h \in [Kinds -> Nat]
  PROVE  Hears(h, <<>>, h)
<1> DEFINE v == [i \in 1 .. 1 |-> h]
<1>1. Len(<<>>) = 0
  OBVIOUS
<1>2. Listens(h, <<>>, v)
  BY <1>1 DEF Listens
<1>3. QED BY <1>1, <1>2 DEF Hears

\* And so nothing more has been heard.
LEMMA HearsSame ==
  ASSUME NEW h, NEW g, Hears(h, <<>>, g)
  PROVE  g = h
<1>1. Len(<<>>) = 0
  OBVIOUS
<1>2. PICK v : Listens(h, <<>>, v) /\ v[Len(<<>>) + 1] = g
  BY DEF Hears
<1>3. QED BY <1>1, <1>2 DEF Listens

\* What has been heard is a number of each kind.
LEMMA HearsType ==
  ASSUME NEW h, NEW g, NEW out \in Seq(Events), Hears(h, out, g)
  PROVE  g \in [Kinds -> Nat]
<1>1. PICK v : Listens(h, out, v) /\ v[Len(out) + 1] = g
  BY DEF Hears
<1>2. QED BY <1>1 DEF Listens

\* One more event at the end of a queue is heard last.
LEMMA HearsMore ==
  ASSUME NEW h, NEW g, NEW out \in Seq(Events), NEW e \in Events, Hears(h, out, g)
  PROVE  Hears(h, Append(out, e), After(g, e))
<1>1. PICK v : Listens(h, out, v) /\ v[Len(out) + 1] = g
  BY DEF Hears
<1> DEFINE n == Len(out)
           w == [i \in 1 .. n + 2 |-> IF i = n + 2 THEN After(g, e) ELSE v[i]]
           q == Append(out, e)
<1>2. n \in Nat /\ Len(q) = n + 1 /\ q[n + 1] = e /\ \A i \in 1 .. n : q[i] = out[i]
  OBVIOUS
<1>3. After(g, e) \in [Kinds -> Nat]
  BY HearsType, SaysType
<1>4. w \in [1 .. Len(q) + 1 -> [Kinds -> Nat]] /\ w[1] = h
  BY <1>1, <1>2, <1>3 DEF Listens
<1>5. \A i \in 1 .. Len(q) : w[i + 1] = After(w[i], q[i])
  <2> TAKE i \in 1 .. Len(q)
  <2>1. CASE i = n + 1
    BY <1>1, <1>2, <2>1
  <2>2. CASE i \in 1 .. n
    BY <1>1, <1>2, <2>2 DEF Listens
  <2>3. QED BY <1>2, <2>1, <2>2
<1>6. w[Len(q) + 1] = After(g, e)
  BY <1>2
<1>7. Listens(h, q, w)
  BY <1>4, <1>5 DEF Listens
<1>8. QED BY <1>6, <1>7 DEF Hears

\* The event at its beginning is heard first.
LEMMA HearsFirst ==
  ASSUME NEW h, NEW g, NEW out \in Seq(Events), out # <<>>, Hears(h, out, g)
  PROVE  Hears(After(h, Head(out)), Tail(out), g)
<1>1. PICK v : Listens(h, out, v) /\ v[Len(out) + 1] = g
  BY DEF Hears
<1> DEFINE n == Len(out)
           w == [i \in 1 .. n |-> v[i + 1]]
           q == Tail(out)
<1>2. n \in Nat \ {0} /\ Len(q) = n - 1 /\ Head(out) = out[1] /\ out[1] \in Events
  OBVIOUS
<1>3. \A i \in 1 .. n - 1 : q[i] = out[i + 1]
  OBVIOUS
<1>4. v[2] = After(h, out[1])
  BY <1>1, <1>2 DEF Listens
<1>5. w \in [1 .. Len(q) + 1 -> [Kinds -> Nat]] /\ w[1] = After(h, Head(out))
  BY <1>1, <1>2, <1>4 DEF Listens
<1>6. \A i \in 1 .. Len(q) : w[i + 1] = After(w[i], q[i])
  <2> TAKE i \in 1 .. Len(q)
  <2>1. i + 1 \in 1 .. n /\ i \in 1 .. n - 1
    BY <1>2
  <2>2. v[i + 1 + 1] = After(v[i + 1], out[i + 1])
    BY <1>1, <2>1 DEF Listens
  <2>3. w[i] = v[i + 1] /\ w[i + 1] = v[i + 1 + 1]
    BY <1>2, <2>1
  <2>4. QED BY <1>3, <2>1, <2>2, <2>3
<1>7. w[Len(q) + 1] = g
  BY <1>1, <1>2
<1>8. Listens(After(h, Head(out)), q, w)
  BY <1>5, <1>6 DEF Listens
<1>9. QED BY <1>7, <1>8 DEF Hears

\* Events that say nothing may follow.
LEMMA HearsSilence ==
  ASSUME NEW h, NEW g, NEW out \in Seq(Events), NEW q \in Seq(Events), Hears(h, out, g),
         \A i \in 1 .. Len(q), k \in Kinds : Says(q[i], k) = 0
  PROVE  Hears(h, out \o q, g)
<1>1. PICK v : Listens(h, out, v) /\ v[Len(out) + 1] = g
  BY DEF Hears
<1> DEFINE n == Len(out)
           m == Len(q)
           r == out \o q
           w == [i \in 1 .. n + m + 1 |-> IF i <= n THEN v[i] ELSE g]
<1>2. /\ n \in Nat /\ m \in Nat /\ Len(r) = n + m
      /\ \A i \in 1 .. n : r[i] = out[i]
      /\ \A i \in n + 1 .. n + m : r[i] = q[i - n]
  OBVIOUS
<1>3. g \in [Kinds -> Nat]
  BY HearsType
<1>4. w \in [1 .. Len(r) + 1 -> [Kinds -> Nat]] /\ w[1] = h
  BY <1>1, <1>2, <1>3 DEF Listens
<1>5. \A i \in 1 .. Len(r) : w[i + 1] = After(w[i], r[i])
  <2> TAKE i \in 1 .. Len(r)
  <2>1. CASE i <= n
    <3>1. i \in 1 .. n /\ i \in 1 .. n + m + 1 /\ i + 1 \in 1 .. n + m + 1
      BY <1>2, <2>1
    <3>2. v[i + 1] = After(v[i], r[i])
      BY <1>1, <1>2, <3>1 DEF Listens
    <3>3. w[i] = v[i] /\ w[i + 1] = v[i + 1]
      BY <1>1, <1>2, <2>1, <3>1
    <3>4. QED BY <3>2, <3>3
  <2>2. CASE i > n
    <3>1. /\ i \in n + 1 .. n + m /\ i - n \in 1 .. m
          /\ i \in 1 .. n + m + 1 /\ i + 1 \in 1 .. n + m + 1
      BY <1>2, <2>2
    <3>2. w[i] = g /\ w[i + 1] = g
      BY <1>2, <2>2, <3>1
    <3>3. \A k \in Kinds : Says(r[i], k) = 0
      BY <1>2, <3>1
    <3>4. After(g, r[i]) = g
      BY <1>3, <3>3 DEF After
    <3>5. QED BY <3>2, <3>4
  <2>3. QED BY <1>2, <2>1, <2>2
<1>6. w[Len(r) + 1] = g
  BY <1>2
<1>7. Listens(h, r, w)
  BY <1>4, <1>5 DEF Listens
<1>8. QED BY <1>6, <1>7 DEF Hears

\* Somebody who has heard g hears so much thought and so much text besides.
Louder(g, thought, text) == [k \in Kinds |-> g[k] + Heard(thought, text)[k]]

\* Going from s to t the translator tells so much thought and so much text.
Tells(s, t, thought, text) ==
  /\ t \in GeminiStates
  /\ \A h, g : Hears(h, s.out, g) => Hears(h, t.out, Louder(g, thought, text))

\* Two tellings are one.
LEMMA TellsMore ==
  ASSUME NEW s \in GeminiStates, NEW t, NEW u, NEW a \in Nat, NEW b \in Nat,
         NEW m \in Nat, NEW n \in Nat, Tells(s, t, a, b), Tells(t, u, m, n)
  PROVE  Tells(s, u, a + m, b + n)
<1>1. ASSUME NEW g \in [Kinds -> Nat]
      PROVE  Louder(Louder(g, a, b), m, n) = Louder(g, a + m, b + n)
  <2>1. \A k \in Kinds : /\ g[k] \in Nat
                         /\ Heard(a, b)[k] + Heard(m, n)[k] = Heard(a + m, b + n)[k]
                         /\ Heard(a, b)[k] \in Nat /\ Heard(m, n)[k] \in Nat
    BY DEF Heard
  <2>2. \A k \in Kinds : g[k] + Heard(a, b)[k] + Heard(m, n)[k] = g[k] + Heard(a + m, b + n)[k]
    BY <2>1
  <2>3. QED BY <2>2 DEF Louder
<1>2. ASSUME NEW h, NEW g, Hears(h, s.out, g)
      PROVE  Hears(h, u.out, Louder(g, a + m, b + n))
  <2>1. g \in [Kinds -> Nat]
    BY <1>2, HearsType DEF GeminiStates
  <2>2. Hears(h, u.out, Louder(Louder(g, a, b), m, n))
    BY <1>2 DEF Tells
  <2>3. QED BY <1>1, <2>1, <2>2
<1>3. QED BY <1>2 DEF Tells

\* Nothing has been told where the queue is the same.
LEMMA TellsNothing ==
  ASSUME NEW s \in GeminiStates, NEW t \in GeminiStates, t.out = s.out
  PROVE  Tells(s, t, 0, 0)
<1>1. ASSUME NEW h, NEW g, Hears(h, s.out, g)
      PROVE  Hears(h, t.out, Louder(g, 0, 0))
  <2>1. g \in [Kinds -> Nat]
    BY <1>1, HearsType DEF GeminiStates
  <2>2. \A k \in Kinds : Heard(0, 0)[k] = 0
    BY DEF Heard
  <2>3. Louder(g, 0, 0) = g
    BY <2>1, <2>2 DEF Louder
  <2>4. QED BY <1>1, <2>3
<1>2. QED BY <1>1 DEF Tells

\* An event tells what it says.
LEMMA TellsEvent ==
  ASSUME NEW s \in GeminiStates, NEW b \in GeminiStates, b.out = s.out, NEW e \in Events,
         NEW m \in Nat, NEW n \in Nat, \A k \in Kinds : Says(e, k) = Heard(m, n)[k]
  PROVE  Tells(s, Emit(b, e), m, n)
<1>1. Emit(b, e) \in GeminiStates /\ Emit(b, e).out = Append(s.out, e)
  BY GeminiEmit
<1>2. ASSUME NEW h, NEW g, Hears(h, s.out, g)
      PROVE  Hears(h, Append(s.out, e), Louder(g, m, n))
  <2>1. s.out \in Seq(Events)
    BY DEF GeminiStates
  <2>2. Hears(h, Append(s.out, e), After(g, e))
    BY <1>2, <2>1, HearsMore
  <2>3. After(g, e) = Louder(g, m, n)
    BY DEF After, Louder
  <2>4. QED BY <2>2, <2>3
<1>3. QED BY <1>1, <1>2 DEF Tells

\* All events but deltas are silent.
LEMMA TellsSilent ==
  ASSUME NEW s \in GeminiStates, NEW b \in GeminiStates, b.out = s.out, NEW e \in Events,
         e.type # "block_delta"
  PROVE  Tells(s, Emit(b, e), 0, 0)
<1>1. \A k \in Kinds : Says(e, k) = Heard(0, 0)[k]
  BY DEF Says, Heard
<1>2. QED BY <1>1, TellsEvent

\* A message begins and its blocks are closed in silence.
LEMMA GeminiSilent ==
  ASSUME NEW s \in GeminiStates
  PROVE  /\ Tells(s, Gemini!BeginMessage(s), 0, 0) /\ SameSaid(s, Gemini!BeginMessage(s))
         /\ Tells(s, Gemini!CloseText(s), 0, 0) /\ SameSaid(s, Gemini!CloseText(s))
         /\ Tells(s, Gemini!CloseThought(s), 0, 0) /\ SameSaid(s, Gemini!CloseThought(s))
<1>1. s.index \in Nat /\ s.index + 1 \in Nat
  BY DEF GeminiStates
<1>2. Tells(s, s, 0, 0) /\ SameSaid(s, s)
  BY TellsNothing DEF SameSaid
<1>3. ASSUME NEW b \in GeminiStates, b.out = s.out, SameSaid(s, b), NEW e \in Events,
             e.type # "block_delta"
      PROVE  Tells(s, Emit(b, e), 0, 0) /\ SameSaid(s, Emit(b, e))
  BY <1>3, GeminiEmit, TellsSilent DEF SameSaid
<1>4. /\ Plain("message_start") \in Events /\ Plain("message_start").type # "block_delta"
      /\ BlockStop(s.index) \in Events /\ BlockStop(s.index).type # "block_delta"
  <2>1. "text" \in Kinds
    BY DEF Kinds
  <2>2. Plain("message_start") \in Events /\ BlockStop(s.index) \in Events
    BY <1>1, <2>1, EventTypes
  <2>3. Plain("message_start").type # "block_delta" /\ BlockStop(s.index).type # "block_delta"
    BY DEF Plain, BlockStop, Block, Sized
  <2>4. QED BY <2>2, <2>3
<1>5. Tells(s, Gemini!BeginMessage(s), 0, 0) /\ SameSaid(s, Gemini!BeginMessage(s))
  <2> DEFINE b == [s EXCEPT !.started = TRUE]
             e == Plain("message_start")
  <2>1. b \in GeminiStates /\ b.out = s.out /\ SameSaid(s, b)
    BY DEF GeminiStates, SameSaid
  <2>2. BeginMessage(s) = s \/ BeginMessage(s) = Emit(b, e)
    BY DEF BeginMessage
  <2> HIDE DEF b, e
  <2>3. Tells(s, Emit(b, e), 0, 0) /\ SameSaid(s, Emit(b, e))
    BY <1>3, <1>4, <2>1 DEF e
  <2>4. QED BY <1>2, <2>2, <2>3, GeminiShared
<1>6. Tells(s, Gemini!CloseText(s), 0, 0) /\ SameSaid(s, Gemini!CloseText(s))
  <2> DEFINE n == s.index + 1
             b == [s EXCEPT !.textOpen = FALSE, !.index = n]
             e == BlockStop(s.index)
  <2>1. Gemini!CloseText(s) = s \/ Gemini!CloseText(s) = Emit(b, e)
    BY GeminiShared DEF Gemini!CloseText
  <2>2. n \in Nat
    BY <1>1
  <2> HIDE DEF n
  <2>3. b \in GeminiStates /\ b.out = s.out /\ SameSaid(s, b)
    BY <2>2 DEF GeminiStates, SameSaid
  <2> HIDE DEF b, e
  <2>4. Tells(s, Emit(b, e), 0, 0) /\ SameSaid(s, Emit(b, e))
    BY <1>3, <1>4, <2>3 DEF e
  <2>5. QED BY <1>2, <2>1, <2>4
<1>7. Tells(s, Gemini!CloseThought(s), 0, 0) /\ SameSaid(s, Gemini!CloseThought(s))
  <2> DEFINE n == s.index + 1
             b == [s EXCEPT !.thoughtOpen = FALSE, !.index = n]
             e == BlockStop(s.index)
  <2>1. Gemini!CloseThought(s) = s \/ Gemini!CloseThought(s) = Emit(b, e)
    BY GeminiShared DEF Gemini!CloseThought
  <2>2. n \in Nat
    BY <1>1
  <2> HIDE DEF n
  <2>3. b \in GeminiStates /\ b.out = s.out /\ SameSaid(s, b)
    BY <2>2 DEF GeminiStates, SameSaid
  <2> HIDE DEF b, e
  <2>4. Tells(s, Emit(b, e), 0, 0) /\ SameSaid(s, Emit(b, e))
    BY <1>3, <1>4, <2>3 DEF e
  <2>5. QED BY <1>2, <2>1, <2>4
<1>8. QED BY <1>5, <1>6, <1>7

\* So much is new in a text of some length where so much has been sent.
News(length, prev) == length - Gemini!guard_shrinkage(length, prev)

\* It is a number, and with it the text is complete.
LEMMA NewsType ==
  ASSUME NEW length \in Nat, NEW prev \in Nat
  PROVE  /\ News(length, prev) \in Nat
         /\ prev + News(length, prev) >= length
         /\ length >= prev => News(length, prev) = length - prev
         /\ ~(length > Gemini!guard_shrinkage(length, prev)) =>
              /\ News(length, prev) = 0
              /\ Gemini!guard_shrinkage(length, prev) = length
         /\ length > Gemini!guard_shrinkage(length, prev) => News(length, prev) > 0
         /\ Gemini!guard_shrinkage(length, prev) \in Nat
BY DEF News, Gemini!guard_shrinkage

\* A thought, or what is new of it.
LEMMA GeminiTellsThought ==
  ASSUME NEW s \in GeminiStates, NEW length \in Nat
  PROVE  LET t == Gemini!Thought(s, length) IN
         /\ Tells(s, t, News(length, s.thought), 0)
         /\ t.thought = length /\ t.text = s.text /\ t.tools = s.tools
<1> DEFINE prev == Gemini!guard_shrinkage(length, s.thought)
           n == News(length, s.thought)
           t == Gemini!Thought(s, length)
           o == IF s.thoughtOpen THEN s
                ELSE Emit([s EXCEPT !.thoughtOpen = TRUE],
                          Block("block_start", s.index, "thinking"))
           b == [o EXCEPT !.thought = length]
           e == Sized("block_delta", o.index, "thinking", n)
<1>1. t = IF length <= prev THEN [s EXCEPT !.thought = prev] ELSE Emit(b, e)
  BY GeminiShared DEF Gemini!Thought, News
<1>2. /\ s.thought \in Nat /\ prev \in Nat /\ n \in Nat
      /\ length <= prev => n = 0 /\ prev = length
  <2>1. s.thought \in Nat
    BY DEF GeminiStates
  <2>2. prev \in Nat /\ n \in Nat /\ (~(length > prev) => n = 0 /\ prev = length)
    BY <2>1, NewsType
  <2> HIDE DEF prev, n
  <2>3. QED BY <2>1, <2>2
<1>3. o \in GeminiStates /\ Tells(s, o, 0, 0) /\ SameSaid(s, o)
  <2> DEFINE a == [s EXCEPT !.thoughtOpen = TRUE]
             f == Block("block_start", s.index, "thinking")
  <2>1. a \in GeminiStates /\ a.out = s.out /\ SameSaid(s, a)
    BY DEF GeminiStates, SameSaid
  <2>2. f \in Events /\ f.type # "block_delta"
    BY DEF Block, Sized, Events, GeminiStates, Kinds
  <2>3. o = s \/ o = Emit(a, f)
    OBVIOUS
  <2> HIDE DEF a, f, o
  <2>4. Emit(a, f) \in GeminiStates /\ Tells(s, Emit(a, f), 0, 0) /\ SameSaid(s, Emit(a, f))
    BY <2>1, <2>2, GeminiEmit, TellsSilent DEF SameSaid
  <2>5. Tells(s, s, 0, 0) /\ SameSaid(s, s)
    BY TellsNothing DEF SameSaid
  <2>6. QED BY <2>3, <2>4, <2>5
<1> HIDE DEF t, o, n, prev
<1>4. CASE length <= prev
  <2> DEFINE u == [s EXCEPT !.thought = length]
  <2>1. u \in GeminiStates /\ u.out = s.out /\ u.thought = length
        /\ u.text = s.text /\ u.tools = s.tools
    BY DEF GeminiStates
  <2>2. t = u /\ n = 0
    BY <1>1, <1>2, <1>4
  <2> HIDE DEF u
  <2>3. Tells(s, u, 0, 0)
    BY <2>1, TellsNothing
  <2>4. QED BY <2>1, <2>2, <2>3 DEF t, n
<1>5. CASE ~(length <= prev)
  <2>1. b \in GeminiStates /\ b.out = o.out /\ b.thought = length
        /\ b.text = s.text /\ b.tools = s.tools
    BY <1>3 DEF GeminiStates, SameSaid
  <2>2. e \in Events
    BY <1>2, <1>3 DEF Sized, Events, GeminiStates, Kinds
  <2>3. \A k \in Kinds : Says(e, k) = Heard(n, 0)[k]
    BY DEF Says, Heard, Sized
  <2>4. t = Emit(b, e)
    BY <1>1, <1>5
  <2> HIDE DEF b, e
  <2>5. Tells(o, t, n, 0)
    BY <1>2, <1>3, <2>1, <2>2, <2>3, <2>4, TellsEvent
  <2>6. Tells(s, t, 0 + n, 0 + 0)
    BY <1>2, <1>3, <2>5, TellsMore
  <2>7. t.thought = length /\ t.text = s.text /\ t.tools = s.tools
    BY <2>1, <2>2, <2>4, GeminiEmit DEF SameSaid
  <2>8. Tells(s, t, n, 0)
    BY <1>2, <2>6
  <2>9. QED BY <2>7, <2>8 DEF t, n
<1>6. QED BY <1>4, <1>5

\* A text, or what is new of it.
LEMMA GeminiTellsText ==
  ASSUME NEW s \in GeminiStates, NEW length \in Nat
  PROVE  LET t == Gemini!Text(s, length) IN
         /\ Tells(s, t, 0, News(length, s.text))
         /\ t.text = length /\ t.thought = s.thought /\ t.tools = s.tools
<1> DEFINE prev == Gemini!guard_shrinkage(length, s.text)
           n == News(length, s.text)
           t == Gemini!Text(s, length)
           c == Gemini!CloseThought(s)
           o == IF c.textOpen THEN c
                ELSE Emit([c EXCEPT !.textOpen = TRUE], Block("block_start", c.index, "text"))
           b == [o EXCEPT !.text = length]
           e == Sized("block_delta", o.index, "text", n)
<1>1. t = IF length <= prev THEN [s EXCEPT !.text = prev] ELSE Emit(b, e)
  BY GeminiShared DEF Gemini!Text, News
<1>2. /\ s.text \in Nat /\ prev \in Nat /\ n \in Nat
      /\ length <= prev => n = 0 /\ prev = length
  <2>1. s.text \in Nat
    BY DEF GeminiStates
  <2>2. prev \in Nat /\ n \in Nat /\ (~(length > prev) => n = 0 /\ prev = length)
    BY <2>1, NewsType
  <2> HIDE DEF prev, n
  <2>3. QED BY <2>1, <2>2
<1>3. c \in GeminiStates /\ Tells(s, c, 0, 0) /\ SameSaid(s, c)
  BY GeminiSilent DEF Tells
<1> HIDE DEF c
<1>4. o \in GeminiStates /\ Tells(s, o, 0, 0) /\ SameSaid(s, o)
  <2> DEFINE a == [c EXCEPT !.textOpen = TRUE]
             f == Block("block_start", c.index, "text")
  <2>1. a \in GeminiStates /\ a.out = c.out /\ SameSaid(c, a)
    BY <1>3 DEF GeminiStates, SameSaid
  <2>2. f \in Events /\ f.type # "block_delta"
    BY <1>3 DEF Block, Sized, Events, GeminiStates, Kinds
  <2>3. o = c \/ o = Emit(a, f)
    OBVIOUS
  <2> HIDE DEF a, f, o
  <2>4. Emit(a, f) \in GeminiStates /\ Tells(c, Emit(a, f), 0, 0) /\ SameSaid(c, Emit(a, f))
    BY <1>3, <2>1, <2>2, GeminiEmit, TellsSilent DEF SameSaid
  <2>5. Tells(s, Emit(a, f), 0 + 0, 0 + 0)
    BY <1>3, <2>4, TellsMore
  <2>6. QED BY <1>3, <2>3, <2>4, <2>5 DEF SameSaid
<1> HIDE DEF t, o, n, prev
<1>5. CASE length <= prev
  <2> DEFINE u == [s EXCEPT !.text = length]
  <2>1. u \in GeminiStates /\ u.out = s.out /\ u.text = length
        /\ u.thought = s.thought /\ u.tools = s.tools
    BY DEF GeminiStates
  <2>2. t = u /\ n = 0
    BY <1>1, <1>2, <1>5
  <2> HIDE DEF u
  <2>3. Tells(s, u, 0, 0)
    BY <2>1, TellsNothing
  <2>4. QED BY <2>1, <2>2, <2>3 DEF t, n
<1>6. CASE ~(length <= prev)
  <2>1. b \in GeminiStates /\ b.out = o.out /\ b.text = length
        /\ b.thought = s.thought /\ b.tools = s.tools
    BY <1>4 DEF GeminiStates, SameSaid
  <2>2. e \in Events
    BY <1>2, <1>4 DEF Sized, Events, GeminiStates, Kinds
  <2>3. \A k \in Kinds : Says(e, k) = Heard(0, n)[k]
    BY DEF Says, Heard, Sized
  <2>4. t = Emit(b, e)
    BY <1>1, <1>6
  <2> HIDE DEF b, e
  <2>5. Tells(o, t, 0, n)
    BY <1>2, <1>4, <2>1, <2>2, <2>3, <2>4, TellsEvent
  <2>6. Tells(s, t, 0 + 0, 0 + n)
    BY <1>2, <1>4, <2>5, TellsMore
  <2>7. t.text = length /\ t.thought = s.thought /\ t.tools = s.tools
    BY <2>1, <2>2, <2>4, GeminiEmit DEF SameSaid
  <2>8. Tells(s, t, 0, n)
    BY <1>2, <2>6
  <2>9. QED BY <2>7, <2>8 DEF t, n
<1>7. QED BY <1>5, <1>6

\* The events of tool calls are silent.
LEMMA CallsSilent ==
  ASSUME NEW n \in Nat, NEW m \in Nat
  PROVE  /\ Calls(n, m) \in Seq(Events)
         /\ \A i \in 1 .. Len(Calls(n, m)), k \in Kinds : Says(Calls(n, m)[i], k) = 0
<1> DEFINE q == Calls(n, m)
           b(i) == n + (i - 1) \div 3
           l == 3 * m
<1>1. q \in Seq(Events)
  <2>1. Silent \in [Kinds -> Nat]
    BY DEF Silent
  <2>2. QED BY <2>1, ReachesCalls
<1>2. l \in Nat /\ q = [i \in 1 .. l |-> q[i]]
  BY DEF Calls
<1>3. \A i \in 1 .. l : q[i] \in {Block("block_start", b(i), "tool"),
                                  Block("block_delta", b(i), "tool"), BlockStop(b(i))}
  <2> TAKE i \in 1 .. l
  <2>1. i % 3 \in {0, 1, 2}
    BY Thirds
  <2>2. QED BY <2>1 DEF Calls
<1>4. \A i, k : /\ Says(Block("block_start", b(i), "tool"), k) = 0
                /\ Says(Block("block_delta", b(i), "tool"), k) = 0
                /\ Says(BlockStop(b(i)), k) = 0
  BY DEF Says, Block, BlockStop, Sized
<1> HIDE DEF q, l
<1>5. Len(q) = l
  BY <1>1, <1>2
<1>6. \A i \in 1 .. Len(q), k \in Kinds : Says(q[i], k) = 0
  BY <1>3, <1>4, <1>5
<1>7. QED BY <1>1, <1>6 DEF q

\* Tool calls are told in silence, too, and none is forgotten.
LEMMA GeminiTellsCalls ==
  ASSUME NEW s \in GeminiStates, NEW count \in Nat, s.tools <= count
  PROVE  LET t == Gemini!ToolCalls(s, count) IN
         /\ Tells(s, t, 0, 0)
         /\ t.tools = count /\ t.text = s.text /\ t.thought = s.thought
<1> DEFINE c == Gemini!CloseText(s)
           fresh == count - s.tools
           q == Calls(c.index, fresh)
           r == c.out \o q
           n == c.index + fresh
           t == Gemini!ToolCalls(s, count)
<1>1. s.tools \in Nat
  BY DEF GeminiStates
<1>2. CASE count <= s.tools
  <2>1. t = s /\ count = s.tools
    BY <1>1, <1>2 DEF Gemini!ToolCalls
  <2>2. QED BY <2>1, TellsNothing
<1>3. CASE ~(count <= s.tools)
  <2>1. t = [c EXCEPT !.tools = count, !.index = n, !.out = r]
    <3>1. t = [c EXCEPT !.tools = count, !.index = @ + fresh,
                        !.out = @ \o Calls(c.index, fresh)]
      BY <1>3, ZenonT(30)
         DEF Gemini!ToolCalls, Calls, Gemini!Block, Block, Gemini!BlockStop, BlockStop,
             Gemini!Sized, Sized
    <3>2. QED BY <3>1
  <2>2. c \in GeminiStates /\ Tells(s, c, 0, 0) /\ SameSaid(s, c)
    BY GeminiSilent DEF Tells
  <2> HIDE DEF c, t
  <2>3. c.index \in Nat /\ c.out \in Seq(Events) /\ fresh \in Nat /\ n \in Nat
    BY <1>1, <2>2 DEF GeminiStates
  <2>4. q \in Seq(Events) /\ \A i \in 1 .. Len(q), k \in Kinds : Says(q[i], k) = 0
    BY <2>3, CallsSilent
  <2> HIDE DEF q, n, fresh
  <2>5. r \in Seq(Events)
    BY <2>3, <2>4
  <2>6. \A h, g : Hears(h, c.out, g) => Hears(h, r, g)
    BY <2>3, <2>4, HearsSilence
  <2> HIDE DEF r
  <2>7. /\ t \in GeminiStates /\ t.out = r /\ t.tools = count
        /\ t.text = c.text /\ t.thought = c.thought
    BY <2>1, <2>2, <2>3, <2>5 DEF GeminiStates
  <2>8. Tells(s, t, 0, 0)
    BY <2>2, <2>6, <2>7 DEF Tells
  <2>9. QED BY <2>2, <2>7, <2>8 DEF SameSaid, t
<1>4. QED BY <1>2, <1>3

\* And so is the end.
LEMMA GeminiTellsEnd ==
  ASSUME NEW s \in GeminiStates
  PROVE  Tells(s, Gemini!finish(s), 0, 0) /\ SameSaid(s, Gemini!finish(s))
<1> DEFINE a == Gemini!CloseThought(s)
           b == Gemini!CloseText(a)
           f == [b EXCEPT !.finished = TRUE]
           d == Emit(f, Plain("message_delta"))
           t == Emit(d, Plain("message_stop"))
<1>1. Gemini!finish(s) = s \/ Gemini!finish(s) = t
  BY GeminiShared DEF Gemini!finish
<1>2. Tells(s, s, 0, 0) /\ SameSaid(s, s)
  BY TellsNothing DEF SameSaid
<1>3. a \in GeminiStates /\ Tells(s, a, 0, 0) /\ SameSaid(s, a)
  BY GeminiSilent DEF Tells
<1> HIDE DEF a
<1>4. b \in GeminiStates /\ Tells(a, b, 0, 0) /\ SameSaid(a, b)
  BY <1>3, GeminiSilent DEF Tells
<1> HIDE DEF b
<1>5. f \in GeminiStates /\ f.out = b.out /\ SameSaid(b, f)
  BY <1>4 DEF GeminiStates, SameSaid
<1> HIDE DEF f
<1>6. /\ Plain("message_delta") \in Events /\ Plain("message_delta").type # "block_delta"
      /\ Plain("message_stop") \in Events /\ Plain("message_stop").type # "block_delta"
  <2>1. Plain("message_delta").type # "block_delta" /\ Plain("message_stop").type # "block_delta"
    BY DEF Plain, Block, Sized
  <2>2. QED BY <2>1, EventTypes
<1>7. d \in GeminiStates /\ Tells(b, d, 0, 0) /\ SameSaid(b, d)
  BY <1>4, <1>5, <1>6, TellsSilent, GeminiEmit DEF SameSaid
<1> HIDE DEF d
<1>8. t \in GeminiStates /\ Tells(d, t, 0, 0) /\ SameSaid(d, t)
  BY <1>6, <1>7, TellsSilent, GeminiEmit DEF SameSaid
<1> HIDE DEF t
<1>9. Tells(s, b, 0 + 0, 0 + 0)
  BY <1>3, <1>4, TellsMore
<1>10. Tells(s, d, 0 + 0 + 0, 0 + 0 + 0)
  BY <1>7, <1>9, TellsMore
<1>11. Tells(s, t, 0 + 0 + 0 + 0, 0 + 0 + 0 + 0)
  BY <1>8, <1>10, TellsMore
<1>12. SameSaid(s, t) /\ Tells(s, t, 0, 0)
  BY <1>3, <1>4, <1>7, <1>8, <1>11 DEF SameSaid
<1>13. QED BY <1>1, <1>2, <1>12

\* What any backend may say next.
LEMMA GeminiAnyResponse ==
  ASSUME NEW e \in Gemini!NextResponses
  PROVE  /\ e.candidate \in BOOLEAN /\ e.finish \in BOOLEAN
         /\ e.thought \in 0 .. MaxLength /\ e.text \in 0 .. MaxLength
         /\ e.tools \in 0 .. MaxItems
         /\ e.thought \in Nat /\ e.text \in Nat /\ e.tools \in Nat
         /\ e.tools >= sent.tools
         /\ "shrink" \notin Quirks => e.thought >= sent.thought /\ e.text >= sent.text
         /\ ~e.candidate => /\ e.thought = sent.thought /\ e.text = sent.text
                            /\ e.tools = sent.tools
<1>1. e \in [candidate : BOOLEAN, thought : 0 .. MaxLength, text : 0 .. MaxLength,
             tools : 0 .. MaxItems, finish : BOOLEAN]
  BY DEF Gemini!NextResponses
<1>2. /\ e.thought \in Nat /\ e.text \in Nat /\ e.tools \in Nat
      /\ e.candidate \in BOOLEAN /\ e.finish \in BOOLEAN
      /\ e.thought \in 0 .. MaxLength /\ e.text \in 0 .. MaxLength
      /\ e.tools \in 0 .. MaxItems
  BY <1>1, BoundsAssumption
<1>3. /\ e.tools >= sent.tools
      /\ "shrink" \notin Quirks => e.thought >= sent.thought /\ e.text >= sent.text
      /\ ~e.candidate => e = [candidate |-> FALSE, thought |-> sent.thought,
                              text |-> sent.text, tools |-> sent.tools,
                              finish |-> sent.finish]
  BY DEF Gemini!NextResponses
<1>4. ~e.candidate => /\ e.thought = sent.thought /\ e.text = sent.text
                      /\ e.tools = sent.tools
  BY <1>3
<1>5. QED BY <1>2, <1>3, <1>4

\* Of a response the client hears what is new, and the translator remembers it.
LEMMA GeminiTells ==
  ASSUME sent \in GeminiSent, st \in GeminiStates, SameSaid(sent, st),
         NEW e \in Gemini!NextResponses
  PROVE  LET t == Gemini!process_response(st, e) IN
         /\ Tells(st, t, News(e.thought, sent.thought), News(e.text, sent.text))
         /\ SameSaid(Gemini!SentAfter(e), t)
<1> DEFINE b == Gemini!BeginMessage(st)
           h == Gemini!Thought(b, e.thought)
           x == Gemini!Text(h, e.text)
           u == Gemini!ToolCalls(x, e.tools)
           f == Gemini!finish(u)
           t == Gemini!process_response(st, e)
           m == News(e.thought, sent.thought)
           n == News(e.text, sent.text)
<1>1. t = IF ~e.candidate THEN b ELSE IF e.finish THEN f ELSE u
  BY DEF Gemini!process_response
<1> HIDE DEF t
<1>2. /\ e.thought \in Nat /\ e.text \in Nat /\ e.tools \in Nat /\ e.tools >= sent.tools
      /\ ~e.candidate => /\ e.thought = sent.thought /\ e.text = sent.text
                         /\ e.tools = sent.tools
  BY GeminiAnyResponse
<1>3. sent.thought \in Nat /\ sent.text \in Nat /\ sent.tools \in Nat
  BY DEF GeminiStates, SameSaid
<1>4. /\ Gemini!SentAfter(e).thought = e.thought /\ Gemini!SentAfter(e).text = e.text
      /\ Gemini!SentAfter(e).tools = e.tools
  BY DEF Gemini!SentAfter
<1>5. m \in Nat /\ n \in Nat
  BY <1>2, <1>3, NewsType
<1>6. b \in GeminiStates /\ Tells(st, b, 0, 0) /\ SameSaid(st, b)
  BY GeminiSilent DEF Tells
<1> HIDE DEF b
<1>7. CASE ~e.candidate
  <2>1. m = 0 /\ n = 0
    <3>1. e.thought = sent.thought /\ e.text = sent.text
      BY <1>2, <1>7
    <3>2. e.thought >= sent.thought /\ e.text >= sent.text
      BY <1>3, <3>1
    <3>3. m = e.thought - sent.thought /\ n = e.text - sent.text
      BY <1>2, <1>3, <3>2, NewsType
    <3> HIDE DEF m, n
    <3>4. QED BY <1>3, <3>1, <3>3
  <2>2. t = b
    BY <1>1, <1>7
  <2>3. SameSaid(Gemini!SentAfter(e), t)
    BY <1>2, <1>4, <1>6, <1>7, <2>2 DEF SameSaid
  <2>4. Tells(st, t, m, n)
    BY <1>6, <2>1, <2>2
  <2>5. QED BY <2>3, <2>4 DEF t
<1>8. CASE e.candidate
  <2>1. b.thought = sent.thought /\ b.text = sent.text /\ b.tools = sent.tools
    BY <1>6 DEF SameSaid
  <2>2. /\ h \in GeminiStates /\ Tells(b, h, m, 0)
        /\ h.thought = e.thought /\ h.text = sent.text /\ h.tools = sent.tools
    BY <1>2, <1>6, <2>1, GeminiTellsThought DEF Tells
  <2> HIDE DEF h
  <2>3. /\ x \in GeminiStates /\ Tells(h, x, 0, n)
        /\ x.text = e.text /\ x.thought = e.thought /\ x.tools = sent.tools
    BY <1>2, <2>2, GeminiTellsText DEF Tells
  <2> HIDE DEF x
  <2>4. /\ u \in GeminiStates /\ Tells(x, u, 0, 0)
        /\ u.text = e.text /\ u.thought = e.thought /\ u.tools = e.tools
    BY <1>2, <1>3, <2>3, GeminiTellsCalls DEF Tells
  <2> HIDE DEF u
  <2>5. Tells(u, f, 0, 0) /\ SameSaid(u, f) /\ Tells(u, u, 0, 0) /\ SameSaid(u, u)
    BY <2>4, GeminiTellsEnd, TellsNothing DEF SameSaid
  <2> HIDE DEF f
  <2>6. t \in {u, f}
    BY <1>1, <1>8
  <2>7. Tells(u, t, 0, 0) /\ SameSaid(u, t)
    BY <2>5, <2>6
  <2> HIDE DEF m, n
  <2>8. Tells(st, h, 0 + m, 0 + 0)
    BY <1>5, <1>6, <2>2, TellsMore
  <2>9. Tells(st, x, 0 + m + 0, 0 + 0 + n)
    BY <1>5, <2>3, <2>8, TellsMore
  <2>10. Tells(st, u, 0 + m + 0 + 0, 0 + 0 + n + 0)
    BY <1>5, <2>4, <2>9, TellsMore
  <2>11. Tells(st, t, 0 + m + 0 + 0 + 0, 0 + 0 + n + 0 + 0)
    BY <1>5, <2>7, <2>10, TellsMore
  <2>12. Tells(st, t, m, n)
    BY <1>5, <2>11
  <2>13. SameSaid(Gemini!SentAfter(e), t)
    BY <1>4, <2>4, <2>7 DEF SameSaid
  <2>14. QED BY <2>12, <2>13 DEF t, m, n
<1>9. QED BY <1>2, <1>7, <1>8, GeminiAnyResponse

\* Somebody who has heard g has heard all that was ever said, and of a backend
\* that takes nothing back no more than that.
KnowsAll(g, x) ==
  \A k \in {"thinking", "text"} : /\ g[k] >= x.longest[k]
                                  /\ "shrink" \notin Quirks => g[k] = x.longest[k]

\* What is remembered of the backend: the last response and the longest.
Remembers(x) ==
  /\ x.thought <= x.longest["thinking"] /\ x.text <= x.longest["text"]
  /\ "shrink" \notin Quirks => /\ x.thought = x.longest["thinking"]
                               /\ x.text = x.longest["text"]

\* Whatever the backend does: the translator remembers the last response, and a
\* client that listens will have heard all there was.
GeminiTold ==
  /\ TaskInv
  /\ sent \in GeminiSent /\ Remembers(sent)
  /\ st \in GeminiStates /\ SameSaid(sent, st)
  /\ connected => \E g : Hears(client.heard, st.out, g) /\ KnowsAll(g, sent)

\* What is new was not known, and all is known after that.
LEMMA GeminiKnows ==
  ASSUME sent \in GeminiSent, Remembers(sent), NEW e \in Gemini!NextResponses,
         NEW g \in [Kinds -> Nat], KnowsAll(g, sent)
  PROVE  LET x == Gemini!SentAfter(e) IN
         /\ x \in GeminiSent /\ Remembers(x)
         /\ KnowsAll(Louder(g, News(e.thought, sent.thought), News(e.text, sent.text)), x)
<1> DEFINE x == Gemini!SentAfter(e)
           m == News(e.thought, sent.thought)
           n == News(e.text, sent.text)
           l == [thinking |-> Gemini!Longer(sent.longest.thinking, e.thought),
                 text     |-> Gemini!Longer(sent.longest.text, e.text)]
           i == sent.longest["thinking"]
           j == sent.longest["text"]
<1>1. x = [thought |-> e.thought, text |-> e.text, tools |-> e.tools, finish |-> e.finish,
           begun |-> TRUE, longest |-> l]
  BY DEF Gemini!SentAfter
<1>2. /\ sent.thought \in Nat /\ sent.text \in Nat
      /\ i \in 0 .. MaxLength /\ j \in 0 .. MaxLength /\ i \in Nat /\ j \in Nat
  BY BoundsAssumption DEF GeminiSent
<1>3. /\ e.thought \in 0 .. MaxLength /\ e.text \in 0 .. MaxLength
      /\ e.thought \in Nat /\ e.text \in Nat
      /\ "shrink" \notin Quirks => e.thought >= sent.thought /\ e.text >= sent.text
  BY GeminiAnyResponse
<1>4. /\ l["thinking"] = IF i < e.thought THEN e.thought ELSE i
      /\ l["text"] = IF j < e.text THEN e.text ELSE j
  BY DEF Gemini!Longer
<1>5. l \in [{"thinking", "text"} -> 0 .. MaxLength]
  BY <1>2, <1>3 DEF Gemini!Longer
<1> HIDE DEF l
<1>6. x \in GeminiSent
  BY <1>1, <1>5, GeminiAnyResponse DEF GeminiSent
<1>7. x.thought = e.thought /\ x.text = e.text /\ x.longest = l
  BY <1>1
<1> HIDE DEF x
<1>8. /\ sent.thought <= i /\ sent.text <= j
      /\ "shrink" \notin Quirks => sent.thought = i /\ sent.text = j
  BY DEF Remembers
<1> HIDE DEF i, j
<1>9. Remembers(x)
  BY <1>2, <1>3, <1>4, <1>7, <1>8 DEF Remembers
<1>10. /\ m \in Nat /\ sent.thought + m >= e.thought
       /\ e.thought >= sent.thought => m = e.thought - sent.thought
       /\ n \in Nat /\ sent.text + n >= e.text
       /\ e.text >= sent.text => n = e.text - sent.text
  BY <1>2, <1>3, NewsType
<1> HIDE DEF m, n
<1>11. /\ Louder(g, m, n)["thinking"] = g["thinking"] + m
       /\ Louder(g, m, n)["text"] = g["text"] + n
       /\ g["thinking"] \in Nat /\ g["text"] \in Nat
  BY DEF Louder, Heard, Kinds
<1>12. /\ g["thinking"] >= i /\ g["text"] >= j
       /\ "shrink" \notin Quirks => g["thinking"] = i /\ g["text"] = j
  BY DEF KnowsAll, i, j
<1>13. /\ g["thinking"] + m >= l["thinking"]
       /\ "shrink" \notin Quirks => g["thinking"] + m = l["thinking"]
  BY <1>2, <1>3, <1>4, <1>8, <1>10, <1>11, <1>12
<1>14. /\ g["text"] + n >= l["text"]
       /\ "shrink" \notin Quirks => g["text"] + n = l["text"]
  BY <1>2, <1>3, <1>4, <1>8, <1>10, <1>11, <1>12
<1>15. KnowsAll(Louder(g, m, n), x)
  BY <1>7, <1>11, <1>13, <1>14 DEF KnowsAll
<1>16. QED BY <1>6, <1>9, <1>15 DEF x, m, n

\* The stream starts with that.
LEMMA GeminiToldInit == Gemini!Init => GeminiTold
<1> SUFFICES ASSUME Gemini!Init PROVE GeminiTold
  OBVIOUS
<1>1. GeminiInv
  BY GeminiInit
<1>2. /\ sent.longest = [thinking |-> sent.thought, text |-> sent.text]
      /\ sent.thought = 0 /\ sent.text = 0 /\ sent.tools = 0
      /\ st.out = <<>> /\ client.heard = [k \in Gemini!Kinds |-> 0]
  BY DEF Gemini!Init, Gemini!TaskInit
<1>3. SameSaid(sent, st)
  BY <1>1 DEF GeminiInv, GeminiSaid, SameSaid
<1>4. sent.longest["thinking"] = 0 /\ sent.longest["text"] = 0
  BY <1>2
<1>5. Remembers(sent)
  BY <1>2, <1>4 DEF Remembers
<1>6. Hears(client.heard, st.out, client.heard)
  <2>1. client.heard \in [Kinds -> Nat]
    BY <1>1 DEF GeminiInv, TaskInv, Clients
  <2>2. QED BY <1>2, <2>1, HearsNothing
<1>7. KnowsAll(client.heard, sent)
  BY <1>2, <1>4 DEF KnowsAll, Gemini!Kinds
<1>8. QED BY <1>1, <1>3, <1>5, <1>6, <1>7 DEF GeminiInv, GeminiTold

\* Every step of the task keeps that.
LEMMA GeminiToldStep ==
  ASSUME GeminiTold, Gemini!Next \/ UNCHANGED <<vars, backend>>
  PROVE  GeminiTold'
<1> USE DEF Outcomes
<1>1. CASE Gemini!ReadResponse
  <2>1. PICK e \in Gemini!NextResponses :
          st' = Gemini!process_response(st, e) /\ sent' = Gemini!SentAfter(e)
    BY <1>1 DEF Gemini!ReadResponse
  <2>2. reader = "reading" /\ UNCHANGED <<done, reader, connected, client>>
    BY <1>1 DEF Gemini!ReadResponse, Gemini!Reading
  <2> DEFINE m == News(e.thought, sent.thought)
             n == News(e.text, sent.text)
  <2>3. Tells(st, st', m, n) /\ SameSaid(sent', st')
    BY <2>1, GeminiTells DEF GeminiTold
  <2>4. \E g : g \in [Kinds -> Nat] /\ KnowsAll(g, sent)
    <3> DEFINE g == [k \in Kinds |-> IF k = "tool" THEN 0 ELSE sent.longest[k]]
    <3>1. sent.longest \in [{"thinking", "text"} -> 0 .. MaxLength]
      BY DEF GeminiTold, GeminiSent
    <3>2. g \in [Kinds -> Nat]
      BY <3>1, BoundsAssumption DEF Kinds
    <3>3. KnowsAll(g, sent)
      BY <3>1, BoundsAssumption DEF KnowsAll, Kinds
    <3>4. QED BY <3>2, <3>3
  <2>5. sent' \in GeminiSent /\ Remembers(sent')
    BY <2>1, <2>4, GeminiKnows DEF GeminiTold
  <2>6. ASSUME connected'
        PROVE  \E g : Hears(client'.heard, st'.out, g) /\ KnowsAll(g, sent')
    <3>1. PICK g : Hears(client.heard, st.out, g) /\ KnowsAll(g, sent)
      BY <2>2, <2>6 DEF GeminiTold
    <3>2. g \in [Kinds -> Nat]
      BY <3>1, HearsType DEF GeminiTold, GeminiStates
    <3>3. Hears(client'.heard, st'.out, Louder(g, m, n))
      BY <2>2, <2>3, <3>1 DEF Tells
    <3>4. KnowsAll(Louder(g, m, n), sent')
      BY <2>1, <3>1, <3>2, GeminiKnows DEF GeminiTold
    <3>5. QED BY <3>3, <3>4
  <2>7. TaskInv'
    BY <2>2 DEF GeminiTold, TaskInv
  <2>8. QED
    BY <2>3, <2>5, <2>6, <2>7 DEF GeminiTold, Tells
<1>2. CASE Gemini!ReadEnd
  <2>1. /\ sent' = sent /\ st' = Gemini!finish(st) /\ reader' = "completed"
        /\ UNCHANGED <<done, connected, client>>
    BY <1>2 DEF Gemini!ReadEnd
  <2>2. Tells(st, st', 0, 0) /\ SameSaid(st, st')
    BY <2>1, GeminiTellsEnd DEF GeminiTold
  <2>3. SameSaid(sent', st') /\ st' \in GeminiStates
    BY <2>1, <2>2 DEF GeminiTold, SameSaid, Tells
  <2>4. ASSUME connected'
        PROVE  \E g : Hears(client'.heard, st'.out, g) /\ KnowsAll(g, sent')
    <3>1. PICK g : Hears(client.heard, st.out, g) /\ KnowsAll(g, sent)
      BY <2>1, <2>4 DEF GeminiTold
    <3>2. g \in [Kinds -> Nat]
      BY <3>1, HearsType DEF GeminiTold, GeminiStates
    <3>3. Hears(client'.heard, st'.out, Louder(g, 0, 0))
      BY <2>1, <2>2, <3>1 DEF Tells
    <3>4. Louder(g, 0, 0) = g
      <4>1. \A k \in Kinds : Heard(0, 0)[k] = 0
        BY DEF Heard
      <4>2. QED BY <3>2, <4>1 DEF Louder
    <3>5. QED BY <2>1, <3>1, <3>3, <3>4
  <2>5. TaskInv'
    BY <2>1 DEF GeminiTold, TaskInv
  <2>6. Remembers(sent') /\ sent' \in GeminiSent
    BY <2>1 DEF GeminiTold
  <2>7. QED BY <2>3, <2>4, <2>5, <2>6 DEF GeminiTold
<1>3. CASE Gemini!Send
  <2> DEFINE q == Tail(st.out)
             e == Head(st.out)
  <2>1. /\ connected /\ st.out # <<>> /\ st' = [st EXCEPT !.out = q]
        /\ client' = Sees(client, e) /\ UNCHANGED <<sent, done, reader, connected>>
    BY <1>3, GeminiShared DEF Gemini!Send
  <2>2. st.out \in Seq(Events) /\ client \in Clients
    BY DEF GeminiTold, GeminiStates, TaskInv
  <2>3. client' \in Clients /\ q \in Seq(Events) /\ e \in Events
    BY <2>1, <2>2, TaskSendsAny
  <2>4. PICK g : Hears(client.heard, st.out, g) /\ KnowsAll(g, sent)
    BY <2>1 DEF GeminiTold
  <2>5. Hears(After(client.heard, e), q, g)
    BY <2>1, <2>2, <2>4, HearsFirst
  <2> HIDE DEF q, e
  <2>6. client'.heard = After(client.heard, e)
    BY <2>1, <2>2, <2>3, SeesHears
  <2>7. st' \in GeminiStates /\ st'.out = q /\ SameSaid(st, st')
    BY <2>1, <2>3, GeminiTypeOut DEF GeminiTold
  <2>8. SameSaid(sent', st') /\ sent' \in GeminiSent /\ Remembers(sent')
    BY <2>1, <2>7 DEF GeminiTold, SameSaid
  <2>9. Hears(client'.heard, st'.out, g) /\ KnowsAll(g, sent')
    BY <2>1, <2>4, <2>5, <2>6, <2>7
  <2>10. TaskInv'
    BY <2>1, <2>3 DEF GeminiTold, TaskInv
  <2>11. QED BY <2>7, <2>8, <2>9, <2>10 DEF GeminiTold
<1>4. CASE Gemini!SendEndFails
  <2> DEFINE q == <<>>
  <2>1. /\ ~connected /\ st' = [st EXCEPT !.out = q] /\ reader' = "disconnected"
        /\ UNCHANGED <<sent, done, connected, client>>
    BY <1>4 DEF Gemini!SendEndFails, Gemini!DropEvents
  <2>2. q \in Seq(Events)
    OBVIOUS
  <2> HIDE DEF q
  <2>3. st' \in GeminiStates /\ st'.out = q /\ SameSaid(st, st')
    BY <2>1, <2>2, GeminiTypeOut DEF GeminiTold
  <2>4. SameSaid(sent', st') /\ sent' \in GeminiSent /\ Remembers(sent') /\ ~connected'
    BY <2>1, <2>3 DEF GeminiTold, SameSaid
  <2>5. TaskInv'
    BY <2>1 DEF GeminiTold, TaskInv
  <2>6. QED BY <2>3, <2>4, <2>5 DEF GeminiTold
<1>5. CASE Gemini!ReadError \/ Gemini!Leave \/ UNCHANGED <<vars, backend>>
  <2>1. /\ UNCHANGED <<sent, st, done, client>> /\ connected' \in {connected, FALSE}
        /\ reader' = reader \/ (reader' = "broken" /\ st.out = <<>>)
    BY <1>5 DEF Gemini!ReadError, Gemini!Leave, Gemini!Reading, vars
  <2>2. TaskInv'
    BY <2>1 DEF GeminiTold, TaskInv
  <2>3. SameSaid(sent', st') /\ sent' \in GeminiSent /\ Remembers(sent') /\ st' \in GeminiStates
    BY <2>1 DEF GeminiTold
  <2>4. ASSUME connected'
        PROVE  \E g : Hears(client'.heard, st'.out, g) /\ KnowsAll(g, sent')
    BY <2>1, <2>4 DEF GeminiTold
  <2>5. QED BY <2>2, <2>3, <2>4 DEF GeminiTold
<1>6. QED BY <1>1, <1>2, <1>3, <1>4, <1>5 DEF Gemini!Next

\* What it says of the types.
LEMMA GeminiToldTyped == GeminiTold => Gemini!TypeOK
<1> SUFFICES ASSUME GeminiTold PROVE Gemini!TypeOK
  OBVIOUS
<1>1. /\ st.started \in BOOLEAN /\ st.textOpen \in BOOLEAN /\ st.thoughtOpen \in BOOLEAN
      /\ st.finished \in BOOLEAN /\ st.index \in Nat /\ st.out \in Seq(Events)
  BY DEF GeminiTold, GeminiStates
<1>2. \A i \in DOMAIN st.out : st.out[i] \in Events
  BY <1>1
<1>3. Gemini!Events = Events /\ Gemini!Kinds = Kinds /\ Gemini!Outcomes = Outcomes
  BY DEF Gemini!Events, Events, Gemini!Kinds, Kinds, Gemini!Plain, Plain,
         Gemini!Block, Block, Gemini!Sized, Sized, Gemini!Outcomes, Outcomes
<1>4. /\ client.stage \in {"idle", "open", "ending", "stopped", "failed", "confused"}
      /\ client.open \subseteq [index : Nat, kind : Kinds]
      /\ client.next \in Nat /\ client.heard \in [Kinds -> Nat]
  BY DEF GeminiTold, TaskInv, Clients
<1>5. Gemini!TaskTypeOK
  BY <1>2, <1>3, <1>4 DEF GeminiTold, TaskInv, Gemini!TaskTypeOK
<1>6. st.text \in 0 .. MaxLength /\ st.thought \in 0 .. MaxLength /\ st.tools \in 0 .. MaxItems
  BY DEF GeminiTold, GeminiSent, SameSaid
<1>7. sent \in GeminiSent
  BY DEF GeminiTold
<1>8. QED BY <1>1, <1>5, <1>6, <1>7 DEF Gemini!TypeOK, GeminiSent

\* Between two responses the client has heard what the translator has sent on.
LEMMA GeminiToldHeard ==
  ASSUME GeminiTold, Gemini!Reading, connected
  PROVE  KnowsAll(client.heard, sent)
<1>1. st.out = <<>>
  BY DEF Gemini!Reading
<1>2. PICK g : Hears(client.heard, st.out, g) /\ KnowsAll(g, sent)
  BY DEF GeminiTold
<1>3. g = client.heard
  BY <1>1, <1>2, HearsSame
<1>4. QED BY <1>2, <1>3

-----------------------------------------------------------------------------
(* The streaming endpoints, whatever the backend does *)

AnyInv ==
  /\ backend \in Backends
  /\ backend = "OpenAI"          => OpenAITypes
  /\ backend = "OpenAIResponses" => ResponsesTypes
  /\ backend = "GeminiNative"    => GeminiTold

\* There are three kinds of backends.
LEMMA AnyKinds ==
  ASSUME AnyInv
  PROVE  backend \in {"OpenAI", "OpenAIResponses", "GeminiNative"}
BY BackendsAssumption DEF AnyInv

\* The stream starts with the invariant of its backend.
LEMMA AnyStart == Init => AnyInv
<1> SUFFICES ASSUME Init PROVE AnyInv
  OBVIOUS
<1>1. backend \in {"OpenAI", "OpenAIResponses", "GeminiNative"} /\ backend \in Backends
  BY BackendsAssumption DEF Init
<1>2. CASE backend = "OpenAI"
  BY <1>1, <1>2, OpenAITypesInit DEF Init, AnyInv
<1>3. CASE backend = "OpenAIResponses"
  BY <1>1, <1>3, ResponsesTypesInit DEF Init, AnyInv
<1>4. CASE backend = "GeminiNative"
  BY <1>1, <1>4, GeminiToldInit DEF Init, AnyInv
<1>5. QED BY <1>1, <1>2, <1>3, <1>4

\* And every step keeps it.
LEMMA AnyStep ==
  ASSUME AnyInv, [Next]_<<vars, backend>>
  PROVE  AnyInv'
<1>1. backend' = backend
  BY DEF Next, OpenAINext, ResponsesNext, GeminiNext
<1>2. CASE backend = "OpenAI"
  <2>1. OpenAI!Next \/ UNCHANGED <<vars, backend>>
    BY <1>2 DEF Next, OpenAINext, ResponsesNext, GeminiNext
  <2>2. OpenAITypes'
    BY <1>2, <2>1, OpenAITypesStep DEF AnyInv
  <2>3. QED BY <1>1, <1>2, <2>2 DEF AnyInv
<1>3. CASE backend = "OpenAIResponses"
  <2>1. Responses!Next \/ UNCHANGED <<vars, backend>>
    BY <1>3 DEF Next, OpenAINext, ResponsesNext, GeminiNext
  <2>2. ResponsesTypes'
    BY <1>3, <2>1, ResponsesTypesStep DEF AnyInv
  <2>3. QED BY <1>1, <1>3, <2>2 DEF AnyInv
<1>4. CASE backend = "GeminiNative"
  <2>1. Gemini!Next \/ UNCHANGED <<vars, backend>>
    BY <1>4 DEF Next, OpenAINext, ResponsesNext, GeminiNext
  <2>2. GeminiTold'
    BY <1>4, <2>1, GeminiToldStep DEF AnyInv
  <2>3. QED BY <1>1, <1>4, <2>2 DEF AnyInv
<1>5. QED BY <1>2, <1>3, <1>4, AnyKinds

\* Whatever the backend and whatever it does, the translator, the queue of its
\* events and the client are well formed.
THEOREM TypeCorrect == Spec => []TypeOK
<1>1. AnyInv /\ [Next]_<<vars, backend>> => AnyInv'
  BY AnyStep
<1>2. AnyInv => TypeOK
  BY AnyKinds, OpenAITypesMean, ResponsesTypesMean, GeminiToldTyped DEF AnyInv, TypeOK
<1>3. QED BY <1>1, <1>2, AnyStart, PTL DEF Spec

\* Of a Gemini backend, whatever it does, the client misses nothing: between two
\* responses it has heard at least as much as the longest thought and text.
NothingMissed ==
  backend = "GeminiNative" /\ Gemini!Reading /\ connected =>
    \A k \in {"thinking", "text"} : client.heard[k] >= sent.longest[k]

\* A backend that shrinks its text has the client hear some of it twice, but
\* none of it never.
THEOREM GeminiNothingMissed == Spec => []NothingMissed
<1>1. AnyInv /\ [Next]_<<vars, backend>> => AnyInv'
  BY AnyStep
<1>2. AnyInv => NothingMissed
  BY GeminiToldHeard DEF AnyInv, NothingMissed, KnowsAll
<1>3. QED BY <1>1, <1>2, AnyStart, PTL DEF Spec

\* And if the backend takes back nothing it has sent, it hears everything once:
\* neither the order of what a response holds nor a stream cut short makes the
\* translator repeat itself.
THEOREM GeminiHeardAllOnce ==
  ASSUME "shrink" \notin Quirks
  PROVE  Spec => []HeardOnce
<1>1. AnyInv /\ [Next]_<<vars, backend>> => AnyInv'
  BY AnyStep
<1>2. AnyInv => HeardOnce
  BY GeminiToldHeard DEF AnyInv, HeardOnce, Gemini!HeardOnce, KnowsAll
<1>3. QED BY <1>1, <1>2, AnyStart, PTL DEF Spec

-----------------------------------------------------------------------------
(* How a Gemini stream ends *)

\* An operation that does not end the message leaves the two flags alone.
HasFlags(s) == {"started", "finished"} \subseteq DOMAIN s

Keeps(s, t) == HasFlags(t) /\ t.finished = s.finished /\ t.started = s.started

LEMMA EmitKeeps ==
  ASSUME NEW s, HasFlags(s), NEW e
  PROVE  Keeps(s, Emit(s, e))
BY DEF Keeps, HasFlags, Emit

LEMMA GeminiKeeps ==
  ASSUME NEW s, HasFlags(s), NEW n
  PROVE  /\ Keeps(s, Gemini!CloseText(s)) /\ Keeps(s, Gemini!CloseThought(s))
         /\ Keeps(s, Gemini!Thought(s, n)) /\ Keeps(s, Gemini!Text(s, n))
         /\ Keeps(s, Gemini!ToolCalls(s, n))
<1> USE DEF Keeps, HasFlags
<1>1. ASSUME NEW x, HasFlags(x), NEW e PROVE Keeps(x, Gemini!Emit(x, e))
  BY <1>1 DEF Gemini!Emit
<1>2. ASSUME NEW x, HasFlags(x)
      PROVE  Keeps(x, Gemini!CloseText(x)) /\ Keeps(x, Gemini!CloseThought(x))
  BY <1>2 DEF Gemini!CloseText, Gemini!CloseThought, Gemini!Emit
<1>3. Keeps(s, Gemini!Thought(s, n))
  <2> DEFINE o == IF s.thoughtOpen THEN s
                  ELSE Gemini!Emit([s EXCEPT !.thoughtOpen = TRUE],
                                   Gemini!Block("block_start", s.index, "thinking"))
             prev == Gemini!guard_shrinkage(n, s.thought)
  <2>1. Keeps(s, o)
    BY DEF Gemini!Emit
  <2>2. Gemini!Thought(s, n) = IF n <= prev THEN [s EXCEPT !.thought = prev]
                               ELSE Gemini!Emit([o EXCEPT !.thought = n],
                                      Gemini!Sized("block_delta", o.index, "thinking", n - prev))
    BY DEF Gemini!Thought
  <2> HIDE DEF o, prev
  <2>3. Keeps(s, [s EXCEPT !.thought = prev]) /\ Keeps(s, [o EXCEPT !.thought = n])
    BY <2>1
  <2>4. QED BY <1>1, <2>2, <2>3
<1>4. Keeps(s, Gemini!Text(s, n))
  <2> DEFINE c == Gemini!CloseThought(s)
             o == IF c.textOpen THEN c
                  ELSE Gemini!Emit([c EXCEPT !.textOpen = TRUE],
                                   Gemini!Block("block_start", c.index, "text"))
             prev == Gemini!guard_shrinkage(n, s.text)
  <2>1. Keeps(s, c)
    BY <1>2
  <2>2. Gemini!Text(s, n) = IF n <= prev THEN [s EXCEPT !.text = prev]
                            ELSE Gemini!Emit([o EXCEPT !.text = n],
                                   Gemini!Sized("block_delta", o.index, "text", n - prev))
    BY DEF Gemini!Text
  <2> HIDE DEF c
  <2>3. Keeps(s, o)
    BY <2>1 DEF Gemini!Emit
  <2> HIDE DEF o, prev
  <2>4. Keeps(s, [s EXCEPT !.text = prev]) /\ Keeps(s, [o EXCEPT !.text = n])
    BY <2>3
  <2>5. QED BY <1>1, <2>2, <2>4
<1>5. Keeps(s, Gemini!ToolCalls(s, n))
  <2> DEFINE c == Gemini!CloseText(s)
  <2>1. Keeps(s, c)
    BY <1>2
  <2>2. \/ Gemini!ToolCalls(s, n) = s
        \/ \E i, q : Gemini!ToolCalls(s, n) = [c EXCEPT !.tools = n, !.index = i, !.out = q]
    BY DEF Gemini!ToolCalls
  <2> HIDE DEF c
  <2>3. QED BY <2>1, <2>2
<1>6. QED BY <1>2, <1>3, <1>4, <1>5

\* The end of a message, once.
LEMMA GeminiClosed ==
  ASSUME NEW s \in GeminiStates
  PROVE  LET t == Gemini!finish(s) IN
         t.finished /\ t.started = s.started /\ Concludes(s, t)
<1>1. CASE s.finished
  BY <1>1 DEF Gemini!finish, Concludes
<1>2. CASE ~s.finished
  <2> DEFINE a == Gemini!CloseText(Gemini!CloseThought(s))
             f == [a EXCEPT !.finished = TRUE]
             d == Emit(f, Plain("message_delta"))
             t == Emit(d, Plain("message_stop"))
  <2>1. Gemini!finish(s) = t
    BY <1>2, GeminiShared DEF Gemini!finish
  <2>2. a \in GeminiStates /\ a.started = s.started
    <3>1. Gemini!CloseThought(s) \in GeminiStates
      BY GeminiSilent DEF Tells
    <3>2. a \in GeminiStates
      BY <3>1, GeminiSilent DEF Tells
    <3>3. HasFlags(s)
      BY DEF HasFlags, GeminiStates
    <3>4. Keeps(s, Gemini!CloseThought(s)) /\ HasFlags(Gemini!CloseThought(s))
      BY <3>3, GeminiKeeps DEF Keeps
    <3>5. Keeps(Gemini!CloseThought(s), a)
      BY <3>4, GeminiKeeps
    <3>6. QED BY <3>2, <3>4, <3>5 DEF Keeps
  <2> HIDE DEF a
  <2>3. f \in GeminiStates /\ f.finished /\ f.started = s.started
    BY <2>2 DEF GeminiStates
  <2> HIDE DEF f
  <2>4. Plain("message_delta") \in Events /\ Plain("message_stop") \in Events
    BY EventTypes
  <2>5. d \in GeminiStates /\ d.finished /\ d.started = s.started
    BY <2>3, <2>4, GeminiEmit
  <2> HIDE DEF d
  <2>6. t.finished /\ t.started = s.started /\ t.out = Append(d.out, Plain("message_stop"))
    BY <2>4, <2>5, GeminiEmit
  <2> HIDE DEF t
  <2>7. Closing(t.out)
    BY <2>5, <2>6, ClosedBy DEF GeminiStates
  <2>8. QED BY <1>2, <2>1, <2>6, <2>7 DEF Concludes
<1>3. QED BY <1>1, <1>2

\* A response that only repeats what was said changes nothing.
LEMMA GeminiRepeated ==
  ASSUME NEW s \in GeminiStates, s.started, s.finished, NEW e,
         e.thought = s.thought, e.text = s.text, e.tools = s.tools
  PROVE  Gemini!process_response(s, e) = s
<1>1. s.thought \in Nat /\ s.text \in Nat /\ s.tools \in Nat
  BY DEF GeminiStates
<1>2. Gemini!BeginMessage(s) = s
  BY DEF Gemini!BeginMessage
<1>3. Gemini!Thought(s, e.thought) = s
  <2>1. Gemini!Thought(s, e.thought) = [s EXCEPT !.thought = s.thought]
    BY <1>1 DEF Gemini!Thought, Gemini!guard_shrinkage
  <2>2. QED BY <2>1 DEF GeminiStates
<1>4. Gemini!Text(s, e.text) = s
  <2>1. Gemini!Text(s, e.text) = [s EXCEPT !.text = s.text]
    BY <1>1 DEF Gemini!Text, Gemini!guard_shrinkage
  <2>2. QED BY <2>1 DEF GeminiStates
<1>5. Gemini!ToolCalls(s, e.tools) = s
  BY <1>1 DEF Gemini!ToolCalls
<1>6. Gemini!finish(s) = s
  BY DEF Gemini!finish
<1>7. QED BY <1>2, <1>3, <1>4, <1>5, <1>6 DEF Gemini!process_response

\* Only the response that ends the answer has the translator finish.
LEMMA GeminiConcludes ==
  ASSUME sent \in GeminiSent, st \in GeminiStates, SameSaid(sent, st),
         st.finished => sent.finish /\ st.started,
         NEW e \in Gemini!NextResponses
  PROVE  LET t == Gemini!process_response(st, e) IN
         /\ Concludes(st, t)
         /\ t.finished => Gemini!SentAfter(e).finish /\ t.started
<1> DEFINE t == Gemini!process_response(st, e)
           b == Gemini!BeginMessage(st)
           h == Gemini!Thought(b, e.thought)
           x == Gemini!Text(h, e.text)
           u == Gemini!ToolCalls(x, e.tools)
<1>1. Gemini!SentAfter(e).finish = e.finish
  BY DEF Gemini!SentAfter
<1>2. CASE st.finished
  <2>1. e.thought = sent.thought /\ e.text = sent.text /\ e.tools = sent.tools /\ e.finish
    BY <1>2 DEF Gemini!NextResponses
  <2>2. t = st
    BY <1>2, <2>1, GeminiRepeated DEF SameSaid
  <2>3. QED BY <1>1, <1>2, <2>1, <2>2 DEF Concludes
<1>3. CASE ~st.finished
  <2>1. t = IF ~e.candidate THEN b ELSE IF e.finish THEN Gemini!finish(u) ELSE u
    BY DEF Gemini!process_response
  <2> HIDE DEF t
  <2>2. /\ e.thought \in Nat /\ e.text \in Nat /\ e.tools \in Nat
        /\ sent.tools = st.tools /\ st.tools <= e.tools
    BY GeminiAnyResponse DEF SameSaid, GeminiStates
  <2>3. b \in GeminiStates /\ b.tools = st.tools
    BY GeminiSilent DEF Tells, SameSaid
  <2>4. HasFlags(b) /\ b.started /\ ~b.finished
    <3>1. \/ b = st /\ st.started
          \/ b = Emit([st EXCEPT !.started = TRUE], Plain("message_start"))
      BY GeminiShared DEF BeginMessage
    <3>2. [st EXCEPT !.started = TRUE].started /\ ~[st EXCEPT !.started = TRUE].finished
          /\ HasFlags(st) /\ HasFlags([st EXCEPT !.started = TRUE])
      BY <1>3 DEF GeminiStates, HasFlags
    <3>3. QED BY <1>3, <3>1, <3>2, EmitKeeps DEF Keeps
  <2> HIDE DEF b
  <2>5. h \in GeminiStates /\ h.tools = st.tools /\ Keeps(b, h)
    BY <2>2, <2>3, <2>4, GeminiTellsThought, GeminiKeeps DEF Tells
  <2> HIDE DEF h
  <2>6. x \in GeminiStates /\ x.tools = st.tools /\ Keeps(h, x)
    BY <2>2, <2>5, GeminiTellsText, GeminiKeeps DEF Tells, Keeps
  <2> HIDE DEF x
  <2>7. u \in GeminiStates /\ Keeps(x, u)
    BY <2>2, <2>6, GeminiTellsCalls, GeminiKeeps DEF Tells, Keeps
  <2> HIDE DEF u
  <2>8. u.started /\ ~u.finished
    BY <2>4, <2>5, <2>6, <2>7 DEF Keeps
  <2>9. CASE t = b \/ t = u
    BY <1>3, <2>4, <2>8, <2>9 DEF Concludes, t
  <2>10. CASE e.finish /\ t = Gemini!finish(u)
    <3>1. t.finished /\ t.started /\ Closing(t.out)
      BY <2>7, <2>8, <2>10, GeminiClosed DEF Concludes
    <3>2. QED BY <1>1, <1>3, <2>10, <3>1 DEF Concludes, t
  <2>11. QED BY <2>1, <2>9, <2>10
<1>4. QED BY <1>2, <1>3

-----------------------------------------------------------------------------
(* How a stream ends *)

\* While the client listens and the stream is not broken, the end of a message
\* that has finished is the last event of the queue, or has been seen.
EndIsTold ==
  connected /\ reader # "broken" /\ st.finished =>
    IF st.out = <<>> THEN client.stage \in {"stopped", "failed"} ELSE Closing(st.out)

\* A stream that is recorded as completed has told its client how it ended, or
\* is about to: the client has seen the end, or it is the last event still sent.
CompletedTold ==
  reader = "completed" /\ connected =>
    /\ st.finished
    /\ IF st.out = <<>> THEN client.stage \in {"stopped", "failed"} ELSE Closing(st.out)

\* What the end of each backend's stream says of its translator.
EndInv ==
  /\ AnyInv
  /\ EndIsTold
  /\ reader = "completed" => st.finished
  /\ backend = "OpenAI" => (done => st.finished)
  /\ backend = "GeminiNative" =>
       (reader = "reading" /\ st.finished => sent.finish /\ st.started)

\* A frame is read, or the end of the body.
LEMMA ReadTellsEnd ==
  ASSUME EndIsTold, reader = "reading", st.out = <<>>, Concludes(st, st'),
         UNCHANGED <<connected, client>>
  PROVE  EndIsTold'
<1>1. CASE st.finished
  BY <1>1 DEF EndIsTold, Concludes
<1>2. CASE ~st.finished
  BY <1>2 DEF EndIsTold, Concludes, Closing
<1>3. QED BY <1>1, <1>2

\* The client sees an event: if it was the last, it has seen the end.
LEMMA SendTellsEnd ==
  ASSUME EndIsTold, st.out \in Seq(Events), client \in Clients, connected, st.out # <<>>,
         client' = Sees(client, Head(st.out)), st'.out = Tail(st.out),
         st'.finished = st.finished, UNCHANGED <<connected, reader>>
  PROVE  EndIsTold'
<1> SUFFICES ASSUME reader # "broken", st.finished
             PROVE  IF st'.out = <<>> THEN client'.stage \in {"stopped", "failed"}
                    ELSE Closing(st'.out)
  BY DEF EndIsTold, Closing
<1>1. Closing(st.out)
  BY DEF EndIsTold
<1>2. CASE st'.out = <<>>
  <2>1. Len(st.out) = 1
    <3>1. Len(Tail(st.out)) = Len(st.out) - 1 /\ Len(st.out) \in Nat
      OBVIOUS
    <3>2. Tail(st.out) = <<>> /\ Len(<<>>) = 0
      BY <1>2
    <3>3. Len(Tail(st.out)) = 0
      BY <3>2
    <3>4. QED BY <3>1, <3>3
  <2>2. Head(st.out).type \in {"message_stop", "error"}
    BY <1>1, <2>1 DEF Closing
  <2>3. client'.stage \in {"stopped", "failed"}
    BY <2>2 DEF Sees, Clients
  <2>4. QED BY <1>2, <2>3
<1>3. CASE st'.out # <<>>
  <2>1. Len(Tail(st.out)) = Len(st.out) - 1 /\ Len(st.out) \in Nat /\ Len(st.out) > 1
    BY <1>3
  <2>2. Tail(st.out)[Len(Tail(st.out))] = st.out[Len(st.out)]
    BY <2>1
  <2>3. QED BY <1>1, <1>3, <2>2 DEF Closing
<1>4. QED BY <1>2, <1>3

\* The types of every backend, as far as the end needs them.
LEMMA AnyTypes ==
  ASSUME AnyInv
  PROVE  st.out \in Seq(Events) /\ client \in Clients /\ connected \in BOOLEAN
<1>1. CASE backend = "OpenAI"
  BY <1>1 DEF AnyInv, OpenAITypes, OpenAIType, OpenAIStates, TaskInv
<1>2. CASE backend = "OpenAIResponses"
  BY <1>2 DEF AnyInv, ResponsesTypes, ResponsesStates, TaskInv
<1>3. CASE backend = "GeminiNative"
  BY <1>3 DEF AnyInv, GeminiTold, GeminiStates, TaskInv
<1>4. QED BY <1>1, <1>2, <1>3, AnyKinds

\* A queue that is cut short: the translator has finished or not as before.
LEMMA OutKeepsFlags ==
  ASSUME AnyInv, NEW q, st' = [st EXCEPT !.out = q]
  PROVE  st'.out = q /\ st'.finished = st.finished /\ st'.started = st.started
<1>1. CASE backend = "OpenAI"
  BY <1>1 DEF AnyInv, OpenAITypes, OpenAIType, OpenAIStates
<1>2. CASE backend = "OpenAIResponses"
  BY <1>2 DEF AnyInv, ResponsesTypes, ResponsesStates
<1>3. CASE backend = "GeminiNative"
  BY <1>3 DEF AnyInv, GeminiTold, GeminiStates
<1>4. QED BY <1>1, <1>2, <1>3, AnyKinds

\* What the steps of all three tasks have in common.
Sends ==
  /\ connected /\ st.out # <<>> /\ st' = [st EXCEPT !.out = Tail(st.out)]
  /\ client' = Sees(client, Head(st.out)) /\ UNCHANGED <<sent, done, reader, connected>>

Breaks ==
  \/ /\ UNCHANGED <<sent, st, done, client>>
     /\ \/ UNCHANGED <<reader, connected>>
        \/ reader' = "broken"
        \/ UNCHANGED reader /\ ~connected'
  \/ /\ st' = [st EXCEPT !.out = <<>>] /\ UNCHANGED <<sent, done, client>>
     /\ \/ reader' = "broken"
        \/ ~connected' /\ reader' \in {reader, "disconnected"}

\* They keep what the end of a stream needs.
LEMMA TaskTellsEnd ==
  ASSUME EndInv, AnyInv', UNCHANGED backend, Sends \/ Breaks
  PROVE  EndInv'
<1>1. CASE Sends
  <2>1. st'.out = Tail(st.out) /\ st'.finished = st.finished /\ st'.started = st.started
    BY <1>1, OutKeepsFlags DEF Sends, EndInv
  <2>2. EndIsTold'
    BY <1>1, <2>1, AnyTypes, SendTellsEnd DEF Sends, EndInv
  <2>3. QED BY <1>1, <2>1, <2>2 DEF Sends, EndInv
<1>2. CASE Breaks
  <2>1. st'.finished = st.finished /\ st'.started = st.started
    BY <1>2, OutKeepsFlags DEF Breaks, EndInv
  <2>2. EndIsTold'
    BY <1>2, <2>1 DEF Breaks, EndInv, EndIsTold, Closing
  <2>3. QED BY <1>2, <2>1, <2>2 DEF Breaks, EndInv
<1>3. QED BY <1>1, <1>2

\* The stream starts with that: nothing has finished.
LEMMA EndStart == Init => EndInv
<1> SUFFICES ASSUME Init PROVE EndInv
  OBVIOUS
<1>1. AnyInv
  BY AnyStart
<1>2. ~st.finished /\ reader = "reading" /\ ~done
  <2>1. CASE backend = "OpenAI"
    BY <2>1 DEF Init, OpenAI!Init, OpenAI!TaskInit
  <2>2. CASE backend = "OpenAIResponses"
    BY <2>2 DEF Init, Responses!Init, Responses!TaskInit
  <2>3. CASE backend = "GeminiNative"
    BY <2>3 DEF Init, Gemini!Init, Gemini!TaskInit
  <2>4. QED BY <1>1, <2>1, <2>2, <2>3, AnyKinds
<1>3. QED BY <1>1, <1>2 DEF EndInv, EndIsTold

\* An OpenAI-compatible backend.
LEMMA OpenAIEndStep ==
  ASSUME EndInv, AnyInv', backend = "OpenAI", UNCHANGED backend,
         OpenAI!Next \/ UNCHANGED <<vars, backend>>
  PROVE  EndInv'
<1>1. OpenAITypes /\ OpenAIType(st)
  BY DEF EndInv, AnyInv, OpenAITypes
<1>2. CASE OpenAI!ReadChunk
  <2>1. PICK ch \in OpenAI!NextChunks : st' = OpenAI!process_chunk(st, ch)
    BY <1>2 DEF OpenAI!ReadChunk
  <2>2. /\ reader = "reading" /\ st.out = <<>> /\ ~done
        /\ UNCHANGED <<done, reader, connected, client>>
    BY <1>2 DEF OpenAI!ReadChunk, OpenAI!Reading
  <2>3. sent.calls \in Nat /\ Len(st.tools) <= sent.calls
    BY <1>1, BoundsAssumption DEF OpenAITypes
  <2>4. Concludes(st, st')
    BY <1>1, <2>1, <2>3, OpenAIChunkTyped
  <2>5. EndIsTold'
    BY <2>2, <2>4, ReadTellsEnd DEF EndInv
  <2>6. QED BY <2>2, <2>5 DEF EndInv
<1>3. CASE OpenAI!ReadDone \/ OpenAI!ReadEnd
  <2>1. /\ reader = "reading" /\ st.out = <<>>
        /\ UNCHANGED <<connected, client>> /\ reader' \in {"reading", "completed"}
    BY <1>3 DEF OpenAI!ReadDone, OpenAI!ReadEnd, OpenAI!Reading
  <2>2. Concludes(st, st') /\ st'.finished
    <3>1. st' = OpenAI!finish(st) \/ (done /\ st' = st)
      BY <1>3 DEF OpenAI!ReadDone, OpenAI!ReadEnd
    <3>2. done => st.finished
      BY DEF EndInv
    <3>3. QED BY <1>1, <3>1, <3>2, OpenAIEndsTyped DEF Concludes
  <2>3. EndIsTold'
    BY <2>1, <2>2, ReadTellsEnd DEF EndInv
  <2>4. QED BY <2>2, <2>3 DEF EndInv
<1>4. CASE OpenAI!Send
  <2>1. Sends
    BY <1>4, OpenAISharedSees DEF OpenAI!Send, Sends
  <2>2. QED BY <2>1, TaskTellsEnd
<1>5. CASE \/ OpenAI!ReadError \/ OpenAI!TimeOut \/ OpenAI!Leave \/ OpenAI!SendFails
           \/ UNCHANGED <<vars, backend>>
  <2>1. Breaks
    BY <1>5 DEF OpenAI!ReadError, OpenAI!TimeOut, OpenAI!Leave, OpenAI!SendFails,
                OpenAI!DropEvents, vars, Breaks
  <2>2. QED BY <2>1, TaskTellsEnd
<1>6. QED BY <1>2, <1>3, <1>4, <1>5 DEF OpenAI!Next

\* A Responses backend.
LEMMA ResponsesEndStep ==
  ASSUME EndInv, AnyInv', backend = "OpenAIResponses", UNCHANGED backend,
         Responses!Next \/ UNCHANGED <<vars, backend>>
  PROVE  EndInv'
<1>1. st \in ResponsesStates
  BY DEF EndInv, AnyInv, ResponsesTypes
<1>2. CASE Responses!ReadEvent
  <2>1. PICK e \in Responses!NextEvents : st' = Responses!process_event(st, e)
    BY <1>2 DEF Responses!ReadEvent
  <2>2. /\ reader = "reading" /\ st.out = <<>>
        /\ UNCHANGED <<done, reader, connected, client>>
    BY <1>2 DEF Responses!ReadEvent, Responses!Reading
  <2>3. e.type \in {"created", "item_added", "part_added", "text_delta", "part_done",
                    "item_done", "arguments_delta", "completed", "failed", "incomplete"}
    BY DEF Responses!NextEvents
  <2>4. Concludes(st, st')
    BY <1>1, <2>1, <2>3, ResponsesConcludes
  <2>5. EndIsTold'
    BY <2>2, <2>4, ReadTellsEnd DEF EndInv
  <2>6. QED BY <2>2, <2>5 DEF EndInv
<1>3. CASE Responses!ReadEnd
  <2>1. /\ reader = "reading" /\ st.out = <<>>
        /\ UNCHANGED <<connected, client>> /\ st' = Responses!finish(st)
    BY <1>3 DEF Responses!ReadEnd, Responses!Reading
  <2>2. Concludes(st, st') /\ st'.finished
    BY <1>1, <2>1, ResponsesEndTyped
  <2>3. EndIsTold'
    BY <2>1, <2>2, ReadTellsEnd DEF EndInv
  <2>4. QED BY <2>2, <2>3 DEF EndInv
<1>4. CASE Responses!Send
  <2>1. Sends
    BY <1>4, ResponsesShared DEF Responses!Send, Sends
  <2>2. QED BY <2>1, TaskTellsEnd
<1>5. CASE \/ Responses!ReadError \/ Responses!TimeOut \/ Responses!Leave
           \/ Responses!SendFails \/ UNCHANGED <<vars, backend>>
  <2>1. Breaks
    BY <1>5 DEF Responses!ReadError, Responses!TimeOut, Responses!Leave,
                Responses!SendFails, Responses!DropEvents, vars, Breaks
  <2>2. QED BY <2>1, TaskTellsEnd
<1>6. QED BY <1>2, <1>3, <1>4, <1>5 DEF Responses!Next

\* A Gemini backend.
LEMMA GeminiEndStep ==
  ASSUME EndInv, AnyInv', backend = "GeminiNative", UNCHANGED backend,
         Gemini!Next \/ UNCHANGED <<vars, backend>>
  PROVE  EndInv'
<1>1. sent \in GeminiSent /\ st \in GeminiStates /\ SameSaid(sent, st)
  BY DEF EndInv, AnyInv, GeminiTold
<1>2. CASE Gemini!ReadResponse
  <2>1. PICK e \in Gemini!NextResponses :
          st' = Gemini!process_response(st, e) /\ sent' = Gemini!SentAfter(e)
    BY <1>2 DEF Gemini!ReadResponse
  <2>2. /\ reader = "reading" /\ st.out = <<>>
        /\ UNCHANGED <<done, reader, connected, client>>
    BY <1>2 DEF Gemini!ReadResponse, Gemini!Reading
  <2>3. st.finished => sent.finish /\ st.started
    BY <2>2 DEF EndInv
  <2>4. Concludes(st, st') /\ (st'.finished => sent'.finish /\ st'.started)
    BY <1>1, <2>1, <2>3, GeminiConcludes
  <2>5. EndIsTold'
    BY <2>2, <2>4, ReadTellsEnd DEF EndInv
  <2>6. QED BY <2>2, <2>4, <2>5 DEF EndInv
<1>3. CASE Gemini!ReadEnd
  <2>1. /\ reader = "reading" /\ st.out = <<>> /\ reader' = "completed"
        /\ UNCHANGED <<connected, client>> /\ st' = Gemini!finish(st)
    BY <1>3 DEF Gemini!ReadEnd, Gemini!Reading
  <2>2. Concludes(st, st') /\ st'.finished
    BY <1>1, <2>1, GeminiClosed
  <2>3. EndIsTold'
    BY <2>1, <2>2, ReadTellsEnd DEF EndInv
  <2>4. QED BY <2>1, <2>2, <2>3 DEF EndInv
<1>4. CASE Gemini!Send
  <2>1. Sends
    BY <1>4, GeminiShared DEF Gemini!Send, Sends
  <2>2. QED BY <2>1, TaskTellsEnd
<1>5. CASE \/ Gemini!ReadError \/ Gemini!Leave \/ Gemini!SendEndFails
           \/ UNCHANGED <<vars, backend>>
  <2>1. Breaks
    BY <1>5 DEF Gemini!ReadError, Gemini!Leave, Gemini!SendEndFails,
                Gemini!DropEvents, vars, Breaks
  <2>2. QED BY <2>1, TaskTellsEnd
<1>6. QED BY <1>2, <1>3, <1>4, <1>5 DEF Gemini!Next

\* Whatever the backend.
LEMMA EndStep ==
  ASSUME EndInv, [Next]_<<vars, backend>>
  PROVE  EndInv'
<1>1. AnyInv /\ AnyInv' /\ backend' = backend
  BY AnyStep DEF EndInv, Next, OpenAINext, ResponsesNext, GeminiNext
<1>2. CASE backend = "OpenAI"
  BY <1>1, <1>2, OpenAIEndStep DEF Next, OpenAINext, ResponsesNext, GeminiNext
<1>3. CASE backend = "OpenAIResponses"
  BY <1>1, <1>3, ResponsesEndStep DEF Next, OpenAINext, ResponsesNext, GeminiNext
<1>4. CASE backend = "GeminiNative"
  BY <1>1, <1>4, GeminiEndStep DEF Next, OpenAINext, ResponsesNext, GeminiNext
<1>5. QED BY <1>1, <1>2, <1>3, <1>4, AnyKinds

\* The safety part of CompletedIsSeen, whatever the backend does: no stream is
\* recorded as completed whose client does not learn how it ended, by an event it
\* has seen or by the last of those it is still sent.
THEOREM CompletedIsTold == Spec => []CompletedTold
<1>1. EndInv /\ [Next]_<<vars, backend>> => EndInv'
  BY EndStep
<1>2. EndInv => CompletedTold
  BY DEF EndInv, EndIsTold, CompletedTold
<1>3. QED BY <1>1, <1>2, EndStart, PTL DEF Spec

\* And nothing comes between: what a task that has completed does while its
\* client listens is to send the events that are left, one by one.
THEOREM CompletedOnlySends ==
  Spec => [][reader = "completed" /\ connected =>
               \/ Send \/ UNCHANGED <<st, client, reader>>]_<<vars, backend>>
<1>1. ASSUME AnyInv, [Next]_<<vars, backend>>, reader = "completed", connected
      PROVE  Send \/ UNCHANGED <<st, client, reader>>
  <2>1. CASE OpenAI!Next \/ Responses!Next \/ Gemini!Next
    <3>1. CASE OpenAI!Send \/ Responses!Send \/ Gemini!Send
      BY <3>1, OpenAISharedSees, ResponsesShared, GeminiShared
      DEF OpenAI!Send, Responses!Send, Gemini!Send, Send
    <3>2. CASE OpenAI!Leave \/ Responses!Leave \/ Gemini!Leave
      BY <3>2 DEF OpenAI!Leave, Responses!Leave, Gemini!Leave
    <3>3. /\ ~OpenAI!ReadChunk /\ ~OpenAI!ReadDone /\ ~OpenAI!ReadEnd /\ ~OpenAI!ReadError
          /\ ~OpenAI!TimeOut /\ ~OpenAI!SendFails
      BY <1>1 DEF OpenAI!ReadChunk, OpenAI!ReadDone, OpenAI!ReadEnd, OpenAI!ReadError,
                  OpenAI!TimeOut, OpenAI!SendFails, OpenAI!DropEvents, OpenAI!Reading
    <3>4. /\ ~Responses!ReadEvent /\ ~Responses!ReadEnd /\ ~Responses!ReadError
          /\ ~Responses!TimeOut /\ ~Responses!SendFails
      BY <1>1 DEF Responses!ReadEvent, Responses!ReadEnd, Responses!ReadError,
                  Responses!TimeOut, Responses!SendFails, Responses!DropEvents,
                  Responses!Reading
    <3>5. /\ ~Gemini!ReadResponse /\ ~Gemini!ReadEnd /\ ~Gemini!ReadError
          /\ ~Gemini!SendEndFails
      BY <1>1 DEF Gemini!ReadResponse, Gemini!ReadEnd, Gemini!ReadError,
                  Gemini!SendEndFails, Gemini!DropEvents, Gemini!Reading
    <3>6. QED
      BY <2>1, <3>1, <3>2, <3>3, <3>4, <3>5 DEF OpenAI!Next, Responses!Next, Gemini!Next
  <2>2. CASE UNCHANGED <<vars, backend>>
    BY <2>2 DEF vars
  <2>3. QED
    BY <1>1, <2>1, <2>2 DEF Next, OpenAINext, ResponsesNext, GeminiNext
<1>2. AnyInv /\ [Next]_<<vars, backend>> => AnyInv'
  BY AnyStep
<1>3. QED BY <1>1, <1>2, AnyStart, PTL DEF Spec
=============================================================================
