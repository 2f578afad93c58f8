------------------------- MODULE PeerMessages_proofs -------------------------
(***************************************************************************)
(* The invariants of PeerMessages, proved for any number of agents,        *)
(* messages and calls and any mailbox cap, and its implementation of       *)
(* MailContract.  As the operators of the model are, the predicates and    *)
(* lemmas are about values x of the whole state: Good is the invariant,    *)
(* and Lawful what a step may do to one message.                           *)
(***************************************************************************)
EXTENDS PeerMessages, Queues_proofs, SequenceTheorems

Peers == [status : {"running", "idle", "parked", "gone"},
          session : {"live", "disposed", "none"}, turn : BOOLEAN,
          settling : {"no", "due", "blocked"}, adopted : BOOLEAN]
Letters == [st : {"unsent", "gate", "failing", "sent", "discarded"},
            from : Agents \cup {None}, to : Agents \cup {None}, call : Calls \cup {None},
            expects : BOOLEAN, receipt : {"none", "ok", "failed"}]
HubCalls == [op : {"none", "wait", "jobs", "send", "done"}, by : Agents \cup {None},
             from : Agents \cup {None}, wait : {"no", "parked", "raced", "over", "message"},
             got : Msgs \cup {None}]
World == [peer : [Agents -> Peers], msg : [Msgs -> Letters],
          mailbox : [Agents -> Seq(Msgs)], waiters : [Agents -> Seq(Calls)],
          records : [Agents -> Seq(Msgs)], steers : [Agents -> SUBSET Msgs],
          call : [Calls -> HubCalls], drafts : SUBSET Msgs, shown : [Msgs -> Nat]]

\* Only who is parked or gone has no session.
PeersKnown(x) ==
    \A a \in Agents : x.peer[a].session = "none" <=> x.peer[a].status \in {"parked", "gone"}

\* What the state of a send says of its message.
LettersKnown(x) ==
    \A m \in Msgs :
        /\ x.msg[m].st = "unsent" => x.msg[m] = Unwritten
        /\ x.msg[m].st # "unsent" => x.msg[m].from \in Agents /\ x.msg[m].to \in Agents
        /\ x.msg[m].st \in {"unsent", "gate", "failing"} =>
              x.msg[m].receipt = "none" /\ x.shown[m] = 0
        /\ x.msg[m].st \in {"sent", "discarded"} => x.msg[m].receipt # "none"
        /\ x.shown[m] > 0 => x.shown[m] = 1 /\ x.msg[m].st = "sent"
        /\ x.msg[m].st = "discarded" => x.msg[m].receipt = "ok"

\* What lies somewhere for agent a was sent to it and not shown yet.
Lies(x, m, a, r) == /\ x.msg[m].st = "sent" /\ x.msg[m].to = a
                    /\ x.msg[m].receipt = r /\ x.shown[m] = 0

\* The mailbox has what failed, the session what was delivered, and of that the steering
\* queue has what the main agent wrote.
PlacesKnown(x) ==
    \A a \in Agents :
        /\ \A m \in ToSet(x.mailbox[a]) : Lies(x, m, a, "failed")
        /\ \A m \in ToSet(x.records[a]) : Lies(x, m, a, "ok") /\ x.msg[m].from # Root
        /\ \A m \in x.steers[a] : Lies(x, m, a, "ok") /\ x.msg[m].from = Root
        /\ Len(x.mailbox[a]) <= MailboxCap

\* How the fields of a call go together; a send that waits is for a reply of one peer.
CallsKnown(x) ==
    \A c \in Calls :
        /\ x.call[c].by \in Agents <=> x.call[c].op \in {"wait", "jobs", "send"}
        /\ x.call[c].op \in {"none", "done"} => x.call[c].wait = "no"
        /\ x.call[c].wait = "raced" => x.call[c].op = "jobs"
        /\ x.call[c].op \in {"wait", "jobs"} => x.call[c].wait # "no"
        /\ x.call[c].op = "send" => (x.call[c].from = None <=> x.call[c].wait = "no")
        /\ x.call[c].got # None <=> x.call[c].wait = "message"

Holds(x, a, m) == m \in ToSet(x.mailbox[a]) \/ m \in ToSet(x.records[a]) \/ m \in x.steers[a]

\* What a call has in its hand lies nowhere else, and an awaited reply is from the peer
\* it was asked of.
GotKnown(x) ==
    \A c \in Calls : x.call[c].got # None =>
        /\ Lies(x, x.call[c].got, x.call[c].by, x.msg[x.call[c].got].receipt)
        /\ x.call[c].op = "send" => /\ x.msg[x.call[c].got].receipt = "ok"
                                    /\ x.msg[x.call[c].got].from = x.call[c].from
        /\ \A d \in Calls : x.call[d].got = x.call[c].got => d = c
        /\ \A a \in Agents : ~Holds(x, a, x.call[c].got)

\* WaitersWait, of a value.
WaitersKnown(x) ==
    /\ \A a \in Agents : /\ IsInjective(x.waiters[a])
                         /\ \A c \in ToSet(x.waiters[a]) : Parked(x, c) /\ x.call[c].by = a
    /\ \A c \in Calls : Parked(x, c) => c \in ToSet(x.waiters[x.call[c].by])

DraftsKnown(x) == \A m \in x.drafts : x.msg[m].st # "unsent"

Base(x) == /\ x \in World /\ PeersKnown(x) /\ LettersKnown(x) /\ PlacesKnown(x)
           /\ CallsKnown(x) /\ GotKnown(x) /\ WaitersKnown(x) /\ DraftsKnown(x)

\* A call that awaits a reply has written to the peer it is to come from.
Leg(x, c) == \E n \in Msgs : /\ x.msg[n].call = c /\ x.msg[n].from = x.call[c].by
                             /\ x.msg[n].to = x.call[c].from
SendsKnown(x) == \A c \in Calls : x.call[c].op = "send" /\ x.call[c].from # None => Leg(x, c)

\* NoHopelessWait, of a value.
Hopeful(x) == \A c \in Calls : x.call[c].op = "wait" /\ x.call[c].wait = "parked" =>
                                  Hope(x, x.call[c].by, x.call[c].from)

Good(x) == Base(x) /\ SendsKnown(x) /\ Hopeful(x)

IInv == Good(Now)

-----------------------------------------------------------------------------
\* What a step may do to a message.

Somewhere(x, m) == \/ \E a \in Agents : Holds(x, a, m)
                   \/ \E c \in Calls : x.call[c].got = m
OverIn(x, a) == a \in Agents /\ x.peer[a].session # "live"
SnubbedIn(x, m) == \E n \in Msgs : /\ x.msg[n].receipt = "failed"
                                   /\ x.msg[n].from = x.msg[m].to
                                   /\ x.msg[n].to = x.msg[m].from

\* A send goes on, or ends with a receipt that is true.
Sends(x, y, m) ==
    /\ x.msg[m].st \in {"unsent", "gate", "failing"}
    /\ x.msg[m].st # "unsent" => /\ y.msg[m].st # "unsent" /\ y.msg[m].from = x.msg[m].from
                                 /\ y.msg[m].to = x.msg[m].to
    /\ y.msg[m].st # "discarded"
    /\ y.msg[m].receipt = "ok" => y.shown[m] = 1 \/ Somewhere(y, m)
    /\ y.msg[m].receipt = "failed" => /\ y.shown[m] = 0
                                      /\ x.msg[m].st = "unsent" => ~Somewhere(y, m)
\* What was delivered leaves its place unseen only with its recipient.
Rests(x, y, m) ==
    /\ y.msg[m] = x.msg[m] /\ y.shown[m] = x.shown[m]
    /\ Somewhere(y, m) => Somewhere(x, m)
    /\ Somewhere(x, m) /\ ~Somewhere(y, m) /\ x.msg[m].receipt = "ok" => OverIn(y, x.msg[m].to)
Shows(x, y, m) == /\ y.msg[m] = x.msg[m] /\ Somewhere(x, m) /\ y.shown[m] = x.shown[m] + 1
Discards(x, y, m) == /\ y.msg[m] = [x.msg[m] EXCEPT !.st = "discarded"]
                     /\ y.shown[m] = x.shown[m] /\ Somewhere(x, m) /\ x.msg[m].receipt = "ok"
                     /\ SnubbedIn(x, m)
Lawful(x, y) == \A m \in Msgs : \/ Sends(x, y, m) \/ Rests(x, y, m)
                                \/ Shows(x, y, m) \/ Discards(x, y, m)

\* Nothing happens to any message.
Still(x, y) == /\ y.msg = x.msg /\ y.shown = x.shown /\ y.mailbox = x.mailbox
               /\ y.records = x.records /\ y.steers = x.steers
               /\ \A c \in Calls : y.call[c].got = x.call[c].got

Arrives == \E y : Becomes(y) /\ Good(y) /\ Lawful(Now, y)

-----------------------------------------------------------------------------
\* Queues.

\* A queue after a splice or a filter.
LEMMA Freed ==
    ASSUME NEW S, NEW q \in Seq(S), NEW D
    PROVE  /\ Without(q, D) \in Seq(S) /\ ToSet(Without(q, D)) = ToSet(q) \ D
           /\ IsInjective(q) => IsInjective(Without(q, D))
           /\ Len(Without(q, D)) <= Len(q)
BY Filtered DEF Without, Rid

\* #enqueue keeps the cap.
LEMMA Capping ==
    ASSUME NEW q \in Seq(Msgs), Len(q) <= MailboxCap + 1
    PROVE  /\ Capped(q) \in Seq(Msgs) /\ ToSet(Capped(q)) \subseteq ToSet(q)
           /\ Len(Capped(q)) <= MailboxCap
<1>1. MailboxCap \in Nat /\ MailboxCap > 0 /\ Len(q) \in Nat
  BY BoundsAssumption, LenProperties
<1>2. CASE Len(q) > MailboxCap
  <2> DEFINE r == SubSeq(q, 2, Len(q))
  <2>1. r \in Seq(Msgs) /\ Len(r) = Len(q) - 1 /\ \A i \in 1 .. Len(q) - 1 : r[i] = q[i + 1]
    BY <1>1, <1>2, SubSeqProperties, Z3T(30)
  <2>2. DOMAIN r = 1 .. Len(q) - 1 /\ DOMAIN q = 1 .. Len(q)
    BY <1>1, <2>1, LenProperties
  <2>3. Capped(q) = r
    BY <1>2 DEF Capped
  <2> HIDE DEF r
  <2>4. ToSet(r) \subseteq ToSet(q)
    <3>1. ASSUME NEW i \in 1 .. Len(q) - 1 PROVE r[i] \in ToSet(q)
      <4>1. r[i] = q[i + 1] /\ i + 1 \in 1 .. Len(q)
        BY <1>1, <2>1
      <4> QED
        BY <2>2, <4>1 DEF ToSet
    <3> QED
      BY <2>2, <3>1 DEF ToSet
  <2> QED
    BY <1>1, <2>1, <2>3, <2>4
<1>3. CASE ~(Len(q) > MailboxCap)
  BY <1>1, <1>3 DEF Capped
<1> QED
  BY <1>2, <1>3

\* The first of some positions of a queue.
LEMMA Earliest ==
    ASSUME NEW S, NEW q \in Seq(S), NEW keep \in SUBSET (DOMAIN q), keep # {}
    PROVE  Min(keep) \in keep
<1>1. Len(q) \in Nat /\ DOMAIN q = 1 .. Len(q)
  BY LenProperties
<1>2. \E k \in keep : \A l \in keep : k <= l
  BY <1>1, LeastPosition
<1> QED
  BY <1>2 DEF Min

\* What a call takes from a queue is in it, and from the peer it asked for.
LEMMA OldestIs ==
    ASSUME NEW q \in Seq(Msgs), NEW from, Matching(q, from) # {}
    PROVE  Oldest(q, from) \in ToSet(q) /\ Accepts(from, Oldest(q, from), Now)
<1>1. Matching(q, from) \in SUBSET (DOMAIN q)
  BY DEF Matching
<1>2. Min(Matching(q, from)) \in Matching(q, from)
  BY <1>1, Earliest
<1> QED
  BY <1>2 DEF Oldest, Matching, ToSet

-----------------------------------------------------------------------------
\* Waiters that leave, and waiters that come.

\* None is no name, message or call.
LEMMA Bounds == Msgs \subseteq Nat /\ Calls \subseteq Nat /\ None \notin Msgs /\ None \notin Calls
                /\ None \notin Agents /\ Root \in Agents
BY NamesAssumption DEF Msgs, Calls

\* The fields of a state.
LEMMA Fields ==
    ASSUME NEW x \in World
    PROVE  /\ x.peer \in [Agents -> Peers] /\ x.msg \in [Msgs -> Letters]
           /\ x.mailbox \in [Agents -> Seq(Msgs)] /\ x.waiters \in [Agents -> Seq(Calls)]
           /\ x.records \in [Agents -> Seq(Msgs)] /\ x.steers \in [Agents -> SUBSET Msgs]
           /\ x.call \in [Calls -> HubCalls] /\ x.drafts \in SUBSET Msgs
           /\ x.shown \in [Msgs -> Nat]
BY DEF World

\* Where nothing happens to a message, nothing is wrong with it.
LEMMA StillKeeps ==
    ASSUME NEW x, NEW y, Base(x), y \in World, Still(x, y)
    PROVE  /\ LettersKnown(y) /\ PlacesKnown(y) /\ Lawful(x, y)
           /\ y.drafts \subseteq x.drafts => DraftsKnown(y)
           /\ \A m \in Msgs : Somewhere(y, m) <=> Somewhere(x, m)
<1>1. LettersKnown(y) /\ PlacesKnown(y)
  BY DEF Base, Still, LettersKnown, PlacesKnown, Lies
<1>2. y.drafts \subseteq x.drafts => DraftsKnown(y)
  BY DEF Base, Still, DraftsKnown
<1>3. \A m \in Msgs : Somewhere(y, m) <=> Somewhere(x, m)
  BY DEF Still, Somewhere, Holds
<1>4. Lawful(x, y)
  <2> SUFFICES ASSUME NEW m \in Msgs PROVE Rests(x, y, m)
    BY DEF Lawful
  <2> QED
    BY <1>3 DEF Still, Rests
<1> QED
  BY <1>1, <1>2, <1>3, <1>4

\* Two steps of which one does nothing to the messages.
LEMMA StillThen ==
    ASSUME NEW x, NEW z, NEW y, Still(x, z), Lawful(z, y)
    PROVE  Lawful(x, y)
<1>1. \A m \in Msgs : Somewhere(x, m) <=> Somewhere(z, m)
  BY DEF Still, Somewhere, Holds
<1>2. \A m \in Msgs : SnubbedIn(x, m) <=> SnubbedIn(z, m)
  BY DEF Still, SnubbedIn
<1>3. x.msg = z.msg /\ x.shown = z.shown
  BY DEF Still
<1> QED
  BY <1>1, <1>2, <1>3 DEF Lawful, Sends, Rests, Shows, Discards

\* The second of which does nothing to the messages.
LEMMA ThenStill ==
    ASSUME NEW x, NEW z, NEW y, Lawful(x, z), Still(z, y),
           \A a \in Agents : OverIn(z, a) => OverIn(y, a)
    PROVE  Lawful(x, y)
<1>1. \A m \in Msgs : Somewhere(y, m) <=> Somewhere(z, m)
  BY DEF Still, Somewhere, Holds
<1>2. y.msg = z.msg /\ y.shown = z.shown
  BY DEF Still
<1>3. \A m \in Msgs : OverIn(z, x.msg[m].to) => OverIn(y, x.msg[m].to)
  BY DEF OverIn
<1> QED
  BY <1>1, <1>2, <1>3 DEF Lawful, Sends, Rests, Shows, Discards

\* Two steps that do nothing to the messages.
LEMMA StillStill == ASSUME NEW x, NEW z, NEW y, Still(x, z), Still(z, y) PROVE Still(x, y)
BY DEF Still

\* The calls cs stop waiting.
LEMMA GiveUpIs ==
    ASSUME NEW x \in World, NEW cs \in SUBSET Calls, NEW y, y = GiveUp(x, cs)
    PROVE  /\ y \in World /\ y.peer = x.peer /\ y.msg = x.msg /\ y.mailbox = x.mailbox
           /\ y.records = x.records /\ y.steers = x.steers /\ y.drafts = x.drafts
           /\ y.shown = x.shown
           /\ \A c \in Calls \ cs : y.call[c] = x.call[c]
           /\ \A c \in cs : /\ y.call[c].op = x.call[c].op /\ y.call[c].by = x.call[c].by
                            /\ y.call[c].from = x.call[c].from /\ y.call[c].got = x.call[c].got
                            /\ y.call[c].wait = "over"
           /\ \A a \in Agents : /\ ToSet(y.waiters[a]) = ToSet(x.waiters[a]) \ cs
                                /\ IsInjective(x.waiters[a]) => IsInjective(y.waiters[a])
<1> DEFINE calls == [c \in Calls |-> IF c \in cs THEN [x.call[c] EXCEPT !.wait = "over"]
                                                 ELSE x.call[c]]
           lists == [a \in Agents |-> Without(x.waiters[a], cs)]
<1>1. \A k \in HubCalls : [k EXCEPT !.wait = "over"] \in HubCalls
  BY DEF HubCalls
<1>9. calls \in [Calls -> HubCalls]
  <2> SUFFICES ASSUME NEW c \in Calls PROVE calls[c] \in HubCalls
    OBVIOUS
  <2> QED
    BY <1>1, Fields
<1>2. \A c \in cs : /\ calls[c].op = x.call[c].op /\ calls[c].by = x.call[c].by /\ calls[c].from = x.call[c].from
                    /\ calls[c].got = x.call[c].got /\ calls[c].wait = "over"
  <2> TAKE c \in cs
  <2>1. x.call[c] \in HubCalls /\ calls[c] = [x.call[c] EXCEPT !.wait = "over"]
    BY Fields
  <2> HIDE DEF calls
  <2> QED
    BY <2>1 DEF HubCalls
<1>3. \A c \in Calls \ cs : calls[c] = x.call[c]
  OBVIOUS
<1>4. \A a \in Agents : /\ lists[a] \in Seq(Calls) /\ ToSet(lists[a]) = ToSet(x.waiters[a]) \ cs
                        /\ IsInjective(x.waiters[a]) => IsInjective(lists[a])
  BY Fields, Freed
<1>5. lists \in [Agents -> Seq(Calls)]
  BY <1>4
<1>6. y = [x EXCEPT !.call = calls, !.waiters = lists]
  <2>1. GiveUp(x, cs) = [x EXCEPT !.call = calls, !.waiters = lists]
    BY DEF GiveUp
  <2> QED
    BY <2>1
<1> HIDE DEF calls, lists
<1>7. y \in World /\ y.call = calls /\ y.waiters = lists
  BY <1>9, <1>5, <1>6 DEF World
<1>8. /\ y.peer = x.peer /\ y.msg = x.msg /\ y.mailbox = x.mailbox /\ y.records = x.records
      /\ y.steers = x.steers /\ y.drafts = x.drafts /\ y.shown = x.shown
  BY <1>6 DEF World
<1> QED
  BY <1>2, <1>3, <1>4, <1>7, <1>8

\* Those who still wait may leave.
LEMMA GaveUp ==
    ASSUME NEW x, Base(x), NEW cs \in SUBSET {c \in Calls : Parked(x, c)}, NEW y, y = GiveUp(x, cs)
    PROVE  /\ Base(y) /\ Still(x, y) /\ y.peer = x.peer /\ y.drafts = x.drafts
           /\ SendsKnown(x) => SendsKnown(y)
           /\ Hopeful(x) => Hopeful(y)
           /\ \A c \in Calls : Leg(x, c) => Leg(y, c)
<1>0. x \in World /\ cs \in SUBSET Calls
  BY DEF Base
<1>1. /\ y \in World /\ y.peer = x.peer /\ y.msg = x.msg /\ y.mailbox = x.mailbox
      /\ y.records = x.records /\ y.steers = x.steers /\ y.drafts = x.drafts
      /\ y.shown = x.shown
  BY <1>0, GiveUpIs
<1>2. \A c \in Calls : /\ y.call[c].op = x.call[c].op /\ y.call[c].by = x.call[c].by
                       /\ y.call[c].from = x.call[c].from /\ y.call[c].got = x.call[c].got
                       /\ c \in cs => y.call[c].wait = "over"
                       /\ c \notin cs => y.call[c].wait = x.call[c].wait
  <2>1. \A c \in cs : /\ y.call[c].op = x.call[c].op /\ y.call[c].by = x.call[c].by
                     /\ y.call[c].from = x.call[c].from /\ y.call[c].got = x.call[c].got
                     /\ y.call[c].wait = "over"
    BY <1>0, GiveUpIs
  <2>2. \A c \in Calls \ cs : y.call[c] = x.call[c]
    BY <1>0, GiveUpIs
  <2> QED
    BY <2>1, <2>2
<1>3. \A a \in Agents : /\ ToSet(y.waiters[a]) = ToSet(x.waiters[a]) \ cs
                        /\ IsInjective(x.waiters[a]) => IsInjective(y.waiters[a])
  BY <1>0, GiveUpIs
<1>4. \A c \in cs : c \in Calls /\ x.call[c].wait \in {"parked", "raced"}
  BY DEF Parked
<1>5. Still(x, y)
  BY <1>1, <1>2 DEF Still
<1>6. PeersKnown(y)
  BY <1>1 DEF Base, PeersKnown
<1>7. CallsKnown(y)
  BY <1>2, <1>4 DEF Base, CallsKnown
<1>8. GotKnown(y)
  BY <1>1, <1>2 DEF Base, GotKnown, Lies, Holds
<1>9. WaitersKnown(y)
  <2>1. \A c \in Calls : Parked(y, c) <=> Parked(x, c) /\ c \notin cs
    BY <1>2 DEF Parked
  <2>2. \A c \in Calls : Parked(x, c) => x.call[c].by \in Agents
    BY <1>0, Fields DEF Base, CallsKnown, Parked, HubCalls
  <2>3. \A a \in Agents : ToSet(x.waiters[a]) \subseteq Calls
    BY <1>0, Fields, SetOf
  <2> QED
    BY <1>2, <1>3, <2>1, <2>2, <2>3 DEF Base, WaitersKnown
<1>10. Base(y)
  BY <1>1, <1>5, <1>6, <1>7, <1>8, <1>9, StillKeeps DEF Base
<1>11. \A c \in Calls : Leg(x, c) => Leg(y, c)
  BY <1>1, <1>2 DEF Leg
<1>12. SendsKnown(x) => SendsKnown(y)
  BY <1>2, <1>11 DEF SendsKnown
<1>13. \A a, from : Hope(x, a, from) => Hope(y, a, from)
  BY <1>1 DEF Hope, RunningPeers
<1>14. Hopeful(x) => Hopeful(y)
  BY <1>2, <1>13 DEF Hopeful
<1> QED
  BY <1>1, <1>5, <1>10, <1>11, <1>12, <1>14

\* After the registry has been heard, nobody waits without hope.
LEMMA Noticed ==
    ASSUME NEW x, Base(x), NEW y, y = Notice(x)
    PROVE  /\ Base(y) /\ Still(x, y) /\ y.peer = x.peer /\ y.drafts = x.drafts /\ Hopeful(y)
           /\ SendsKnown(x) => SendsKnown(y)
           /\ \A c \in Calls : /\ Leg(x, c) => Leg(y, c)
                               /\ y.call[c].op = x.call[c].op /\ y.call[c].from = x.call[c].from
                               /\ y.call[c].by = x.call[c].by
<1> DEFINE cs == {c \in Calls : /\ x.call[c].op = "wait" /\ Parked(x, c)
                                /\ ~Hope(x, x.call[c].by, x.call[c].from)}
<1>1. y = GiveUp(x, cs)
  BY DEF Notice
<1>2. cs \in SUBSET {c \in Calls : Parked(x, c)} /\ cs \in SUBSET Calls /\ x \in World
  BY DEF Base
<1>3. \A c \in Calls : x.call[c].op = "wait" /\ Parked(x, c) /\ c \notin cs =>
                           Hope(x, x.call[c].by, x.call[c].from)
  OBVIOUS
<1> HIDE DEF cs
<1>4. /\ Base(y) /\ Still(x, y) /\ y.peer = x.peer /\ y.drafts = x.drafts
      /\ SendsKnown(x) => SendsKnown(y)
      /\ \A c \in Calls : Leg(x, c) => Leg(y, c)
  BY <1>1, <1>2, GaveUp
<1>5. \A c \in Calls : /\ y.call[c].op = x.call[c].op /\ y.call[c].by = x.call[c].by
                       /\ y.call[c].from = x.call[c].from
                       /\ c \notin cs => y.call[c].wait = x.call[c].wait
                       /\ c \in cs => y.call[c].wait = "over"
  <2>1. \A c \in cs : /\ y.call[c].op = x.call[c].op /\ y.call[c].by = x.call[c].by
                     /\ y.call[c].from = x.call[c].from /\ y.call[c].wait = "over"
    BY <1>1, <1>2, GiveUpIs
  <2>2. \A c \in Calls \ cs : y.call[c] = x.call[c]
    BY <1>1, <1>2, GiveUpIs
  <2> QED
    BY <2>1, <2>2
<1>6. \A a, from : Hope(x, a, from) => Hope(y, a, from)
  BY <1>4 DEF Hope, RunningPeers
<1>7. Hopeful(y)
  BY <1>3, <1>5, <1>6 DEF Hopeful, Parked
<1> QED
  BY <1>4, <1>5, <1>7

\* A row the registry may have; one that is still listed as running if it was.
WithRow(x, a, p) == [x EXCEPT !.peer[a] = p]
RowKnown(p) == p.session = "none" <=> p.status \in {"parked", "gone"}
Stays(x, a, p) == x.peer[a].status = "running" => p.status = "running"

\* A row of the registry changes.
LEMMA RowChanges ==
    ASSUME NEW x, Base(x), NEW a \in Agents, NEW p \in Peers, RowKnown(p),
           NEW y, y = WithRow(x, a, p)
    PROVE  /\ Base(y) /\ Still(x, y) /\ y.peer[a] = p /\ y.drafts = x.drafts
           /\ \A b \in Agents \ {a} : y.peer[b] = x.peer[b]
           /\ SendsKnown(x) => SendsKnown(y)
           /\ Hopeful(x) /\ Stays(x, a, p) => Hopeful(y)
           /\ y.call = x.call /\ y.waiters = x.waiters
           /\ \A c \in Calls : Leg(x, c) => Leg(y, c)
<1>0. x \in World /\ x.peer \in [Agents -> Peers]
  BY Fields DEF Base
<1>1. /\ y.msg = x.msg /\ y.mailbox = x.mailbox /\ y.waiters = x.waiters /\ y.call = x.call
      /\ y.records = x.records /\ y.steers = x.steers /\ y.drafts = x.drafts
      /\ y.shown = x.shown /\ y.peer = [x.peer EXCEPT ![a] = p] /\ y \in World
  BY <1>0 DEF World, WithRow
<1>2. y.peer[a] = p /\ \A b \in Agents \ {a} : y.peer[b] = x.peer[b]
  BY <1>0, <1>1
<1>3. Still(x, y)
  BY <1>1 DEF Still
<1>4. PeersKnown(y)
  BY <1>2 DEF RowKnown, Base, PeersKnown
<1>5. CallsKnown(y)
  BY <1>1 DEF Base, CallsKnown
<1>6. GotKnown(y)
  BY <1>1 DEF Base, GotKnown, Lies, Holds
<1>7. WaitersKnown(y)
  BY <1>1 DEF Base, WaitersKnown, Parked
<1>8. Base(y)
  BY <1>1, <1>3, <1>4, <1>5, <1>6, <1>7, StillKeeps DEF Base
<1>9. SendsKnown(x) => SendsKnown(y)
  BY <1>1 DEF SendsKnown, Leg
<1>11. Hopeful(x) /\ Stays(x, a, p) => Hopeful(y)
  BY <1>1, <1>2 DEF Stays, Hopeful, Hope, RunningPeers
<1>12. \A c \in Calls : Leg(x, c) => Leg(y, c)
  BY <1>1 DEF Leg
<1> QED
  BY <1>1, <1>2, <1>3, <1>8, <1>9, <1>11, <1>12

\* A waiter is parked.
LEMMA ParkKeeps ==
    ASSUME NEW x, Base(x), NEW c \in Calls, x.call[c].op = "none", NEW a \in Agents,
           NEW from \in Agents \cup {None}, NEW op \in {"wait", "jobs", "send"},
           op = "send" => from # None, NEW y, y = Park(x, c, op, a, from)
    PROVE  /\ Base(y) /\ Still(x, y) /\ Hopeful(y) /\ y.peer = x.peer /\ y.drafts = x.drafts
           /\ y.call[c].op = op /\ y.call[c].by = a /\ y.call[c].from = from
           /\ \A d \in Calls \ {c} : y.call[d].op = x.call[d].op /\ y.call[d].from = x.call[d].from
                                     /\ (Leg(x, d) => Leg(y, d))
<1> DEFINE k == [op |-> op, by |-> a, from |-> from, wait |-> "parked", got |-> None]
           z == [x EXCEPT !.call[c] = k, !.waiters[a] = Append(x.waiters[a], c)]
<1>0. /\ x \in World /\ x.call \in [Calls -> HubCalls] /\ x.waiters \in [Agents -> Seq(Calls)]
  BY Fields DEF Base
<1>1. k \in HubCalls /\ Append(x.waiters[a], c) \in Seq(Calls)
  BY <1>0, Pushed DEF HubCalls
<1>2. y = Notice(z)
  BY DEF Park
<1>3. k.op = op /\ k.by = a /\ k.from = from /\ k.wait = "parked" /\ k.got = None
  OBVIOUS
<1> HIDE DEF k
<1>4. /\ z.msg = x.msg /\ z.mailbox = x.mailbox /\ z.peer = x.peer
      /\ z.records = x.records /\ z.steers = x.steers /\ z.drafts = x.drafts
      /\ z.shown = x.shown /\ z.call = [x.call EXCEPT ![c] = k] /\ z \in World
      /\ z.waiters = [x.waiters EXCEPT ![a] = Append(x.waiters[a], c)]
  BY <1>0, <1>1 DEF World
<1> HIDE DEF z
<1>5. z.call[c] = k /\ \A d \in Calls \ {c} : z.call[d] = x.call[d]
  BY <1>0, <1>4
<1>6. x.call[c].by \notin Agents /\ x.call[c].got = None /\ ~Parked(x, c)
  BY DEF Base, CallsKnown, Parked
<1>7. \A b \in Agents : c \notin ToSet(x.waiters[b])
  BY <1>6 DEF Base, WaitersKnown
<1>8. /\ ToSet(z.waiters[a]) = ToSet(x.waiters[a]) \cup {c} /\ IsInjective(z.waiters[a])
      /\ \A b \in Agents \ {a} : z.waiters[b] = x.waiters[b]
  <2>1. IsInjective(x.waiters[a])
    BY DEF Base, WaitersKnown
  <2>2. z.waiters[a] = Append(x.waiters[a], c) /\ \A b \in Agents \ {a} : z.waiters[b] = x.waiters[b]
    BY <1>0, <1>4
  <2> QED
    BY <1>0, <1>7, <2>1, <2>2, Pushed
<1>9. Still(x, z)
  BY <1>3, <1>4, <1>5, <1>6 DEF Still
<1>10. PeersKnown(z)
  BY <1>4 DEF Base, PeersKnown
<1>11. CallsKnown(z)
  BY <1>3, <1>5, Bounds DEF Base, CallsKnown
<1>12. GotKnown(z)
  BY <1>3, <1>4, <1>5, <1>6 DEF Base, GotKnown, Lies, Holds
<1>13. WaitersKnown(z)
  <2>1. \A d \in Calls : Parked(z, d) <=> Parked(x, d) \/ d = c
    BY <1>3, <1>5 DEF Parked
  <2>2. \A d \in Calls : Parked(x, d) => x.call[d].by \in Agents
    BY <1>0, Fields DEF Base, CallsKnown, Parked, HubCalls
  <2>3. \A b \in Agents : ToSet(x.waiters[b]) \subseteq Calls
    BY <1>0, Fields, SetOf
  <2>4. \A b \in Agents : IsInjective(z.waiters[b])
    BY <1>8 DEF Base, WaitersKnown
  <2>5. \A b \in Agents : \A d \in ToSet(z.waiters[b]) : Parked(z, d) /\ z.call[d].by = b
    BY <1>3, <1>5, <1>7, <1>8, <2>1, <2>3 DEF Base, WaitersKnown
  <2>6. \A d \in Calls : Parked(z, d) => d \in ToSet(z.waiters[z.call[d].by])
    BY <1>3, <1>5, <1>6, <1>8, <2>1, <2>2 DEF Base, WaitersKnown
  <2> QED
    BY <2>4, <2>5, <2>6 DEF WaitersKnown
<1>14. Base(z)
  BY <1>4, <1>9, <1>10, <1>11, <1>12, <1>13, StillKeeps DEF Base
<1>15. /\ Base(y) /\ Still(z, y) /\ Hopeful(y) /\ y.peer = z.peer /\ y.drafts = z.drafts
       /\ \A d \in Calls : /\ y.call[d].op = z.call[d].op /\ y.call[d].from = z.call[d].from
                           /\ y.call[d].by = z.call[d].by /\ (Leg(z, d) => Leg(y, d))
  BY <1>2, <1>14, Noticed
<1>16. \A d \in Calls \ {c} : Leg(x, d) => Leg(z, d)
  BY <1>4, <1>5 DEF Leg
<1>17. Still(x, y)
  BY <1>9, <1>15, StillStill
<1> QED
  BY <1>3, <1>4, <1>5, <1>15, <1>16, <1>17

-----------------------------------------------------------------------------
\* Sends.

\* Nothing that is agent b's has changed but its row.
Alone(x, y, b) == /\ y.waiters[b] = x.waiters[b] /\ y.records[b] = x.records[b]
                  /\ y.steers[b] = x.steers[b]
                  /\ \A d \in Calls : x.call[d].by = b => y.call[d] = x.call[d]

\* Call c takes message m.
Takes(x, y, m, c) ==
    /\ Parked(x, c) /\ x.call[c].by = y.msg[m].to
    /\ x.call[c].from \in {None, y.msg[m].from}
    /\ y.call[c].wait = "message" /\ y.call[c].got = m
    /\ y.call[c].op = x.call[c].op /\ y.call[c].by = x.call[c].by /\ y.call[c].from = x.call[c].from

Receipt(x, y, m, r, n) == /\ y.msg[m].st = "sent" /\ y.msg[m].receipt = r
                          /\ y.shown[m] = x.shown[m] + n

\* The ways a send may go on: it waits or fails; is shown at once; is queued as steering
\* or as a record; ends a wait.
Unheard(x, y, m, b) ==
    Alone(x, y, b) /\ \/ /\ y.msg[m].st \in {"gate", "failing"} /\ y.msg[m].receipt = "none"
                         /\ y.shown[m] = x.shown[m]
                      \/ Receipt(x, y, m, "failed", 0)
Told(x, y, m, b) == Alone(x, y, b) /\ Receipt(x, y, m, "ok", 1)
Steered(x, y, m, b) ==
    /\ Receipt(x, y, m, "ok", 0) /\ y.msg[m].from = Root
    /\ y.waiters[b] = x.waiters[b] /\ y.records[b] = x.records[b]
    /\ y.steers[b] = x.steers[b] \cup {m}
    /\ \A d \in Calls : x.call[d].by = b => y.call[d] = x.call[d]
Recorded(x, y, m, b) ==
    /\ Receipt(x, y, m, "ok", 0) /\ y.msg[m].from # Root
    /\ y.waiters[b] = x.waiters[b] /\ y.steers[b] = x.steers[b]
    /\ y.records[b] = Append(x.records[b], m)
    /\ \A d \in Calls : x.call[d].by = b => y.call[d] = x.call[d]
Taken(x, y, m, b) ==
    /\ Receipt(x, y, m, "ok", 0) /\ y.records[b] = x.records[b] /\ y.steers[b] = x.steers[b]
    /\ \E c \in Calls :
          /\ Takes(x, y, m, c) /\ y.waiters[b] = Without(x.waiters[b], {c})
          /\ \A d \in Calls \ {c} : x.call[d].by = b => y.call[d] = x.call[d]

\* A message is addressed once.
Routed(x, y, m) ==
    /\ x.msg[m].st \in {"unsent", "gate"}
    /\ y.msg[m].from \in Agents /\ y.msg[m].to \in Agents
    /\ x.msg[m].st = "gate" => /\ y.msg[m].from = x.msg[m].from /\ y.msg[m].to = x.msg[m].to
                               /\ y.msg[m].call = x.msg[m].call
\* The recipient may be woken.
Woken(x, y, b) == /\ y.peer[b].session = x.peer[b].session
                  /\ \/ y.peer[b].status = x.peer[b].status
                     \/ x.peer[b].session = "live" /\ y.peer[b].status = "running"

Outcome(x, y, m) ==
    LET b == y.msg[m].to IN
    /\ Routed(x, y, m) /\ Woken(x, y, b)
    /\ \/ Unheard(x, y, m, b) \/ Told(x, y, m, b) \/ Steered(x, y, m, b)
       \/ Recorded(x, y, m, b) \/ Taken(x, y, m, b)

\* The sends of ms, to different agents, lead from x to y.
Delivers(x, y, ms) ==
    /\ y \in World /\ ms \subseteq Msgs /\ y.mailbox = x.mailbox
    /\ y.drafts \subseteq x.drafts \cup ms
    /\ \A n \in Msgs \ ms : y.msg[n] = x.msg[n] /\ y.shown[n] = x.shown[n]
    /\ \A m \in ms : Outcome(x, y, m)
    /\ \A m, n \in ms : y.msg[m].to = y.msg[n].to => m = n
    /\ \A a \in Agents : (\A m \in ms : y.msg[m].to # a) => y.peer[a] = x.peer[a] /\ Alone(x, y, a)
    /\ \A d \in Calls : x.call[d].by \notin Agents => y.call[d] = x.call[d]

\* What a message has become says what its send did.
LEMMA Outcomes ==
    ASSUME NEW x, NEW y, NEW ms, Base(x), Delivers(x, y, ms)
    PROVE  /\ \A d \in Calls : y.call[d] = x.call[d] \/ \E m \in ms : Takes(x, y, m, d)
           /\ \A a \in Agents : \/ ToSet(y.records[a]) = ToSet(x.records[a])
                                \/ \E m \in ms : /\ ToSet(y.records[a]) = ToSet(x.records[a]) \cup {m}
                                                 /\ Recorded(x, y, m, a) /\ y.msg[m].to = a
           /\ \A a \in Agents : \/ y.steers[a] = x.steers[a]
                                \/ \E m \in ms : Steered(x, y, m, a) /\ y.msg[m].to = a
           /\ \A a \in Agents : \/ y.waiters[a] = x.waiters[a]
                                   /\ \A d \in Calls : x.call[d].by = a => y.call[d] = x.call[d]
                                \/ \E m \in ms : Taken(x, y, m, a) /\ y.msg[m].to = a
<1>1. ASSUME NEW a \in Agents
      PROVE  Alone(x, y, a) \/ \E m \in ms : /\ y.msg[m].to = a
                                             /\ \/ Steered(x, y, m, a) \/ Recorded(x, y, m, a)
                                                \/ Taken(x, y, m, a)
  <2>1. CASE \A m \in ms : y.msg[m].to # a
    BY <2>1 DEF Delivers
  <2>2. CASE \E m \in ms : y.msg[m].to = a
    <3>1. PICK m \in ms : y.msg[m].to = a
      BY <2>2
    <3>2. Outcome(x, y, m)
      BY DEF Delivers
    <3> QED
      BY <3>1, <3>2 DEF Outcome, Unheard, Told
  <2> QED
    BY <2>1, <2>2
<1>2. ASSUME NEW d \in Calls PROVE y.call[d] = x.call[d] \/ \E m \in ms : Takes(x, y, m, d)
  <2>1. CASE x.call[d].by \notin Agents
    BY <2>1 DEF Delivers
  <2>2. CASE x.call[d].by \in Agents
    <3>1. PICK a \in Agents : a = x.call[d].by
      BY <2>2
    <3>2. CASE Alone(x, y, a)
      BY <3>1, <3>2 DEF Alone
    <3>3. CASE \E m \in ms : Steered(x, y, m, a) \/ Recorded(x, y, m, a)
      BY <3>1, <3>3 DEF Steered, Recorded
    <3>4. CASE \E m \in ms : Taken(x, y, m, a)
      <4>1. PICK m \in ms, c \in Calls :
               /\ Takes(x, y, m, c)
               /\ \A e \in Calls \ {c} : x.call[e].by = a => y.call[e] = x.call[e]
        BY <3>4 DEF Taken
      <4> QED
        BY <3>1, <4>1
    <3> QED
      BY <1>1, <3>2, <3>3, <3>4
  <2> QED
    BY <2>1, <2>2
<1>3. ASSUME NEW a \in Agents
      PROVE  \/ ToSet(y.records[a]) = ToSet(x.records[a])
             \/ \E m \in ms : /\ ToSet(y.records[a]) = ToSet(x.records[a]) \cup {m}
                              /\ Recorded(x, y, m, a) /\ y.msg[m].to = a
  <2>1. \A m \in ms : ToSet(Append(x.records[a], m)) = ToSet(x.records[a]) \cup {m}
    BY Fields, Pushed DEF Base, Delivers
  <2> QED
    BY <1>1, <2>1, ZenonT(60) DEF Alone, Steered, Recorded, Taken
<1>4. ASSUME NEW a \in Agents
      PROVE  y.steers[a] = x.steers[a] \/ \E m \in ms : Steered(x, y, m, a) /\ y.msg[m].to = a
  BY <1>1 DEF Alone, Recorded, Taken
<1>5. ASSUME NEW a \in Agents
      PROVE  \/ y.waiters[a] = x.waiters[a]
                /\ \A d \in Calls : x.call[d].by = a => y.call[d] = x.call[d]
             \/ \E m \in ms : Taken(x, y, m, a) /\ y.msg[m].to = a
  BY <1>1 DEF Alone, Steered, Recorded
<1> QED
  BY <1>2, <1>3, <1>4, <1>5

\* A message on its way is nowhere.
LEMMA Nowhere ==
    ASSUME NEW x, Base(x), NEW m \in Msgs, x.msg[m].st # "sent"
    PROVE  ~Somewhere(x, m)
BY Bounds DEF Base, Somewhere, Holds, PlacesKnown, GotKnown, Lies

\* Sends with lawful outcomes keep the invariant.
LEMMA DeliveriesKeep ==
    ASSUME NEW x, NEW y, NEW ms, Base(x), Delivers(x, y, ms)
    PROVE  /\ Base(y) /\ Lawful(x, y) /\ (Hopeful(x) => Hopeful(y))
           /\ \A c \in Calls : y.call[c].op = x.call[c].op /\ y.call[c].from = x.call[c].from
                               /\ y.call[c].by = x.call[c].by
                               /\ (Leg(x, c) /\ x.call[c].by \in Agents => Leg(y, c))
<1>0. /\ x \in World /\ y \in World /\ ms \subseteq Msgs /\ y.mailbox = x.mailbox
      /\ y.drafts \subseteq x.drafts \cup ms
      /\ \A n \in Msgs \ ms : y.msg[n] = x.msg[n] /\ y.shown[n] = x.shown[n]
      /\ \A m, n \in ms : y.msg[m].to = y.msg[n].to => m = n
  BY DEF Base, Delivers
<1>1. \A m \in ms : /\ Routed(x, y, m) /\ Woken(x, y, y.msg[m].to) /\ y.msg[m].to \in Agents
                    /\ x.shown[m] = 0 /\ ~Somewhere(x, m) /\ x.msg[m].st # "sent"
  <2> TAKE m \in ms
  <2>1. Routed(x, y, m) /\ Woken(x, y, y.msg[m].to)
    BY DEF Delivers, Outcome
  <2>2. x.msg[m].st # "sent" /\ x.shown[m] = 0 /\ y.msg[m].to \in Agents
    BY <1>0, <2>1 DEF Routed, Base, LettersKnown
  <2> QED
    BY <1>0, <2>1, <2>2, Nowhere
<1>2. \A d \in Calls : y.call[d] = x.call[d] \/ \E m \in ms : Takes(x, y, m, d)
  BY Outcomes
<1>3. \A a \in Agents : \/ ToSet(y.records[a]) = ToSet(x.records[a])
                        \/ \E m \in ms : /\ ToSet(y.records[a]) = ToSet(x.records[a]) \cup {m}
                                         /\ Recorded(x, y, m, a) /\ y.msg[m].to = a
  BY Outcomes
<1>4. \A a \in Agents : \/ y.steers[a] = x.steers[a]
                        \/ \E m \in ms : Steered(x, y, m, a) /\ y.msg[m].to = a
  BY Outcomes
<1>5. \A a \in Agents : \/ /\ y.waiters[a] = x.waiters[a]
                           /\ \A d \in Calls : x.call[d].by = a => y.call[d] = x.call[d]
                        \/ \E m \in ms : Taken(x, y, m, a) /\ y.msg[m].to = a
  BY Outcomes
<1>6. \A d \in Calls : y.call[d].op = x.call[d].op /\ y.call[d].by = x.call[d].by
                       /\ y.call[d].from = x.call[d].from
  BY <1>2 DEF Takes
\* What has come to lie somewhere is one of ms, and was delivered.
<1>7. \A m \in ms : \/ Receipt(x, y, m, "failed", 0) \/ Receipt(x, y, m, "ok", 0)
                    \/ Receipt(x, y, m, "ok", 1)
                    \/ /\ y.msg[m].st \in {"gate", "failing"} /\ y.msg[m].receipt = "none"
                       /\ y.shown[m] = x.shown[m]
  BY DEF Delivers, Outcome, Unheard, Told, Steered, Recorded, Taken
<1>8. PeersKnown(y)
  <2> SUFFICES ASSUME NEW a \in Agents
               PROVE  y.peer[a].session = "none" <=> y.peer[a].status \in {"parked", "gone"}
    BY DEF PeersKnown
  <2>1. x.peer[a].session = "none" <=> x.peer[a].status \in {"parked", "gone"}
    BY DEF Base, PeersKnown
  <2>2. y.peer[a] = x.peer[a] \/ Woken(x, y, a)
    BY <1>1 DEF Delivers
  <2> QED
    BY <2>1, <2>2 DEF Woken
<1>9. LettersKnown(y)
  <2> SUFFICES ASSUME NEW m \in Msgs
               PROVE  /\ y.msg[m].st = "unsent" => y.msg[m] = Unwritten
                      /\ y.msg[m].st # "unsent" => y.msg[m].from \in Agents /\ y.msg[m].to \in Agents
                      /\ y.msg[m].st \in {"unsent", "gate", "failing"} =>
                            y.msg[m].receipt = "none" /\ y.shown[m] = 0
                      /\ y.msg[m].st \in {"sent", "discarded"} => y.msg[m].receipt # "none"
                      /\ y.shown[m] > 0 => y.shown[m] = 1 /\ y.msg[m].st = "sent"
                      /\ y.msg[m].st = "discarded" => y.msg[m].receipt = "ok"
    BY DEF LettersKnown
  <2>1. CASE m \in ms
    <3>1. y.msg[m].from \in Agents /\ y.msg[m].to \in Agents /\ x.shown[m] = 0
      BY <1>1, <2>1 DEF Routed
    <3> QED
      BY <1>7, <2>1, <3>1 DEF Receipt
  <2>2. CASE m \notin ms
    BY <1>0, <2>2 DEF Base, LettersKnown
  <2> QED
    BY <2>1, <2>2
<1>10. \A m \in Msgs, a \in Agents, r \in {"ok", "failed"} :
           Lies(x, m, a, r) => m \notin ms /\ Lies(y, m, a, r) /\ y.msg[m] = x.msg[m]
  BY <1>0, <1>1 DEF Lies
<1>11. PlacesKnown(y)
  <2>1. ASSUME NEW a \in Agents
        PROVE  /\ \A m \in ToSet(x.mailbox[a]) : m \in Msgs /\ Lies(x, m, a, "failed")
               /\ \A m \in ToSet(x.records[a]) : m \in Msgs /\ Lies(x, m, a, "ok") /\ x.msg[m].from # Root
               /\ \A m \in x.steers[a] : m \in Msgs /\ Lies(x, m, a, "ok") /\ x.msg[m].from = Root
               /\ Len(x.mailbox[a]) <= MailboxCap
    <3>1. ToSet(x.mailbox[a]) \subseteq Msgs /\ ToSet(x.records[a]) \subseteq Msgs
          /\ x.steers[a] \subseteq Msgs
      BY <1>0, Fields, SetOf
    <3> QED
      BY <3>1 DEF Base, PlacesKnown
  <2>2. ASSUME NEW a \in Agents, NEW m \in ms, y.msg[m].to = a, Receipt(x, y, m, "ok", 0)
        PROVE  Lies(y, m, a, "ok")
    BY <1>1, <2>2 DEF Receipt, Lies
  <2>3. ASSUME NEW a \in Agents, NEW m \in ToSet(y.records[a])
        PROVE  Lies(y, m, a, "ok") /\ y.msg[m].from # Root
    <3>1. CASE m \in ToSet(x.records[a])
      BY <1>10, <2>1, <3>1
    <3>2. CASE m \notin ToSet(x.records[a])
      <4>1. m \in ms /\ Recorded(x, y, m, a) /\ y.msg[m].to = a
        BY <1>3, <2>3, <3>2
      <4> QED
        BY <2>2, <4>1 DEF Recorded
    <3> QED
      BY <3>1, <3>2
  <2>4. ASSUME NEW a \in Agents, NEW m \in y.steers[a]
        PROVE  Lies(y, m, a, "ok") /\ y.msg[m].from = Root
    BY <1>4, <1>10, <2>1, <2>2, <2>4 DEF Steered
  <2>5. ASSUME NEW a \in Agents, NEW m \in ToSet(y.mailbox[a]) PROVE Lies(y, m, a, "failed")
    BY <1>0, <1>10, <2>1, <2>5
  <2> QED
    BY <1>0, <2>1, <2>3, <2>4, <2>5 DEF PlacesKnown
<1>12. CallsKnown(y)
  <2>1. ASSUME NEW d \in Calls PROVE
           /\ x.call[d].op \in {"none", "done"} => ~Parked(x, d)
           /\ x.call[d].op = "send" => (x.call[d].from = None <=> x.call[d].wait = "no")
    BY DEF Base, CallsKnown, Parked
  <2>2. \A m \in ms : m # None
    BY <1>0, Bounds
  <2>3. \A d \in Calls : y.call[d] = x.call[d]
           \/ /\ Parked(x, d) /\ y.call[d].wait = "message" /\ y.call[d].got # None
    BY <1>2, <2>2 DEF Takes
  <2> QED
    BY <1>6, <2>1, <2>3 DEF Base, CallsKnown, Parked
<1>13. \A m \in ms : \A a \in Agents : Holds(y, a, m) => Recorded(x, y, m, a) \/ Steered(x, y, m, a)
  <2> TAKE m \in ms
  <2> TAKE a \in Agents
  <2>1. ~Holds(x, a, m)
    BY <1>1 DEF Somewhere
  <2>2. m \notin ToSet(y.mailbox[a])
    BY <1>0, <2>1 DEF Holds
  <2>3. m \in ToSet(y.records[a]) => Recorded(x, y, m, a)
    BY <1>3, <2>1 DEF Holds
  <2>4. m \in y.steers[a] => Steered(x, y, m, a)
    BY <1>4, <2>1 DEF Holds, Steered
  <2> QED
    BY <2>2, <2>3, <2>4 DEF Holds
<1>14. \A m \in Msgs \ ms : \A a \in Agents : Holds(y, a, m) <=> Holds(x, a, m)
  BY <1>0, <1>3, <1>4 DEF Holds, Steered
<1>15. \A m \in Msgs \ ms : \A c \in Calls : y.call[c].got = m <=> x.call[c].got = m
  <2>1. \A c \in Calls : Parked(x, c) => x.call[c].got = None
    BY DEF Base, CallsKnown, Parked
  <2> QED
    BY <1>2, <2>1, Bounds DEF Takes
<1>16. \A m \in ms : \A c \in Calls : y.call[c].got = m => Takes(x, y, m, c)
  BY <1>0, <1>1, <1>2 DEF Somewhere, Takes
\* A call that takes a message is the only place of it.
<1>17. ASSUME NEW m \in ms, NEW c \in Calls, Takes(x, y, m, c)
       PROVE  /\ Taken(x, y, m, y.msg[m].to)
              /\ \A d \in Calls : y.call[d].got = m => d = c
              /\ \A a \in Agents : ~Holds(y, a, m)
  <2>1. PICK b \in Agents : b = y.msg[m].to
    BY <1>1
  <2>2. y.call[c] # x.call[c] /\ x.call[c].by = b
    <3>1. x.call[c].wait # "message" /\ y.call[c].wait = "message"
      BY <1>17 DEF Takes, Parked
    <3> QED
      BY <1>17, <2>1, <3>1 DEF Takes
  <2>3. Taken(x, y, m, b)
    <3>1. Outcome(x, y, m) /\ ~Alone(x, y, b)
      BY <2>2 DEF Delivers, Alone
    <3>2. \/ Unheard(x, y, m, b) \/ Told(x, y, m, b) \/ Steered(x, y, m, b)
          \/ Recorded(x, y, m, b) \/ Taken(x, y, m, b)
      BY <2>1, <3>1 DEF Outcome
    <3>3. ~Unheard(x, y, m, b) /\ ~Told(x, y, m, b)
      BY <3>1 DEF Unheard, Told
    <3>4. ~Steered(x, y, m, b) /\ ~Recorded(x, y, m, b)
      BY <2>2 DEF Steered, Recorded
    <3> QED
      BY <3>2, <3>3, <3>4
  <2>4. PICK e \in Calls : \A d \in Calls \ {e} : x.call[d].by = b => y.call[d] = x.call[d]
    BY <2>3 DEF Taken
  <2>5. \A d \in Calls : y.call[d].got = m => y.call[d] # x.call[d] /\ x.call[d].by = b
    BY <1>1, <1>16, <2>1 DEF Takes, Somewhere
  <2>6. \A d \in Calls : y.call[d].got = m => d = c
    BY <2>2, <2>4, <2>5
  <2>7. \A a \in Agents : ~Holds(y, a, m)
    <3> SUFFICES ASSUME NEW a \in Agents, Holds(y, a, m) PROVE FALSE
      OBVIOUS
    <3>1. Recorded(x, y, m, a) \/ Steered(x, y, m, a)
      BY <1>13
    <3>2. a = b
      BY <1>11, <2>1 DEF PlacesKnown, Holds, Lies
    <3> QED
      BY <2>2, <3>1, <3>2 DEF Recorded, Steered
  <2> QED
    BY <2>1, <2>3, <2>6, <2>7
<1>18. GotKnown(y)
  <2> SUFFICES ASSUME NEW c \in Calls, y.call[c].got # None
               PROVE  /\ Lies(y, y.call[c].got, y.call[c].by, y.msg[y.call[c].got].receipt)
                      /\ y.call[c].op = "send" => /\ y.msg[y.call[c].got].receipt = "ok"
                                                  /\ y.msg[y.call[c].got].from = y.call[c].from
                      /\ \A d \in Calls : y.call[d].got = y.call[c].got => d = c
                      /\ \A a \in Agents : ~Holds(y, a, y.call[c].got)
    BY DEF GotKnown
  <2>0. y.call[c].got \in Msgs
    BY <1>0, Fields DEF HubCalls
  <2>1. PICK m \in Msgs : m = y.call[c].got
    BY <2>0
  <2>2. CASE m \in ms
    <3>1. Takes(x, y, m, c)
      BY <1>16, <2>1, <2>2
    <3>2. /\ Taken(x, y, m, y.msg[m].to) /\ \A d \in Calls : y.call[d].got = m => d = c
          /\ \A a \in Agents : ~Holds(y, a, m)
      BY <1>17, <2>2, <3>1
    <3>3. Lies(y, m, y.call[c].by, "ok") /\ y.msg[m].receipt = "ok"
      BY <1>1, <2>2, <3>1, <3>2 DEF Taken, Takes, Receipt, Lies
    <3>4. x.call[c].op = "send" => x.call[c].from # None
      BY <3>1 DEF Takes, Base, CallsKnown, Parked
    <3>5. y.call[c].op = "send" => y.msg[m].from = y.call[c].from
      BY <3>1, <3>4 DEF Takes
    <3> QED
      BY <2>1, <3>2, <3>3, <3>5
  <2>3. CASE m \notin ms
    <3>1. x.call[c].got = m /\ m # None
      BY <1>15, <2>1, <2>3, Bounds
    <3>2. /\ Lies(x, m, x.call[c].by, x.msg[m].receipt)
          /\ x.call[c].op = "send" => x.msg[m].receipt = "ok" /\ x.msg[m].from = x.call[c].from
          /\ \A d \in Calls : x.call[d].got = m => d = c
          /\ \A a \in Agents : ~Holds(x, a, m)
      BY <3>1 DEF Base, GotKnown
    <3>3. y.msg[m] = x.msg[m] /\ y.shown[m] = x.shown[m]
      BY <1>0, <2>3
    <3> QED
      BY <1>6, <1>14, <1>15, <2>1, <2>3, <3>2, <3>3 DEF Lies
  <2> QED
    BY <2>2, <2>3
<1>19. WaitersKnown(y)
  <2>1. ASSUME NEW a \in Agents
        PROVE  /\ IsInjective(y.waiters[a])
               /\ \A d \in ToSet(y.waiters[a]) : d \in Calls /\ Parked(y, d) /\ y.call[d].by = a
               /\ \A d \in Calls : Parked(y, d) /\ y.call[d].by = a => d \in ToSet(y.waiters[a])
    <3>1. /\ IsInjective(x.waiters[a])
          /\ \A d \in ToSet(x.waiters[a]) : d \in Calls /\ Parked(x, d) /\ x.call[d].by = a
          /\ \A d \in Calls : Parked(x, d) /\ x.call[d].by = a => d \in ToSet(x.waiters[a])
      <4>1. ToSet(x.waiters[a]) \subseteq Calls
        BY <1>0, Fields, SetOf
      <4> QED
        BY <4>1 DEF Base, WaitersKnown
    <3>2. CASE /\ y.waiters[a] = x.waiters[a]
               /\ \A d \in Calls : x.call[d].by = a => y.call[d] = x.call[d]
      BY <1>6, <3>1, <3>2 DEF Parked
    <3>3. CASE \E m \in ms : Taken(x, y, m, a)
      <4>1. PICK m \in ms, c \in Calls :
               /\ Takes(x, y, m, c) /\ y.waiters[a] = Without(x.waiters[a], {c})
               /\ \A d \in Calls \ {c} : x.call[d].by = a => y.call[d] = x.call[d]
        BY <3>3 DEF Taken
      <4>2. ToSet(y.waiters[a]) = ToSet(x.waiters[a]) \ {c} /\ IsInjective(y.waiters[a])
        BY <1>0, <3>1, <4>1, Fields, Freed
      <4>3. ~Parked(y, c)
        BY <4>1 DEF Takes, Parked
      <4>4. \A d \in Calls \ {c} : x.call[d].by = a => (Parked(y, d) <=> Parked(x, d))
        BY <4>1 DEF Parked
      <4> QED
        BY <1>6, <3>1, <4>2, <4>3, <4>4
    <3> QED
      BY <1>5, <3>2, <3>3
  <2>2. \A d \in Calls : Parked(y, d) => y.call[d].by \in Agents
    BY <1>0, <1>12, Fields DEF CallsKnown, Parked, HubCalls
  <2> QED
    BY <2>1, <2>2 DEF WaitersKnown
<1>20. DraftsKnown(y)
  <2>1. \A m \in ms : y.msg[m].st # "unsent"
    BY <1>7 DEF Receipt
  <2>2. \A m \in Msgs \ ms : y.msg[m] = x.msg[m]
    BY <1>0
  <2>3. x.drafts \subseteq Msgs
    BY <1>0, Fields
  <2> QED
    BY <1>0, <2>1, <2>2, <2>3 DEF Base, DraftsKnown
<1>21. Base(y)
  BY <1>0, <1>8, <1>9, <1>11, <1>12, <1>18, <1>19, <1>20 DEF Base
<1>22. Lawful(x, y)
  <2>1. ASSUME NEW m \in Msgs \ ms PROVE Rests(x, y, m)
    <3>1. Somewhere(y, m) <=> Somewhere(x, m)
      BY <1>14, <1>15 DEF Somewhere
    <3> QED
      BY <1>0, <3>1 DEF Rests
  <2>2. ASSUME NEW m \in ms PROVE Sends(x, y, m)
    <3>1. /\ x.msg[m].st \in {"unsent", "gate"} /\ x.shown[m] = 0
          /\ x.msg[m].st = "gate" => y.msg[m].from = x.msg[m].from /\ y.msg[m].to = x.msg[m].to
      BY <1>1 DEF Routed
    <3>2. CASE Unheard(x, y, m, y.msg[m].to)
      <4>1. \A c \in Calls : ~Takes(x, y, m, c)
        BY <1>17, <3>2 DEF Taken, Unheard, Receipt
      <4>2. \A a \in Agents : ~Holds(y, a, m)
        BY <1>13, <3>2 DEF Unheard, Recorded, Steered, Receipt
      <4>3. ~Somewhere(y, m)
        BY <1>16, <4>1, <4>2 DEF Somewhere
      <4> QED
        BY <3>1, <3>2, <4>3 DEF Unheard, Sends, Receipt
    <3>3. CASE Told(x, y, m, y.msg[m].to)
      BY <3>1, <3>3 DEF Told, Sends, Receipt
    <3>4. CASE \/ Steered(x, y, m, y.msg[m].to) \/ Recorded(x, y, m, y.msg[m].to)
               \/ Taken(x, y, m, y.msg[m].to)
      <4>1. Receipt(x, y, m, "ok", 0)
        BY <3>4 DEF Steered, Recorded, Taken
      <4>2. Somewhere(y, m)
        <5>1. CASE Steered(x, y, m, y.msg[m].to)
          BY <1>1, <5>1 DEF Steered, Somewhere, Holds
        <5>2. CASE Recorded(x, y, m, y.msg[m].to)
          <6>1. ToSet(Append(x.records[y.msg[m].to], m)) = ToSet(x.records[y.msg[m].to]) \cup {m}
            BY <1>0, <1>1, Fields, Pushed
          <6> QED
            BY <1>1, <5>2, <6>1 DEF Recorded, Somewhere, Holds
        <5>3. CASE Taken(x, y, m, y.msg[m].to)
          BY <5>3 DEF Taken, Takes, Somewhere
        <5> QED
          BY <3>4, <5>1, <5>2, <5>3
      <4> QED
        BY <3>1, <4>1, <4>2 DEF Sends, Receipt
    <3> QED
      BY <3>2, <3>3, <3>4 DEF Delivers, Outcome
  <2> QED
    BY <1>0, <2>1, <2>2 DEF Lawful
<1>23. Hopeful(x) => Hopeful(y)
  <2>1. \A a \in Agents : x.peer[a].status = "running" => y.peer[a].status = "running"
    <3> TAKE a \in Agents
    <3>1. y.peer[a] = x.peer[a] \/ Woken(x, y, a)
      BY <1>1 DEF Delivers
    <3> QED
      BY <3>1 DEF Woken
  <2>2. \A a, from : Hope(x, a, from) => Hope(y, a, from)
    BY <2>1 DEF Hope, RunningPeers
  <2>3. \A c \in Calls : y.call[c].wait = "parked" => x.call[c].wait = "parked"
    BY <1>2 DEF Takes
  <2> QED
    BY <1>6, <2>2, <2>3 DEF Hopeful
<1>24. \A c \in Calls : Leg(x, c) /\ x.call[c].by \in Agents => Leg(y, c)
  <2> SUFFICES ASSUME NEW c \in Calls, x.call[c].by \in Agents, NEW n \in Msgs,
                      x.msg[n].call = c, x.msg[n].from = x.call[c].by, x.msg[n].to = x.call[c].from
               PROVE  y.msg[n].call = c /\ y.msg[n].from = x.call[c].by
                      /\ y.msg[n].to = x.call[c].from
    BY <1>6 DEF Leg
  <2>1. x.msg[n].st # "unsent"
    BY Bounds DEF Base, LettersKnown, Unwritten
  <2>2. n \in ms => /\ y.msg[n].from = x.msg[n].from /\ y.msg[n].to = x.msg[n].to
                    /\ y.msg[n].call = x.msg[n].call
    BY <1>1, <2>1 DEF Routed
  <2> QED
    BY <1>0, <2>2
<1> QED
  BY <1>6, <1>21, <1>22, <1>23, <1>24

\* x in the middle of the send of m: the message is written, nothing else is done.
Written(x, z, m) ==
    /\ z \in World /\ z.peer = x.peer /\ z.mailbox = x.mailbox /\ z.waiters = x.waiters
    /\ z.records = x.records /\ z.steers = x.steers /\ z.call = x.call
    /\ z.drafts = x.drafts /\ z.shown = x.shown
    /\ \A n \in Msgs \ {m} : z.msg[n] = x.msg[n]
    /\ z.msg[m].st = "gate" /\ z.msg[m].receipt = "none" /\ Routed(x, z, m)

\* The receipt is written.
Answered(z, y, m, s, r) ==
    /\ y \in World /\ y.mailbox = z.mailbox /\ \A n \in Msgs \ {m} : y.msg[n] = z.msg[n]
    /\ y.msg[m].st = s /\ y.msg[m].receipt = r
    /\ y.msg[m].from = z.msg[m].from /\ y.msg[m].to = z.msg[m].to /\ y.msg[m].call = z.msg[m].call
    /\ \A n \in Msgs \ {m} : y.shown[n] = z.shown[n]

\* A send that fails has a lawful outcome.
LEMMA Failing ==
    ASSUME NEW x \in World, NEW m \in Msgs, NEW y, y = Fail(x, m)
    PROVE  /\ Answered(x, y, m, "sent", "failed") /\ y.peer = x.peer /\ y.waiters = x.waiters
           /\ y.records = x.records /\ y.steers = x.steers /\ y.call = x.call
           /\ y.drafts = x.drafts /\ y.shown = x.shown
<1>1. x.msg \in [Msgs -> Letters] /\ x.shown \in [Msgs -> Nat]
  BY Fields
<1> DEFINE n == [x.msg[m] EXCEPT !.st = "sent", !.receipt = "failed"]
<1>2. /\ n \in Letters /\ n.st = "sent" /\ n.receipt = "failed" /\ n.from = x.msg[m].from
      /\ n.to = x.msg[m].to /\ n.call = x.msg[m].call
  BY <1>1 DEF Letters
<1>3. y = [x EXCEPT !.msg = [x.msg EXCEPT ![m] = n]]
  BY <1>1 DEF Fail, Letters, World
<1> HIDE DEF n
<1>4. [x.msg EXCEPT ![m] = n] \in [Msgs -> Letters]
  BY <1>1, <1>2
<1>5. /\ y \in World /\ y.msg = [x.msg EXCEPT ![m] = n] /\ y.mailbox = x.mailbox
      /\ y.peer = x.peer /\ y.waiters = x.waiters /\ y.records = x.records
      /\ y.steers = x.steers /\ y.call = x.call /\ y.drafts = x.drafts /\ y.shown = x.shown
  BY <1>3, <1>4 DEF World
<1> QED
  BY <1>1, <1>2, <1>5 DEF Answered

\* One call of b takes the message; no other call changes.
Claims(x, y, m, b) == \E c \in Calls : /\ Takes(x, y, m, c)
                                       /\ y.waiters[b] = Without(x.waiters[b], {c})
                                       /\ \A d \in Calls \ {c} : y.call[d] = x.call[d]

\* A send that a waiter takes has a lawful outcome.
LEMMA Consuming ==
    ASSUME NEW x, Base(x), NEW z, NEW m \in Msgs, Written(x, z, m), Takers(z, m) # {},
           NEW y, y = Consume(z, m)
    PROVE  /\ Answered(z, y, m, "sent", "ok") /\ y.peer = x.peer /\ y.drafts = x.drafts
           /\ y.shown = x.shown
           /\ \A a \in Agents \ {z.msg[m].to} : y.waiters[a] = x.waiters[a]
           /\ y.records = x.records /\ y.steers = x.steers
           /\ Claims(x, y, m, z.msg[m].to)
<1> DEFINE b == z.msg[m].to
           k == Min(Takers(z, m))
           c == z.waiters[b][k]
<1>1. z \in World /\ b \in Agents /\ x \in World
  BY DEF Written, Routed, Base
<1>2. /\ z.msg \in [Msgs -> Letters] /\ z.waiters \in [Agents -> Seq(Calls)]
      /\ z.call \in [Calls -> HubCalls] /\ z.waiters[b] \in Seq(Calls)
  BY <1>1, Fields
<1>3. k \in Takers(z, m)
  <2>1. Takers(z, m) \in SUBSET (DOMAIN z.waiters[b])
    BY DEF Takers
  <2> QED
    BY <1>2, <2>1, Earliest
<1>4. k \in DOMAIN z.waiters[b] /\ Accepts(z.call[c].from, m, z)
  BY <1>3 DEF Takers
<1> HIDE DEF k
<1>5. c \in ToSet(z.waiters[b]) /\ c \in Calls
  <2>1. DOMAIN z.waiters[b] = 1 .. Len(z.waiters[b])
    BY <1>2, SetOf
  <2>2. \A i \in 1 .. Len(z.waiters[b]) : z.waiters[b][i] \in ToSet(z.waiters[b])
    BY <1>2, SetOf
  <2>3. ToSet(z.waiters[b]) \subseteq Calls
    BY <1>2, SetOf
  <2> QED
    BY <1>4, <2>1, <2>2, <2>3
<1>6. Parked(x, c) /\ x.call[c].by = b
  BY <1>1, <1>5 DEF Written, Base, WaitersKnown
<1> DEFINE n == [z.msg[m] EXCEPT !.st = "sent", !.receipt = "ok"]
           q == Without(z.waiters[b], {c})
           j == [z.call[c] EXCEPT !.wait = "message", !.got = m]
<1>7. /\ n \in Letters /\ n.st = "sent" /\ n.receipt = "ok" /\ n.from = z.msg[m].from
      /\ n.to = z.msg[m].to /\ n.call = z.msg[m].call
  BY <1>2, ZenonT(60) DEF Letters
<1>8. /\ j \in HubCalls /\ j.wait = "message" /\ j.got = m /\ j.op = z.call[c].op
      /\ j.by = z.call[c].by /\ j.from = z.call[c].from
  BY <1>2, <1>5, ZenonT(60) DEF HubCalls
<1>9. q \in Seq(Calls)
  BY <1>2, Freed
<1>10. y = [z EXCEPT !.msg = [z.msg EXCEPT ![m] = n], !.waiters = [z.waiters EXCEPT ![b] = q],
                     !.call = [z.call EXCEPT ![c] = j]]
  <2>1. y = [z EXCEPT !.msg[m] = n, !.waiters[b] = q, !.call[c] = j]
    BY DEF Consume, k
  <2> HIDE DEF b, c, q, j, n
  <2>2. z \in World
    BY <1>1
  <2> QED
    BY ONLY <2>1, <2>2 DEF World
<1> HIDE DEF b, c, n, q, j
<1>11. /\ [z.msg EXCEPT ![m] = n] \in [Msgs -> Letters]
       /\ [z.waiters EXCEPT ![b] = q] \in [Agents -> Seq(Calls)]
       /\ [z.call EXCEPT ![c] = j] \in [Calls -> HubCalls]
  BY <1>2, <1>7, <1>8, <1>9
<1>12. /\ y \in World /\ y.msg = [z.msg EXCEPT ![m] = n] /\ y.mailbox = z.mailbox
       /\ y.waiters = [z.waiters EXCEPT ![b] = q] /\ y.call = [z.call EXCEPT ![c] = j]
       /\ y.peer = z.peer /\ y.records = z.records /\ y.steers = z.steers
       /\ y.drafts = z.drafts /\ y.shown = z.shown
  BY ONLY <1>1, <1>10, <1>11 DEF World
<1>13. Answered(z, y, m, "sent", "ok")
  BY <1>2, <1>7, <1>12 DEF Answered
<1>14. /\ z.peer = x.peer /\ z.waiters = x.waiters /\ z.records = x.records /\ z.steers = x.steers
       /\ z.call = x.call /\ z.drafts = x.drafts /\ z.shown = x.shown
  BY DEF Written
<1>15. y.waiters[b] = Without(x.waiters[b], {c})
       /\ \A a \in Agents \ {b} : y.waiters[a] = x.waiters[a]
  BY <1>1, <1>2, <1>12, <1>14 DEF q
<1>16. y.call[c] = j /\ \A d \in Calls \ {c} : y.call[d] = x.call[d]
  BY <1>2, <1>5, <1>12, <1>14
<1>17. Takes(x, y, m, c)
  <2>1. y.msg[m].to = b /\ y.msg[m].from = z.msg[m].from
    BY <1>13 DEF Answered, b
  <2>2. x.call[c].from \in {None, y.msg[m].from}
    BY <1>4, <1>14, <2>1 DEF Accepts
  <2> QED
    BY <1>6, <1>8, <1>14, <1>16, <2>1, <2>2 DEF Takes
<1>18. Claims(x, y, m, b)
  BY <1>5, <1>15, <1>16, <1>17 DEF Claims
<1> QED
  BY <1>12, <1>13, <1>14, <1>15, <1>18 DEF b

\* What Show does.
LEMMA Showing ==
    ASSUME NEW x \in World, NEW ms \in SUBSET Msgs, NEW y, y = Show(x, ms)
    PROVE  /\ y \in World /\ y.peer = x.peer /\ y.msg = x.msg /\ y.mailbox = x.mailbox
           /\ y.waiters = x.waiters /\ y.records = x.records /\ y.steers = x.steers
           /\ y.call = x.call /\ y.drafts = x.drafts
           /\ \A m \in ms : y.shown[m] = x.shown[m] + 1
           /\ \A m \in Msgs \ ms : y.shown[m] = x.shown[m]
<1>1. x.shown \in [Msgs -> Nat]
  BY Fields
<1> DEFINE f == [m \in Msgs |-> x.shown[m] + (IF m \in ms THEN 1 ELSE 0)]
<1>2. y = [x EXCEPT !.shown = f]
  BY DEF Show
<1>3. /\ f \in [Msgs -> Nat]
      /\ \A m \in ms : f[m] = x.shown[m] + 1
      /\ \A m \in Msgs \ ms : f[m] = x.shown[m]
  BY <1>1
<1> HIDE DEF f
<1>4. /\ y \in World /\ y.peer = x.peer /\ y.msg = x.msg /\ y.mailbox = x.mailbox
      /\ y.waiters = x.waiters /\ y.records = x.records /\ y.steers = x.steers
      /\ y.call = x.call /\ y.drafts = x.drafts /\ y.shown = f
  BY <1>2, <1>3 DEF World
<1>5. ms \subseteq Msgs /\ y.shown = f
  BY <1>4
<1> QED
  BY ONLY <1>3, <1>4, <1>5

\* deliver's four ways.
LEMMA Delivering ==
    ASSUME NEW x, Base(x), NEW z, NEW m \in Msgs, Written(x, z, m),
           z.peer[z.msg[m].to].session = "live", NEW y, y = Deliver(z, m)
    PROVE  /\ Delivers(x, y, {m}) /\ y.msg[m].from = z.msg[m].from
           /\ y.msg[m].to = z.msg[m].to /\ y.msg[m].call = z.msg[m].call
<1> DEFINE b == z.msg[m].to
           n == [z.msg[m] EXCEPT !.st = "sent", !.receipt = "ok"]
           drafted == z.drafts \cup (IF AutoReplies(z, m) THEN {m} ELSE {})
           w == [z EXCEPT !.msg[m].st = "sent", !.msg[m].receipt = "ok",
                          !.drafts = @ \cup (IF AutoReplies(z, m) THEN {m} ELSE {})]
<1>1. z \in World /\ b \in Agents /\ x \in World /\ z.peer[b].session = "live"
  BY DEF Written, Routed, Base
<1>2. /\ z.msg \in [Msgs -> Letters] /\ z.peer \in [Agents -> Peers] /\ z.shown \in [Msgs -> Nat]
      /\ z.records \in [Agents -> Seq(Msgs)] /\ z.steers \in [Agents -> SUBSET Msgs]
      /\ z.drafts \in SUBSET Msgs
  BY <1>1, Fields
<1>3. /\ n \in Letters /\ n.st = "sent" /\ n.receipt = "ok" /\ n.from = z.msg[m].from
      /\ n.to = z.msg[m].to /\ n.call = z.msg[m].call
  <2>1. z.msg[m] \in Letters
    BY <1>2
  <2> QED
    BY ONLY <2>1 DEF Letters
<1>4. drafted \in SUBSET Msgs /\ drafted \subseteq z.drafts \cup {m}
  BY <1>2
<1>5. w = [z EXCEPT !.msg = [z.msg EXCEPT ![m] = n], !.drafts = drafted]
  BY <1>1, <1>2 DEF Letters, World
<1>6. y = IF Streaming(z, b)
          THEN IF z.msg[m].from = Root THEN [w EXCEPT !.steers[b] = @ \cup {m}]
               ELSE [w EXCEPT !.records[b] = Append(@, m)]
          ELSE IF b \in Planning THEN Show(w, {m})
          ELSE Show([w EXCEPT !.peer[b] = [@ EXCEPT !.turn = TRUE, !.settling = "no",
                                                    !.status = "running"]], {m})
  BY DEF Deliver
<1> HIDE DEF w
<1> HIDE DEF n, drafted
<1>7. /\ w \in World /\ w.msg = [z.msg EXCEPT ![m] = n] /\ w.drafts = drafted
      /\ w.mailbox = z.mailbox /\ w.peer = z.peer /\ w.waiters = z.waiters
      /\ w.records = z.records /\ w.steers = z.steers /\ w.call = z.call /\ w.shown = z.shown
  <2>1. [z.msg EXCEPT ![m] = n] \in [Msgs -> Letters]
    BY <1>2, <1>3
  <2> QED
    BY ONLY <1>1, <1>4, <1>5, <2>1 DEF World
<1>8. Answered(z, w, m, "sent", "ok")
  BY <1>2, <1>3, <1>7 DEF Answered
<1>9. /\ z.peer = x.peer /\ z.waiters = x.waiters /\ z.records = x.records /\ z.steers = x.steers
      /\ z.call = x.call /\ z.drafts = x.drafts /\ z.shown = x.shown /\ z.mailbox = x.mailbox
      /\ Routed(x, z, m) /\ \A k \in Msgs \ {m} : z.msg[k] = x.msg[k]
  BY DEF Written
\* What the ways have in common.
<1> DEFINE Common(v) ==
             /\ v \in World /\ v.msg = w.msg /\ v.mailbox = x.mailbox /\ v.waiters = x.waiters
             /\ v.call = x.call /\ v.drafts = w.drafts
             /\ \A a \in Agents \ {b} : v.peer[a] = x.peer[a] /\ v.records[a] = x.records[a]
                                        /\ v.steers[a] = x.steers[a]
             /\ \A k \in Msgs \ {m} : v.shown[k] = x.shown[k]
<1>10. ASSUME Common(y), Woken(x, y, b),
              Told(x, y, m, b) \/ Steered(x, y, m, b) \/ Recorded(x, y, m, b)
       PROVE  Delivers(x, y, {m}) /\ y.msg[m].from = z.msg[m].from /\ y.msg[m].to = b
              /\ y.msg[m].call = z.msg[m].call
  <2>1. /\ y.msg[m].from = z.msg[m].from /\ y.msg[m].to = b /\ y.msg[m].call = z.msg[m].call
        /\ \A k \in Msgs \ {m} : y.msg[k] = x.msg[k]
    BY <1>8, <1>9, <1>10 DEF Answered
  <2>2. Routed(x, y, m)
    BY <1>9, <2>1 DEF Routed
  <2>3. Outcome(x, y, m)
    BY <1>10, <2>1, <2>2 DEF Outcome
  <2>4. \A a \in Agents \ {b} : y.peer[a] = x.peer[a] /\ Alone(x, y, a)
    BY <1>10 DEF Alone
  <2>5. y.drafts \subseteq x.drafts \cup {m} /\ y.mailbox = x.mailbox /\ y.call = x.call
        /\ y \in World
    BY <1>4, <1>7, <1>9, <1>10
  <2>6. \A k \in Msgs \ {m} : y.shown[k] = x.shown[k]
    BY <1>10
  <2> QED
    BY <2>1, <2>3, <2>4, <2>5, <2>6 DEF Delivers
<1>11. /\ w.msg[m].st = "sent" /\ w.msg[m].receipt = "ok" /\ w.msg[m].from = z.msg[m].from
  BY <1>8 DEF Answered
<1>12. CASE Streaming(z, b) /\ z.msg[m].from = Root
  <2>1. y = [w EXCEPT !.steers = [w.steers EXCEPT ![b] = w.steers[b] \cup {m}]]
    BY <1>6, <1>7, <1>12 DEF World
  <2>2. [w.steers EXCEPT ![b] = w.steers[b] \cup {m}] \in [Agents -> SUBSET Msgs]
    BY <1>2, <1>7
  <2>3. /\ y \in World /\ y.msg = w.msg /\ y.mailbox = w.mailbox /\ y.waiters = w.waiters
        /\ y.call = w.call /\ y.drafts = w.drafts /\ y.peer = w.peer /\ y.records = w.records
        /\ y.shown = w.shown /\ y.steers = [w.steers EXCEPT ![b] = w.steers[b] \cup {m}]
    BY ONLY <1>7, <2>1, <2>2 DEF World
  <2>4. y.steers[b] = x.steers[b] \cup {m} /\ \A a \in Agents \ {b} : y.steers[a] = x.steers[a]
    <3>1. w.steers = x.steers /\ w.steers \in [Agents -> SUBSET Msgs] /\ b \in Agents
      BY <1>1, <1>2, <1>7, <1>9
    <3> QED
      BY ONLY <2>3, <3>1
  <2>5. Common(y) /\ Woken(x, y, b)
    BY <1>7, <1>9, <2>3, <2>4 DEF Woken
  <2>6. Steered(x, y, m, b)
    <3>1. y.shown[m] = x.shown[m] /\ x.shown[m] \in Nat
      BY <1>2, <1>7, <1>9, <2>3 DEF World
    <3>2. /\ y.msg[m].st = "sent" /\ y.msg[m].receipt = "ok" /\ y.msg[m].from = Root
          /\ y.waiters[b] = x.waiters[b] /\ y.records[b] = x.records[b]
          /\ \A d \in Calls : x.call[d].by = b => y.call[d] = x.call[d]
      BY <1>7, <1>9, <1>11, <1>12, <2>3
    <3>3. y.shown[m] = x.shown[m] + 0
      BY ONLY <3>1
    <3> QED
      BY ONLY <2>4, <3>2, <3>3 DEF Steered, Receipt
  <2> QED
    BY <1>10, <2>5, <2>6
<1>13. CASE Streaming(z, b) /\ z.msg[m].from # Root
  <2>1. y = [w EXCEPT !.records = [w.records EXCEPT ![b] = Append(w.records[b], m)]]
    BY <1>6, <1>7, <1>13 DEF World
  <2>2. [w.records EXCEPT ![b] = Append(w.records[b], m)] \in [Agents -> Seq(Msgs)]
    BY <1>1, <1>2, <1>7, Pushed
  <2>3. /\ y \in World /\ y.msg = w.msg /\ y.mailbox = w.mailbox /\ y.waiters = w.waiters
        /\ y.call = w.call /\ y.drafts = w.drafts /\ y.peer = w.peer /\ y.steers = w.steers
        /\ y.shown = w.shown /\ y.records = [w.records EXCEPT ![b] = Append(w.records[b], m)]
    BY ONLY <1>7, <2>1, <2>2 DEF World
  <2>4. y.records[b] = Append(x.records[b], m)
        /\ \A a \in Agents \ {b} : y.records[a] = x.records[a]
    <3>1. w.records = x.records /\ w.records \in [Agents -> Seq(Msgs)] /\ b \in Agents
      BY <1>1, <1>2, <1>7, <1>9
    <3> QED
      BY ONLY <2>3, <3>1
  <2>5. Common(y) /\ Woken(x, y, b)
    BY <1>7, <1>9, <2>3, <2>4 DEF Woken
  <2>6. Recorded(x, y, m, b)
    <3>1. Receipt(x, y, m, "ok", 0)
      BY <1>2, <1>7, <1>9, <1>11, <2>3 DEF Receipt
    <3>2. y.msg[m].from # Root
      BY <1>11, <1>13, <2>3
    <3>3. /\ y.waiters[b] = x.waiters[b] /\ y.steers[b] = x.steers[b]
          /\ \A d \in Calls : x.call[d].by = b => y.call[d] = x.call[d]
      BY <1>7, <1>9, <2>3
    <3> QED
      BY <2>4, <3>1, <3>2, <3>3 DEF Recorded
  <2> QED
    BY <1>10, <2>5, <2>6
<1>14. CASE ~Streaming(z, b)
  <2> DEFINE p == [w.peer[b] EXCEPT !.turn = TRUE, !.settling = "no", !.status = "running"]
             v == IF b \in Planning THEN w ELSE [w EXCEPT !.peer = [w.peer EXCEPT ![b] = p]]
  <2>1. y = Show(v, {m})
    <3>1. [w EXCEPT !.peer[b] = [@ EXCEPT !.turn = TRUE, !.settling = "no", !.status = "running"]]
          = [w EXCEPT !.peer = [w.peer EXCEPT ![b] = p]]
      BY <1>7 DEF World
    <3> QED
      BY <1>6, <1>14, <3>1
  <2>2. p \in Peers /\ p.session = w.peer[b].session /\ p.status = "running"
    <3>1. w.peer[b] \in Peers
      BY <1>1, <1>2, <1>7
    <3> QED
      BY ONLY <3>1 DEF Peers
  <2> HIDE DEF p
  <2>3. /\ v \in World /\ v.msg = w.msg /\ v.mailbox = w.mailbox /\ v.waiters = w.waiters
        /\ v.call = w.call /\ v.drafts = w.drafts /\ v.records = w.records
        /\ v.steers = w.steers /\ v.shown = w.shown
        /\ \A a \in Agents \ {b} : v.peer[a] = w.peer[a]
        /\ v.peer[b] \in {w.peer[b], p}
    <3>1. [w.peer EXCEPT ![b] = p] \in [Agents -> Peers] /\ w.peer \in [Agents -> Peers]
      BY <1>2, <1>7, <2>2
    <3>2. CASE b \in Planning
      BY <1>7, <3>2
    <3>3. CASE b \notin Planning
      <4>1. v = [w EXCEPT !.peer = [w.peer EXCEPT ![b] = p]]
        BY <3>3
      <4> HIDE DEF v
      <4>2. /\ v \in World /\ v.msg = w.msg /\ v.mailbox = w.mailbox /\ v.waiters = w.waiters
            /\ v.call = w.call /\ v.drafts = w.drafts /\ v.records = w.records
            /\ v.steers = w.steers /\ v.shown = w.shown
            /\ v.peer = [w.peer EXCEPT ![b] = p]
        BY ONLY <1>7, <3>1, <4>1 DEF World
      <4> QED
        BY <1>1, <3>1, <4>2
    <3> QED
      BY <3>2, <3>3
  <2> HIDE DEF v
  <2>4. /\ y \in World /\ y.peer = v.peer /\ y.msg = v.msg /\ y.mailbox = v.mailbox
        /\ y.waiters = v.waiters /\ y.records = v.records /\ y.steers = v.steers
        /\ y.call = v.call /\ y.drafts = v.drafts
        /\ y.shown[m] = v.shown[m] + 1 /\ \A k \in Msgs \ {m} : y.shown[k] = v.shown[k]
    BY <2>1, <2>3, Showing
  <2>5. Common(y)
    BY <1>7, <1>9, <2>3, <2>4
  <2>6. Woken(x, y, b)
    BY <1>1, <1>7, <1>9, <2>2, <2>3, <2>4 DEF Woken
  <2>7. Told(x, y, m, b)
    BY <1>7, <1>9, <1>11, <2>3, <2>4 DEF Told, Alone, Receipt
  <2> QED
    BY <1>10, <2>5, <2>6, <2>7
<1> QED
  BY <1>12, <1>13, <1>14

\* One send is a set of sends.
LEMMA Single ==
    ASSUME NEW x, NEW y \in World, NEW m \in Msgs, y.mailbox = x.mailbox,
           y.drafts \subseteq x.drafts \cup {m}, Outcome(x, y, m),
           \A n \in Msgs \ {m} : y.msg[n] = x.msg[n] /\ y.shown[n] = x.shown[n],
           \A a \in Agents \ {y.msg[m].to} : y.peer[a] = x.peer[a] /\ Alone(x, y, a),
           \A d \in Calls : x.call[d].by \notin Agents => y.call[d] = x.call[d]
    PROVE  Delivers(x, y, {m})
<1>1. \A a \in Agents : (\A n \in {m} : y.msg[n].to # a) => y.peer[a] = x.peer[a] /\ Alone(x, y, a)
  OBVIOUS
<1> QED
  BY <1>1 DEF Delivers

\* The message is marked, and nothing else is done.
LEMMA Marked ==
    ASSUME NEW x, Base(x), NEW z, NEW m \in Msgs, Written(x, z, m), NEW y, NEW s, NEW r,
           Answered(z, y, m, s, r), y.peer = x.peer, y.waiters = x.waiters,
           y.records = x.records, y.steers = x.steers, y.call = x.call,
           y.drafts = x.drafts, y.shown = x.shown,
           <<s, r>> \in {<<"gate", "none">>, <<"failing", "none">>, <<"sent", "failed">>}
    PROVE  Delivers(x, y, {m})
<1>1. y \in World /\ x \in World /\ x.shown[m] \in Nat /\ y.mailbox = x.mailbox
  BY Fields DEF Base, Answered, Written
<1>2. \A n \in Msgs \ {m} : y.msg[n] = x.msg[n] /\ y.shown[n] = x.shown[n]
  BY DEF Answered, Written
<1>3. Routed(x, y, m)
  BY DEF Answered, Written, Routed
<1>4. \A a \in Agents : Alone(x, y, a)
  BY DEF Alone
<1>5. y.msg[m].st = s /\ y.msg[m].receipt = r
  BY DEF Answered
<1>6. Unheard(x, y, m, y.msg[m].to)
  <2>1. y.msg[m].to \in Agents
    BY <1>3 DEF Routed
  <2> QED
    BY <1>1, <1>4, <1>5, <2>1 DEF Unheard, Receipt
<1>7. Outcome(x, y, m)
  BY <1>3, <1>6 DEF Outcome, Woken
<1> QED
  BY <1>1, <1>2, <1>4, <1>7, Single

\* The hand-over has a lawful outcome, whichever of its branches runs.
LEMMA HandOverIs ==
    ASSUME NEW x, Base(x), NEW z, NEW m \in Msgs, Written(x, z, m), NEW y, y = HandOver(z, m)
    PROVE  /\ Delivers(x, y, {m}) /\ y.msg[m].from = z.msg[m].from
           /\ y.msg[m].to = z.msg[m].to /\ y.msg[m].call = z.msg[m].call
<1> DEFINE b == z.msg[m].to
           Same == /\ y.msg[m].from = z.msg[m].from /\ y.msg[m].to = z.msg[m].to
                   /\ y.msg[m].call = z.msg[m].call
<1>1. z \in World /\ x \in World /\ b \in Agents /\ z.peer[b] \in Peers /\ x.shown[m] \in Nat
  BY Fields DEF Written, Routed, Base
<1>2. /\ z.peer = x.peer /\ z.waiters = x.waiters /\ z.records = x.records /\ z.steers = x.steers
      /\ z.call = x.call /\ z.drafts = x.drafts /\ z.shown = x.shown /\ z.mailbox = x.mailbox
      /\ Routed(x, z, m) /\ \A k \in Msgs \ {m} : z.msg[k] = x.msg[k]
  BY DEF Written
<1>3. CASE Takers(z, m) # {}
  <2>1. y = Consume(z, m)
    BY <1>3 DEF HandOver
  <2>2. /\ Answered(z, y, m, "sent", "ok") /\ y.peer = x.peer /\ y.drafts = x.drafts
        /\ y.shown = x.shown
        /\ \A a \in Agents \ {z.msg[m].to} : y.waiters[a] = x.waiters[a]
        /\ y.records = x.records /\ y.steers = x.steers
        /\ Claims(x, y, m, z.msg[m].to)
    BY <1>3, <2>1, Consuming
  <2>3. /\ y \in World /\ y.mailbox = x.mailbox /\ Same
        /\ \A n \in Msgs \ {m} : y.msg[n] = x.msg[n] /\ y.shown[n] = x.shown[n]
        /\ y.msg[m].st = "sent" /\ y.msg[m].receipt = "ok"
    BY <1>2, <2>2 DEF Answered
  <2>4. PICK c \in Calls : /\ Takes(x, y, m, c) /\ y.waiters[b] = Without(x.waiters[b], {c})
                           /\ \A d \in Calls \ {c} : y.call[d] = x.call[d]
    BY <2>2 DEF Claims
  <2>5. Taken(x, y, m, b)
    <3>1. Receipt(x, y, m, "ok", 0)
      BY <1>1, <2>2, <2>3 DEF Receipt
    <3>2. y.records[b] = x.records[b] /\ y.steers[b] = x.steers[b]
      BY <2>2
    <3> HIDE DEF b
    <3> QED
      BY <2>4, <3>1, <3>2 DEF Taken
  <2>6. Outcome(x, y, m)
    BY <1>2, <2>2, <2>3, <2>5 DEF Outcome, Routed, Woken
  <2>7. x.call[c].by = b
    BY <2>3, <2>4 DEF Takes
  <2>8. \A a \in Agents \ {b} : y.peer[a] = x.peer[a] /\ Alone(x, y, a)
    BY <2>2, <2>4, <2>7 DEF Alone
  <2>9. \A d \in Calls : x.call[d].by \notin Agents => y.call[d] = x.call[d]
    BY <1>1, <2>4, <2>7
  <2>10. Delivers(x, y, {m})
    BY <2>2, <2>3, <2>6, <2>8, <2>9, Single
  <2> QED
    BY <2>3, <2>10
<1>4. CASE Takers(z, m) = {} /\ z.peer[b].session = "none"
  <2>1. y = Fail(z, m)
    BY <1>4 DEF HandOver
  <2>2. /\ Answered(z, y, m, "sent", "failed") /\ y.peer = z.peer /\ y.waiters = z.waiters
        /\ y.records = z.records /\ y.steers = z.steers /\ y.call = z.call
        /\ y.drafts = z.drafts /\ y.shown = z.shown
    BY <1>1, <2>1, Failing
  <2>3. Delivers(x, y, {m})
    BY <1>2, <2>2, Marked
  <2> QED
    BY <2>2, <2>3 DEF Answered
<1>5. CASE Takers(z, m) = {} /\ z.peer[b].session = "disposed"
  <2>0. y = [z EXCEPT !.msg[m].st = "failing"]
    BY <1>5 DEF HandOver
  <2> DEFINE n == [z.msg[m] EXCEPT !.st = "failing"]
  <2>1. z.msg \in [Msgs -> Letters]
    BY <1>1, Fields
  <2>2. /\ n \in Letters /\ n.st = "failing" /\ n.receipt = z.msg[m].receipt
        /\ n.from = z.msg[m].from /\ n.to = z.msg[m].to /\ n.call = z.msg[m].call
    <3>1. z.msg[m] \in Letters
      BY <2>1
    <3> QED
      BY ONLY <3>1 DEF Letters
  <2>3. y = [z EXCEPT !.msg = [z.msg EXCEPT ![m] = n]]
    BY <1>1, <2>0 DEF World
  <2> HIDE DEF n
  <2>4. [z.msg EXCEPT ![m] = n] \in [Msgs -> Letters]
    BY <2>1, <2>2
  <2>5. /\ y \in World /\ y.msg = [z.msg EXCEPT ![m] = n] /\ y.mailbox = z.mailbox
        /\ y.peer = z.peer /\ y.waiters = z.waiters /\ y.records = z.records
        /\ y.steers = z.steers /\ y.call = z.call /\ y.drafts = z.drafts /\ y.shown = z.shown
    BY ONLY <1>1, <2>3, <2>4 DEF World
  <2>6. z.msg[m].receipt = "none"
    BY DEF Written
  <2>7. Answered(z, y, m, "failing", "none")
    BY <2>1, <2>2, <2>5, <2>6 DEF Answered
  <2>8. Delivers(x, y, {m})
    BY <1>2, <2>5, <2>7, Marked
  <2> QED
    BY <2>7, <2>8 DEF Answered
<1>6. CASE Takers(z, m) = {} /\ z.peer[b].session = "live"
  <2>1. y = Deliver(z, m)
    BY <1>6 DEF HandOver
  <2>2. Delivers(x, y, {m}) /\ Same
    BY <1>6, <2>1, Delivering
  <2> QED
    BY <2>2
<1> QED
  BY <1>1, <1>3, <1>4, <1>5, <1>6 DEF Peers

Addressed(y, m, from, to, c) ==
    y.msg[m].from = from /\ y.msg[m].to = to /\ y.msg[m].call = c

\* A send up to its first await has a lawful outcome.
LEMMA PostIs ==
    ASSUME NEW x, Base(x), NEW m \in Msgs, x.msg[m].st = "unsent", NEW from \in Agents,
           NEW to \in Agents, NEW c \in Calls \cup {None}, NEW expects \in BOOLEAN,
           NEW y, y = Post(x, m, from, to, c, expects)
    PROVE  Delivers(x, y, {m}) /\ Addressed(y, m, from, to, c)
<1> DEFINE n == [st |-> "gate", from |-> from, to |-> to, call |-> c, expects |-> expects,
                 receipt |-> "none"]
           z == [x EXCEPT !.msg[m] = n]
<1>1. x \in World /\ x.msg \in [Msgs -> Letters]
  BY Fields DEF Base
<1>2. /\ n \in Letters /\ n.st = "gate" /\ n.from = from /\ n.to = to /\ n.call = c
      /\ n.receipt = "none"
  BY DEF Letters
<1>3. y = IF x.peer[to].status = "gone" THEN Fail(z, m)
          ELSE IF Gated(x.peer[to]) THEN z
          ELSE HandOver(z, m)
  BY DEF Post
<1> HIDE DEF n
<1>4. z = [x EXCEPT !.msg = [x.msg EXCEPT ![m] = n]] /\ [x.msg EXCEPT ![m] = n] \in [Msgs -> Letters]
  BY <1>1, <1>2 DEF World
<1> HIDE DEF z
<1>5. /\ z \in World /\ z.msg = [x.msg EXCEPT ![m] = n] /\ z.mailbox = x.mailbox
      /\ z.peer = x.peer /\ z.waiters = x.waiters /\ z.records = x.records
      /\ z.steers = x.steers /\ z.call = x.call /\ z.drafts = x.drafts /\ z.shown = x.shown
  BY ONLY <1>1, <1>4 DEF World
<1>6. z.msg[m] = n /\ \A k \in Msgs \ {m} : z.msg[k] = x.msg[k]
  BY <1>1, <1>5
<1>7. Written(x, z, m)
  BY <1>2, <1>5, <1>6 DEF Written, Routed
<1>8. CASE y = Fail(z, m)
  <2>2. /\ Answered(z, y, m, "sent", "failed") /\ y.peer = z.peer /\ y.waiters = z.waiters
        /\ y.records = z.records /\ y.steers = z.steers /\ y.call = z.call
        /\ y.drafts = z.drafts /\ y.shown = z.shown
    BY <1>5, <1>8, Failing
  <2>3. Delivers(x, y, {m})
    BY <1>5, <1>7, <2>2, Marked
  <2> QED
    BY <1>2, <1>6, <2>2, <2>3 DEF Answered, Addressed
<1>9. CASE y = z
  <2>1. Answered(z, y, m, "gate", "none")
    BY <1>2, <1>5, <1>6, <1>9 DEF Answered
  <2>2. Delivers(x, y, {m})
    BY <1>5, <1>7, <1>9, <2>1, Marked
  <2> QED
    BY <1>2, <1>6, <1>9, <2>2 DEF Addressed
<1>10. CASE y = HandOver(z, m)
  BY <1>2, <1>6, <1>7, <1>10, HandOverIs DEF Addressed
<1> QED
  BY <1>3, <1>8, <1>9, <1>10

\* An outcome is told by the message and what is its recipient's.
LEMMA SameOutcome ==
    ASSUME NEW x, NEW u, NEW y, NEW m, Outcome(x, u, m), NEW b, u.msg[m].to = b,
           y.msg[m] = u.msg[m], y.shown[m] = u.shown[m], y.peer[b] = u.peer[b],
           y.waiters[b] = u.waiters[b], y.records[b] = u.records[b], y.steers[b] = u.steers[b],
           \A d \in Calls : x.call[d].by = b => y.call[d] = u.call[d]
    PROVE  Outcome(x, y, m)
<1>1. Routed(x, y, m) /\ Woken(x, y, b)
  BY DEF Outcome, Routed, Woken
<1>2. Unheard(x, u, m, b) => Unheard(x, y, m, b)
  BY DEF Unheard, Alone, Receipt
<1>3. Told(x, u, m, b) => Told(x, y, m, b)
  BY DEF Told, Alone, Receipt
<1>4. Steered(x, u, m, b) => Steered(x, y, m, b)
  BY DEF Steered, Receipt
<1>5. Recorded(x, u, m, b) => Recorded(x, y, m, b)
  BY DEF Recorded, Receipt
<1>6. ASSUME Taken(x, u, m, b) PROVE Taken(x, y, m, b)
  <2>1. PICK c \in Calls : /\ Takes(x, u, m, c) /\ u.waiters[b] = Without(x.waiters[b], {c})
                           /\ \A d \in Calls \ {c} : x.call[d].by = b => u.call[d] = x.call[d]
    BY <1>6 DEF Taken
  <2>2. y.call[c] = u.call[c]
    BY <2>1 DEF Takes
  <2>3. Takes(x, y, m, c)
    BY <2>1, <2>2 DEF Takes
  <2>4. /\ y.waiters[b] = Without(x.waiters[b], {c})
        /\ \A d \in Calls \ {c} : x.call[d].by = b => y.call[d] = x.call[d]
    BY <2>1
  <2>5. Receipt(x, y, m, "ok", 0) /\ y.records[b] = x.records[b] /\ y.steers[b] = x.steers[b]
    BY <1>6 DEF Taken, Receipt
  <2> QED
    BY <2>3, <2>4, <2>5 DEF Taken
<1> QED
  BY <1>1, <1>2, <1>3, <1>4, <1>5, <1>6 DEF Outcome

\* A send of a call that does not wait.
LEMMA PlainPost ==
    ASSUME NEW x, Base(x), NEW m \in Msgs, x.msg[m].st = "unsent", NEW from \in Agents,
           NEW to \in Agents, NEW c \in Calls, NEW y, y = Post(x, m, from, to, c, FALSE)
    PROVE  Delivers(x, y, {m}) /\ Addressed(y, m, from, to, c)
<1>1. c \in Calls \cup {None}
  OBVIOUS
<1>2. \A e \in BOOLEAN : y = Post(x, m, from, to, c, e) 
         => Delivers(x, y, {m}) /\ Addressed(y, m, from, to, c)
  BY <1>1, PostIs
<1> QED
  BY <1>2

\* The sends of a broadcast have lawful outcomes.
LEMMA PostAllIs ==
    ASSUME NEW x, Base(x), NEW a \in Agents, NEW c \in Calls, NEW A \in SUBSET Agents,
           NEW letter \in Injection(A, Msgs), \A b \in A : x.msg[letter[b]].st = "unsent",
           NEW y, y = PostAll(x, letter, a, c)
    PROVE  Delivers(x, y, {letter[b] : b \in A})
<1>0. ASSUME NEW b \in Agents, NEW m \in Msgs, x.msg[m].st = "unsent",
             NEW u, u = Post(x, m, a, b, c, FALSE)
      PROVE  Delivers(x, u, {m}) /\ u.msg[m].to = b
  <2>1. Delivers(x, u, {m}) /\ Addressed(u, m, a, b, c)
    BY <1>0, PlainPost
  <2> QED
    BY <2>1 DEF Addressed
<1> DEFINE ms == {letter[b] : b \in A}
           leg(b) == IF b \in DOMAIN letter THEN Post(x, letter[b], a, b, c, FALSE) ELSE x
           to(m) == IF m \in Range(letter) THEN CHOOSE b \in DOMAIN letter : letter[b] = m
                    ELSE None
           peer1 == [b \in Agents |-> leg(b).peer[b]]
           waiters1 == [b \in Agents |-> leg(b).waiters[b]]
           records1 == [b \in Agents |-> leg(b).records[b]]
           steers1 == [b \in Agents |-> leg(b).steers[b]]
           msg1 == [m \in Msgs |-> leg(to(m)).msg[m]]
           shown1 == [m \in Msgs |-> leg(to(m)).shown[m]]
           call1 == [d \in Calls |-> leg(x.call[d].by).call[d]]
<1>1. /\ letter \in [A -> Msgs] /\ DOMAIN letter = A /\ Range(letter) = ms /\ ms \subseteq Msgs
      /\ \A b, e \in A : letter[b] = letter[e] => b = e
  BY DEF Injection, IsInjective, Range
<1>2. y = [x EXCEPT !.peer = peer1, !.waiters = waiters1, !.records = records1,
                    !.steers = steers1, !.msg = msg1, !.shown = shown1, !.call = call1]
  BY DEF PostAll
<1>3. ASSUME NEW b \in A
      PROVE  /\ leg(b) = Post(x, letter[b], a, b, c, FALSE) /\ to(letter[b]) = b
             /\ Delivers(x, leg(b), {letter[b]}) /\ leg(b).msg[letter[b]].to = b
  <2>1. leg(b) = Post(x, letter[b], a, b, c, FALSE)
    BY <1>1
  <2>2. letter[b] \in Msgs /\ b \in Agents
    BY <1>1
  <2>3. Delivers(x, leg(b), {letter[b]}) /\ leg(b).msg[letter[b]].to = b
    BY <1>0, <2>1, <2>2
  <2>4. to(letter[b]) = b
    BY <1>1
  <2> QED
    BY <2>1, <2>3, <2>4
<1>4. \A b : b \notin A => leg(b) = x
  BY <1>1
<1>5. \A m \in Msgs \ ms : leg(to(m)) = x
  <2>1. \A m \in Msgs \ ms : to(m) = None
    BY <1>1
  <2>2. None \notin A
    BY Bounds
  <2> HIDE DEF to, leg
  <2> QED
    BY <1>4, <2>1, <2>2
<1> HIDE DEF leg, to
<1>6. x \in World /\ \A b : leg(b) \in World
  BY <1>3, <1>4 DEF Delivers, Base
<1>7. /\ peer1 \in [Agents -> Peers] /\ waiters1 \in [Agents -> Seq(Calls)]
      /\ records1 \in [Agents -> Seq(Msgs)] /\ steers1 \in [Agents -> SUBSET Msgs]
      /\ msg1 \in [Msgs -> Letters] /\ shown1 \in [Msgs -> Nat] /\ call1 \in [Calls -> HubCalls]
  <2>1. \A b : /\ leg(b).peer \in [Agents -> Peers] /\ leg(b).msg \in [Msgs -> Letters]
               /\ leg(b).waiters \in [Agents -> Seq(Calls)] /\ leg(b).records \in [Agents -> Seq(Msgs)]
               /\ leg(b).steers \in [Agents -> SUBSET Msgs] /\ leg(b).call \in [Calls -> HubCalls]
               /\ leg(b).shown \in [Msgs -> Nat]
    BY <1>6, Fields
  <2> QED
    BY <2>1
<1>8. /\ \A b \in Agents : /\ peer1[b] = leg(b).peer[b] /\ waiters1[b] = leg(b).waiters[b]
                           /\ records1[b] = leg(b).records[b] /\ steers1[b] = leg(b).steers[b]
      /\ \A m \in Msgs : msg1[m] = leg(to(m)).msg[m] /\ shown1[m] = leg(to(m)).shown[m]
      /\ \A d \in Calls : call1[d] = leg(x.call[d].by).call[d]
  OBVIOUS
<1> HIDE DEF peer1, waiters1, records1, steers1, msg1, shown1, call1
<1>9. /\ y \in World /\ y.mailbox = x.mailbox /\ y.drafts = x.drafts /\ y.peer = peer1
      /\ y.waiters = waiters1 /\ y.records = records1 /\ y.steers = steers1
      /\ y.msg = msg1 /\ y.shown = shown1 /\ y.call = call1
  BY ONLY <1>2, <1>6, <1>7 DEF World
<1>10. \A n \in Msgs \ ms : y.msg[n] = x.msg[n] /\ y.shown[n] = x.shown[n]
  BY <1>5, <1>8, <1>9
<1>11. ASSUME NEW b \in A
       PROVE  Outcome(x, y, letter[b]) /\ y.msg[letter[b]].to = b
  <2>1. b \in Agents /\ letter[b] \in Msgs /\ to(letter[b]) = b
    BY <1>1, <1>3
  <2>2. Outcome(x, leg(b), letter[b]) /\ leg(b).msg[letter[b]].to = b
    BY <1>3 DEF Delivers
  <2>3. /\ y.msg[letter[b]] = leg(b).msg[letter[b]] /\ y.shown[letter[b]] = leg(b).shown[letter[b]]
        /\ y.peer[b] = leg(b).peer[b] /\ y.waiters[b] = leg(b).waiters[b]
        /\ y.records[b] = leg(b).records[b] /\ y.steers[b] = leg(b).steers[b]
        /\ \A d \in Calls : x.call[d].by = b => y.call[d] = leg(b).call[d]
    BY <1>8, <1>9, <2>1
  <2> QED
    BY <2>2, <2>3, SameOutcome
<1>12. \A b \in Agents \ A : y.peer[b] = x.peer[b] /\ Alone(x, y, b)
  BY <1>4, <1>8, <1>9 DEF Alone
<1>13. \A d \in Calls : x.call[d].by \notin Agents => y.call[d] = x.call[d]
  BY <1>4, <1>8, <1>9
<1>14. \A m \in ms : Outcome(x, y, m)
  BY <1>11
<1>15. \A m, n \in ms : y.msg[m].to = y.msg[n].to => m = n
  BY <1>11
<1>16. \A b \in Agents : (\A m \in ms : y.msg[m].to # b) => y.peer[b] = x.peer[b] /\ Alone(x, y, b)
  BY <1>11, <1>12
<1> QED
  BY <1>1, <1>9, <1>10, <1>13, <1>14, <1>15, <1>16 DEF Delivers

\* What is to be shown of a step that sends: the calls that await a reply have their legs.
LEMMA SentOn ==
    ASSUME NEW x, NEW z, NEW y, NEW ms, Base(z), Still(x, z), Hopeful(z), Delivers(z, y, ms),
           \A c \in Calls : z.call[c].op = "send" /\ z.call[c].from # None => Leg(z, c) \/ Leg(y, c)
    PROVE  Good(y) /\ Lawful(x, y)
<1>1. /\ Base(y) /\ Lawful(z, y) /\ Hopeful(y)
      /\ \A c \in Calls : y.call[c].op = z.call[c].op /\ y.call[c].from = z.call[c].from
                          /\ (Leg(z, c) /\ z.call[c].by \in Agents => Leg(y, c))
  BY DeliveriesKeep
<1>2. Lawful(x, y)
  BY <1>1, StillThen
<1>3. \A c \in Calls : z.call[c].op = "send" => z.call[c].by \in Agents
  BY DEF Base, CallsKnown
<1>4. SendsKnown(y)
  BY <1>1, <1>3 DEF SendsKnown
<1> QED
  BY <1>1, <1>2, <1>4 DEF Good

\* A step that does nothing to the messages.
LEMMA StillArrives ==
    ASSUME IInv, NEW y, Becomes(y), Still(Now, y), Good(y)
    PROVE  Arrives
<1>1. Lawful(Now, y)
  BY StillKeeps, Fields DEF IInv, Good, Base
<1> QED
  BY <1>1 DEF Arrives

\* The fields of the present state.
LEMMA NowIs ==
    /\ Now.peer = peer /\ Now.msg = msg /\ Now.mailbox = mailbox /\ Now.waiters = waiters
    /\ Now.records = records /\ Now.steers = steers /\ Now.call = call
    /\ Now.drafts = drafts /\ Now.shown = shown
BY DEF Now

\* A state and itself.
LEMMA OwnStill == \A x : Still(x, x)
BY DEF Still

\* A message at the gate has been written.
LEMMA AtTheGate ==
    ASSUME NEW x, Base(x), NEW m \in Msgs, x.msg[m].st = "gate"
    PROVE  Written(x, x, m) /\ x.msg[m].to \in Agents /\ x.msg[m].from \in Agents
<1>1. x.msg[m].receipt = "none" /\ x.msg[m].to \in Agents /\ x.msg[m].from \in Agents /\ x \in World
  BY DEF Base, LettersKnown
<1> QED
  BY <1>1 DEF Written, Routed

\* A send that failed before the hand-over.
LEMMA FailIs ==
    ASSUME NEW x, Base(x), NEW m \in Msgs, x.msg[m].st = "gate", NEW y, y = Fail(x, m)
    PROVE  Delivers(x, y, {m})
<1>1. Written(x, x, m) /\ x \in World
  BY AtTheGate DEF Base
<1>2. /\ Answered(x, y, m, "sent", "failed") /\ y.peer = x.peer /\ y.waiters = x.waiters
      /\ y.records = x.records /\ y.steers = x.steers /\ y.call = x.call
      /\ y.drafts = x.drafts /\ y.shown = x.shown
  BY <1>1, Failing
<1> QED
  BY <1>1, <1>2, Marked

\* The gate opens: the agent was live, was revived, or is gone.
LEMMA GateOpensArrives == ASSUME IInv, NEW m \in Msgs, GateOpens(m) PROVE Arrives
<1> DEFINE b == msg[m].to
<1>1. /\ Good(Now) /\ Base(Now) /\ Now.msg[m].st = "gate" /\ Hopeful(Now) /\ SendsKnown(Now)
      /\ Now \in World
  BY NowIs DEF IInv, Good, GateOpens, Base
<1>2. Now.msg[m].to \in Agents /\ Written(Now, Now, m) /\ b = Now.msg[m].to
  BY <1>1, AtTheGate, NowIs
<1>3. \A y, z : Base(z) /\ Still(Now, z) /\ Hopeful(z) /\ SendsKnown(z) /\ Delivers(z, y, {m})
                /\ Becomes(y) => Arrives
  <2> SUFFICES ASSUME NEW y, NEW z, Base(z), Still(Now, z), Hopeful(z), SendsKnown(z),
                      Delivers(z, y, {m}), Becomes(y)
               PROVE  Arrives
    OBVIOUS
  <2>1. Good(y) /\ Lawful(Now, y)
    BY SentOn DEF SendsKnown
  <2> QED
    BY <2>1 DEF Arrives
<1>4. CASE peer[b].status = "gone"
  <2> DEFINE y == Fail(Now, m)
  <2>1. Becomes(y)
    BY <1>4 DEF GateOpens
  <2>2. Delivers(Now, y, {m})
    BY <1>1, FailIs
  <2> HIDE DEF y
  <2> QED
    BY <1>1, <1>3, <2>1, <2>2, OwnStill
<1>5. CASE peer[b].status # "gone" /\ peer[b].session # "none"
  <2> DEFINE y == HandOver(Now, m)
  <2>1. Becomes(y)
    BY <1>5 DEF GateOpens
  <2>2. Delivers(Now, y, {m})
    BY <1>1, <1>2, HandOverIs
  <2> HIDE DEF y
  <2> QED
    BY <1>1, <1>3, <2>1, <2>2, OwnStill
<1>6. CASE peer[b].status # "gone" /\ peer[b].session = "none"
  <2> DEFINE p == [Now.peer[b] EXCEPT !.session = "live", !.status = "idle", !.adopted = TRUE]
             z == [Now EXCEPT !.peer[b] = p]
             y == HandOver(z, m)
  <2>1. Becomes(y)
    BY <1>6 DEF GateOpens
  <2>2. Now.peer[b] \in Peers /\ Now.peer[b].status # "running"
    BY <1>1, <1>2, <1>6, NowIs, Fields DEF Base, PeersKnown
  <2>3. p \in Peers /\ p.session = "live" /\ p.status = "idle"
    BY ONLY <2>2 DEF Peers
  <2> HIDE DEF p
  <2>4. z = WithRow(Now, b, p)
    BY DEF WithRow
  <2> HIDE DEF z, y
  <2>9. RowKnown(p) /\ Stays(Now, b, p)
    BY <2>2, <2>3 DEF RowKnown, Stays
  <2>5. Base(z) /\ Still(Now, z) /\ SendsKnown(z) /\ Hopeful(z)
    BY <1>1, <1>2, <2>3, <2>4, <2>9, NowIs, RowChanges
  <2>6. z.msg[m].st = "gate"
    BY <1>1, <2>5 DEF Still
  <2>7. Written(z, z, m)
    BY <2>5, <2>6, AtTheGate
  <2>8. Delivers(z, y, {m})
    BY <2>5, <2>7, HandOverIs DEF y
  <2> QED
    BY <1>3, <2>1, <2>5, <2>8
<1> QED
  BY <1>4, <1>5, <1>6

\* The gate throws.
LEMMA ReviveFailsArrives == ASSUME IInv, NEW m \in Msgs, ReviveFails(m) PROVE Arrives
<1> DEFINE y == Fail(Now, m)
<1>1. /\ Base(Now) /\ Now.msg[m].st = "gate" /\ Hopeful(Now) /\ SendsKnown(Now)
  BY NowIs DEF IInv, Good, ReviveFails
<1>2. Becomes(y)
  BY DEF ReviveFails
<1>3. Delivers(Now, y, {m})
  BY <1>1, FailIs
<1> HIDE DEF y
<1>4. Good(y) /\ Lawful(Now, y)
  BY <1>1, <1>3, OwnStill, SentOn DEF SendsKnown
<1> QED
  BY <1>2, <1>4 DEF Arrives

\* deliver threw: the message is kept, and the oldest of the mailbox may go.
LEMMA HandOverFailsArrives == ASSUME IInv, NEW m \in Msgs, HandOverFails(m) PROVE Arrives
<1> DEFINE x == Now
           b == x.msg[m].to
           z == Fail(x, m)
           q == Capped(Append(x.mailbox[b], m))
           y == [z EXCEPT !.mailbox[b] = q]
<1>1. /\ Base(x) /\ SendsKnown(x) /\ Hopeful(x) /\ x \in World /\ x.msg[m].st = "failing"
      /\ \A f : x.mailbox[f] = mailbox[f]
  BY NowIs DEF IInv, Good, Base, HandOverFails
<1>2. b = x.msg[m].to /\ b \in Agents /\ x.msg[m].receipt = "none" /\ x.shown[m] = 0 /\ x.msg[m].from \in Agents
  BY <1>1 DEF Base, LettersKnown
<1>3. /\ Answered(x, z, m, "sent", "failed") /\ z.peer = x.peer /\ z.waiters = x.waiters
      /\ z.records = x.records /\ z.steers = x.steers /\ z.call = x.call
      /\ z.drafts = x.drafts /\ z.shown = x.shown
  BY <1>1, Failing
<1>4. /\ z \in World /\ z.mailbox = x.mailbox /\ \A n \in Msgs \ {m} : z.msg[n] = x.msg[n]
      /\ z.msg[m].st = "sent" /\ z.msg[m].receipt = "failed" /\ z.msg[m].from = x.msg[m].from
      /\ z.msg[m].to = b /\ z.msg[m].call = x.msg[m].call
  BY <1>3 DEF Answered
<1>5. Becomes(y)
  BY <1>4, NowIs DEF HandOverFails
<1>6. x.mailbox \in [Agents -> Seq(Msgs)] /\ x.mailbox[b] \in Seq(Msgs)
  BY <1>1, <1>2, Fields
<1>7. Len(x.mailbox[b]) <= MailboxCap /\ Len(x.mailbox[b]) \in Nat /\ MailboxCap \in Nat
  BY <1>1, <1>2, <1>6, BoundsAssumption, LenProperties DEF Base, PlacesKnown
<1>8. q \in Seq(Msgs) /\ ToSet(q) \subseteq ToSet(x.mailbox[b]) \cup {m} /\ Len(q) <= MailboxCap
  <2> DEFINE r == Append(x.mailbox[b], m)
  <2>1. r \in Seq(Msgs) /\ ToSet(r) = ToSet(x.mailbox[b]) \cup {m} /\ Len(r) = Len(x.mailbox[b]) + 1
    BY <1>6, Pushed
  <2>2. Len(r) <= MailboxCap + 1
    BY <1>7, <2>1
  <2>3. q = Capped(r)
    OBVIOUS
  <2> HIDE DEF r, q
  <2> QED
    BY <2>1, <2>2, <2>3, Capping
<1> HIDE DEF x, z, q
<1>9. y = [z EXCEPT !.mailbox = [x.mailbox EXCEPT ![b] = q]]
  BY <1>4 DEF World
<1> HIDE DEF y, b
<1>10. [x.mailbox EXCEPT ![b] = q] \in [Agents -> Seq(Msgs)]
  BY <1>6, <1>8
<1>11. /\ y \in World /\ y.mailbox = [x.mailbox EXCEPT ![b] = q] /\ y.peer = z.peer
       /\ y.waiters = z.waiters /\ y.records = z.records /\ y.steers = z.steers
       /\ y.call = z.call /\ y.drafts = z.drafts /\ y.shown = z.shown /\ y.msg = z.msg
  BY ONLY <1>4, <1>9, <1>10 DEF World
<1>12. y.mailbox[b] = q /\ \A a \in Agents \ {b} : y.mailbox[a] = x.mailbox[a]
  BY <1>2, <1>6, <1>11
<1>13. \A a \in Agents : /\ ToSet(x.mailbox[a]) \subseteq Msgs /\ ToSet(x.records[a]) \subseteq Msgs
                         /\ x.steers[a] \subseteq Msgs
  BY <1>1, Fields, SetOf
<1>14. \A n \in Msgs, a \in Agents, r \in {"ok", "failed"} :
           Lies(x, n, a, r) => n # m /\ Lies(y, n, a, r) /\ y.msg[n] = x.msg[n]
  BY <1>1, <1>3, <1>4, <1>11 DEF Lies
<1>15. PeersKnown(y) /\ CallsKnown(y) /\ WaitersKnown(y)
  BY <1>1, <1>3, <1>11 DEF Base, PeersKnown, CallsKnown, WaitersKnown, Parked
<1>16. LettersKnown(y)
  BY <1>1, <1>2, <1>3, <1>4, <1>11 DEF Base, LettersKnown
<1>17. PlacesKnown(y)
  <2>1. ASSUME NEW a \in Agents, NEW n \in ToSet(y.mailbox[a]) PROVE Lies(y, n, a, "failed")
    <3>1. CASE n \in ToSet(x.mailbox[a])
      <4>1. n \in Msgs /\ Lies(x, n, a, "failed")
        BY <1>1, <1>13, <3>1 DEF Base, PlacesKnown
      <4> QED
        BY <1>14, <4>1
    <3>2. CASE n \notin ToSet(x.mailbox[a])
      <4>1. n = m /\ a = b
        BY <1>8, <1>12, <2>1, <3>2
      <4> QED
        BY <1>2, <1>3, <1>4, <1>11, <4>1 DEF Lies
    <3> QED
      BY <3>1, <3>2
  <2>2. \A a \in Agents : Len(y.mailbox[a]) <= MailboxCap
    BY <1>1, <1>8, <1>12 DEF Base, PlacesKnown
  <2>3. \A a \in Agents : /\ \A n \in ToSet(x.records[a]) : n \in Msgs /\ Lies(x, n, a, "ok") /\ x.msg[n].from # Root
                          /\ \A n \in x.steers[a] : n \in Msgs /\ Lies(x, n, a, "ok") /\ x.msg[n].from = Root
    BY <1>1, <1>13 DEF Base, PlacesKnown
  <2>4. \A a \in Agents : /\ \A n \in ToSet(y.records[a]) : Lies(y, n, a, "ok") /\ y.msg[n].from # Root
                          /\ \A n \in y.steers[a] : Lies(y, n, a, "ok") /\ y.msg[n].from = Root
    BY <1>3, <1>11, <1>14, <2>3
  <2> QED
    BY <2>1, <2>2, <2>4 DEF PlacesKnown
<1>18. \A n \in Msgs \ {m} : \A a \in Agents : Holds(y, a, n) => Holds(x, a, n)
  <2>1. \A a \in Agents : ToSet(y.mailbox[a]) \subseteq ToSet(x.mailbox[a]) \cup {m}
    BY <1>8, <1>12
  <2> QED
    BY <1>3, <1>11, <2>1 DEF Holds
<1>19. ~Somewhere(x, m)
  BY <1>1, Nowhere
<1>20. GotKnown(y)
  <2> SUFFICES ASSUME NEW c \in Calls, NEW n, n = x.call[c].got, n # None
               PROVE  /\ Lies(y, n, x.call[c].by, y.msg[n].receipt)
                      /\ x.call[c].op = "send" => y.msg[n].receipt = "ok" /\ y.msg[n].from = x.call[c].from
                      /\ \A d \in Calls : x.call[d].got = n => d = c
                      /\ \A a \in Agents : ~Holds(y, a, n)
    BY <1>3, <1>11 DEF GotKnown
  <2>1. n \in Msgs /\ n # m
    BY <1>1, <1>19, Fields DEF HubCalls, Somewhere
  <2>2. y.msg[n] = x.msg[n] /\ y.shown[n] = x.shown[n]
    BY <1>3, <1>4, <1>11, <2>1
  <2> QED
    <3>1. /\ Lies(x, n, x.call[c].by, x.msg[n].receipt)
          /\ x.call[c].op = "send" => x.msg[n].receipt = "ok" /\ x.msg[n].from = x.call[c].from
          /\ \A d \in Calls : x.call[d].got = n => d = c
          /\ \A a \in Agents : ~Holds(x, a, n)
      BY <1>1 DEF Base, GotKnown
    <3>2. \A a \in Agents : ~Holds(y, a, n)
      BY <1>18, <2>1, <3>1
    <3> QED
      BY <2>2, <3>1, <3>2 DEF Lies
<1>21. DraftsKnown(y)
  BY <1>1, <1>3, <1>4, <1>11, Fields DEF Base, DraftsKnown
<1>22. Base(y)
  BY <1>11, <1>15, <1>16, <1>17, <1>20, <1>21 DEF Base
<1>23. SendsKnown(y) /\ Hopeful(y)
  <2>1. \A c \in Calls : Leg(x, c) => Leg(y, c)
    BY <1>2, <1>3, <1>4, <1>11 DEF Leg
  <2> QED
    BY <1>1, <1>3, <1>11, <2>1 DEF SendsKnown, Hopeful, Hope, RunningPeers
<1>24. Lawful(x, y)
  <2>1. Sends(x, y, m)
    BY <1>1, <1>2, <1>3, <1>4, <1>11 DEF Sends
  <2>2. ASSUME NEW n \in Msgs \ {m} PROVE Rests(x, y, n)
    <3>1. y.msg[n] = x.msg[n] /\ y.shown[n] = x.shown[n]
      BY <1>3, <1>4, <1>11
    <3>2. Somewhere(y, n) => Somewhere(x, n)
      BY <1>3, <1>11, <1>18 DEF Somewhere
    <3>3. ASSUME Somewhere(x, n), ~Somewhere(y, n) PROVE x.msg[n].receipt # "ok"
      <4>1. PICK a \in Agents : Holds(x, a, n)
        BY <1>3, <1>11, <3>3 DEF Somewhere
      <4>2. n \in ToSet(x.mailbox[a])
        BY <1>3, <1>11, <3>3, <4>1 DEF Somewhere, Holds
      <4> QED
        BY <1>1, <4>2 DEF Base, PlacesKnown, Lies
    <3> QED
      BY <3>1, <3>2, <3>3 DEF Rests
  <2> QED
    BY <2>1, <2>2 DEF Lawful
<1> QED
  BY <1>5, <1>22, <1>23, <1>24 DEF Arrives, Good, x

\* A side-channel answer is over.
LEMMA DraftsChange ==
    ASSUME NEW x, Base(x), NEW D \in SUBSET x.drafts, NEW y, y = [x EXCEPT !.drafts = D]
    PROVE  /\ Base(y) /\ Still(x, y) /\ (SendsKnown(x) => SendsKnown(y))
           /\ (Hopeful(x) => Hopeful(y))
<1>1. x \in World /\ D \in SUBSET Msgs
  BY Fields DEF Base
<1>2. /\ y \in World /\ y.peer = x.peer /\ y.msg = x.msg /\ y.mailbox = x.mailbox
      /\ y.waiters = x.waiters /\ y.records = x.records /\ y.steers = x.steers
      /\ y.call = x.call /\ y.drafts = D /\ y.shown = x.shown
  BY <1>1 DEF World
<1>3. Still(x, y)
  BY <1>2 DEF Still
<1>4. PeersKnown(y) /\ CallsKnown(y) /\ WaitersKnown(y) /\ GotKnown(y)
  <2>1. PeersKnown(y) /\ CallsKnown(y)
    BY <1>2 DEF Base, PeersKnown, CallsKnown
  <2>2. WaitersKnown(y)
    BY <1>2 DEF Base, WaitersKnown, Parked
  <2>3. GotKnown(y)
    BY <1>2 DEF Base, GotKnown, Lies, Holds
  <2> QED
    BY <2>1, <2>2, <2>3
<1>5. Base(y)
  BY <1>2, <1>3, <1>4, StillKeeps DEF Base
<1> QED
  BY <1>2, <1>3, <1>5 DEF SendsKnown, Leg, Hopeful, Hope, RunningPeers

\* An answer that comes to nothing.
LEMMA AutoReplyFailsArrives == ASSUME IInv, NEW m \in Msgs, AutoReplyFails(m) PROVE Arrives
<1> DEFINE y == [Now EXCEPT !.drafts = Now.drafts \ {m}]
<1>1. Becomes(y)
  BY NowIs DEF AutoReplyFails
<1>2. Base(Now) /\ SendsKnown(Now) /\ Hopeful(Now)
  BY DEF IInv, Good
<1>3. Base(y) /\ Still(Now, y) /\ SendsKnown(y) /\ Hopeful(y)
  BY <1>2, DraftsChange
<1> HIDE DEF y
<1> QED
  BY <1>1, <1>3, StillArrives DEF Good

\* An answer that is sent.
LEMMA AutoReplyArrives ==
    ASSUME IInv, NEW m \in Msgs, NEW r \in Msgs, AutoReply(m, r) PROVE Arrives
<1> DEFINE z == [Now EXCEPT !.drafts = Now.drafts \ {m}]
           y == Post(z, r, msg[m].to, msg[m].from, None, FALSE)
<1>1. Becomes(y)
  BY NowIs DEF AutoReply
<1>2. Base(Now) /\ SendsKnown(Now) /\ Hopeful(Now)
  BY DEF IInv, Good
<1>3. Base(z) /\ Still(Now, z) /\ SendsKnown(z) /\ Hopeful(z)
  BY <1>2, DraftsChange
<1>4. msg[m].to \in Agents /\ msg[m].from \in Agents /\ msg[r].st = "unsent"
  <2>1. msg[m].st # "unsent" /\ msg[r].st = "unsent"
    BY <1>2, NowIs DEF AutoReply, Base, DraftsKnown, Writes, Unsent
  <2> QED
    BY <1>2, <2>1, NowIs DEF Base, LettersKnown
<1>5. z.msg[r].st = "unsent"
  BY <1>3, <1>4, NowIs DEF Still
<1> HIDE DEF z
<1>6. \A e \in BOOLEAN : y = Post(z, r, msg[m].to, msg[m].from, None, e) => Delivers(z, y, {r})
  <2> HIDE DEF y
  <2>1. None \in Calls \cup {None}
    OBVIOUS
  <2> QED
    BY <1>3, <1>4, <1>5, <2>1, PostIs
<1>7. Delivers(z, y, {r})
  BY <1>6
<1> HIDE DEF y
<1>8. Good(y) /\ Lawful(Now, y)
  BY <1>3, <1>7, SentOn DEF SendsKnown
<1> QED
  BY <1>1, <1>8 DEF Arrives

\* What CallsKnown says of one call.
CallKnown(k) ==
    /\ k.by \in Agents <=> k.op \in {"wait", "jobs", "send"}
    /\ k.op \in {"none", "done"} => k.wait = "no"
    /\ k.wait = "raced" => k.op = "jobs"
    /\ k.op \in {"wait", "jobs"} => k.wait # "no"
    /\ k.op = "send" => (k.from = None <=> k.wait = "no")
    /\ k.got # None <=> k.wait = "message"

\* A call with nothing in its hand goes on, and waits as before.
WaitsAs(x, c, k) == /\ k.wait \in {"parked", "raced"} <=> Parked(x, c)
                    /\ Parked(x, c) => k.by = x.call[c].by

\* A call that has nothing in its hand changes.
LEMMA CallChanges ==
    ASSUME NEW x, Base(x), NEW c \in Calls, NEW k \in HubCalls, CallKnown(k), k.op # "wait",
           k.got = None, x.call[c].got = None,
           WaitsAs(x, c, k),
           NEW y, y = [x EXCEPT !.call[c] = k]
    PROVE  /\ Base(y) /\ Still(x, y) /\ (Hopeful(x) => Hopeful(y)) /\ y.peer = x.peer
           /\ y.call[c] = k /\ \A d \in Calls \ {c} : y.call[d] = x.call[d]
           /\ \A d \in Calls \ {c} : Leg(x, d) => Leg(y, d)
<1>1. x \in World /\ x.call \in [Calls -> HubCalls]
  BY Fields DEF Base
<1>2. /\ y \in World /\ y.peer = x.peer /\ y.msg = x.msg /\ y.mailbox = x.mailbox
      /\ y.waiters = x.waiters /\ y.records = x.records /\ y.steers = x.steers
      /\ y.call = [x.call EXCEPT ![c] = k] /\ y.drafts = x.drafts /\ y.shown = x.shown
  BY <1>1 DEF World
<1>3. y.call[c] = k /\ \A d \in Calls \ {c} : y.call[d] = x.call[d]
  BY <1>1, <1>2
<1>4. Still(x, y)
  BY <1>2, <1>3 DEF Still
<1>5. PeersKnown(y)
  BY <1>2 DEF Base, PeersKnown
<1>6. CallsKnown(y)
  BY <1>3 DEF Base, CallsKnown, CallKnown
<1>7. GotKnown(y)
  BY <1>2, <1>3 DEF Base, GotKnown, Lies, Holds
<1>8. WaitersKnown(y)
  <2>1. \A d \in Calls : Parked(y, d) <=> Parked(x, d)
    BY <1>3 DEF Parked, WaitsAs
  <2>2. \A d \in Calls : Parked(x, d) => y.call[d].by = x.call[d].by
    BY <1>3 DEF WaitsAs
  <2>3. \A b \in Agents : ToSet(x.waiters[b]) \subseteq Calls
    BY <1>1, Fields, SetOf
  <2> QED
    BY <1>2, <2>1, <2>2, <2>3 DEF Base, WaitersKnown
<1>9. Base(y)
  BY <1>2, <1>4, <1>5, <1>6, <1>7, <1>8, StillKeeps DEF Base
<1>10. \A d \in Calls \ {c} : Leg(x, d) => Leg(y, d)
  BY <1>2, <1>3 DEF Leg
<1>11. Hopeful(x) => Hopeful(y)
  BY <1>2, <1>3 DEF Hopeful, Hope, RunningPeers
<1> QED
  BY <1>2, <1>3, <1>4, <1>9, <1>10, <1>11

\* A call that has not begun.
LEMMA Unopened ==
    ASSUME NEW x, Base(x), NEW c \in Calls, x.call[c].op = "none"
    PROVE  x.call[c].got = None /\ ~Parked(x, c) /\ x.call[c].wait = "no"
BY DEF Base, CallsKnown, Parked

\* A call that sends begins.
LEMMA SendOpens ==
    ASSUME NEW x, Base(x), Hopeful(x), SendsKnown(x), NEW c \in Calls, x.call[c].op = "none",
           NEW a \in Agents, NEW y, y = [x EXCEPT !.call[c] = [NoCall EXCEPT !.op = "send", !.by = a]]
    PROVE  /\ Base(y) /\ Still(x, y) /\ Hopeful(y) /\ SendsKnown(y)
<1> DEFINE k == [NoCall EXCEPT !.op = "send", !.by = a]
<1>1. /\ k \in HubCalls /\ k.op = "send" /\ k.by = a /\ k.from = None /\ k.wait = "no"
      /\ k.got = None
  BY DEF NoCall, HubCalls
<1>2. y = [x EXCEPT !.call[c] = k]
  OBVIOUS
<1> HIDE DEF k
<1>3. CallKnown(k)
  BY <1>1 DEF CallKnown
<1>4. x.call[c].got = None /\ WaitsAs(x, c, k) /\ k.op # "wait"
  BY <1>1, Unopened DEF WaitsAs
<1>5. /\ Base(y) /\ Still(x, y) /\ (Hopeful(x) => Hopeful(y)) /\ y.peer = x.peer
      /\ y.call[c] = k /\ \A d \in Calls \ {c} : y.call[d] = x.call[d]
      /\ \A d \in Calls \ {c} : Leg(x, d) => Leg(y, d)
  BY <1>1, <1>2, <1>3, <1>4, CallChanges, ZenonT(60)
<1>6. SendsKnown(y)
  BY <1>1, <1>5 DEF SendsKnown
<1> QED
  BY <1>5, <1>6

\* A send, which may park a waiter for its reply first.
LEMMA SendArrives ==
    ASSUME IInv, NEW c \in Calls, NEW a \in Agents, NEW b \in Agents, NEW await \in BOOLEAN,
           NEW m \in Msgs, Send(c, a, b, await, m)
    PROVE  Arrives
<1>1. Base(Now) /\ SendsKnown(Now) /\ Hopeful(Now)
  BY DEF IInv, Good
<1>2. Now.call[c].op = "none" /\ Now.msg[m].st = "unsent"
  BY NowIs DEF Send, Opens, Writes, Unsent
<1>3. c \in Calls \cup {None} /\ b \in Agents \cup {None} /\ b # None
  BY Bounds
<1>4. CASE await
  <2> DEFINE z == Park(Now, c, "send", a, b)
             y == Post(z, m, a, b, c, await)
  <2>1. Becomes(y)
    BY <1>4 DEF Send
  <2>2. /\ Base(z) /\ Still(Now, z) /\ Hopeful(z)
        /\ z.call[c].op = "send" /\ z.call[c].by = a /\ z.call[c].from = b
        /\ \A d \in Calls \ {c} : z.call[d].op = Now.call[d].op /\ z.call[d].from = Now.call[d].from
                                  /\ (Leg(Now, d) => Leg(z, d))
    BY <1>1, <1>2, <1>3, ParkKeeps
  <2> HIDE DEF z
  <2>3. z.msg[m].st = "unsent"
    BY <1>2, <2>2 DEF Still
  <2>4. Delivers(z, y, {m}) /\ Addressed(y, m, a, b, c)
    <3> HIDE DEF y
    <3> QED
      BY <1>3, <2>2, <2>3, PostIs DEF y
  <2> HIDE DEF y
  <2>5. y.call[c].by = a /\ y.call[c].from = b
    BY <2>2, <2>4, DeliveriesKeep
  <2>6. Leg(y, c)
    BY <2>4, <2>5 DEF Leg, Addressed
  <2>7. \A d \in Calls \ {c} : z.call[d].op = "send" /\ z.call[d].from # None => Leg(z, d)
    BY <1>1, <2>2 DEF SendsKnown
  <2>8. Good(y) /\ Lawful(Now, y)
    BY <2>2, <2>4, <2>6, <2>7, SentOn
  <2> QED
    BY <2>1, <2>8 DEF Arrives
<1>5. CASE ~await
  <2> DEFINE z == [Now EXCEPT !.call[c] = [NoCall EXCEPT !.op = "send", !.by = a]]
             y == Post(z, m, a, b, c, await)
  <2>1. Becomes(y)
    BY <1>5 DEF Send
  <2>2. Base(z) /\ Still(Now, z) /\ Hopeful(z) /\ SendsKnown(z)
    BY <1>1, <1>2, SendOpens
  <2> HIDE DEF z
  <2>3. z.msg[m].st = "unsent"
    BY <1>2, <2>2 DEF Still
  <2>4. Delivers(z, y, {m})
    <3> HIDE DEF y
    <3> QED
      BY <1>3, <2>2, <2>3, PostIs DEF y
  <2> HIDE DEF y
  <2>5. Good(y) /\ Lawful(Now, y)
    BY <2>2, <2>4, SentOn DEF SendsKnown
  <2> QED
    BY <2>1, <2>5 DEF Arrives
<1> QED
  BY <1>4, <1>5

\* A broadcast.
LEMMA BroadcastArrives ==
    ASSUME IInv, NEW c \in Calls, NEW a \in Agents, NEW letter \in Injection(Audience(a), Msgs),
           Broadcast(c, a, letter)
    PROVE  Arrives
<1> DEFINE z == [Now EXCEPT !.call[c] = [NoCall EXCEPT !.op = "send", !.by = a]]
           y == PostAll(z, letter, a, c)
<1>1. Base(Now) /\ SendsKnown(Now) /\ Hopeful(Now)
  BY DEF IInv, Good
<1>2. Now.call[c].op = "none"
  BY NowIs DEF Broadcast, Opens
<1>3. Becomes(y)
  BY DEF Broadcast
<1>4. Base(z) /\ Still(Now, z) /\ Hopeful(z) /\ SendsKnown(z)
  BY <1>1, <1>2, SendOpens
<1> HIDE DEF z
<1>5. Audience(a) \in SUBSET Agents
  BY DEF Audience
<1>6. \A b \in Audience(a) : z.msg[letter[b]].st = "unsent"
  <2>1. \A b \in Audience(a) : msg[letter[b]].st = "unsent"
    BY DEF Broadcast, Writes, Unsent
  <2> QED
    BY <1>4, <2>1, NowIs DEF Still
<1>7. Delivers(z, y, {letter[b] : b \in Audience(a)})
  BY <1>4, <1>5, <1>6, PostAllIs
<1> HIDE DEF y
<1>8. Good(y) /\ Lawful(Now, y)
  BY <1>4, <1>7, SentOn DEF SendsKnown
<1> QED
  BY <1>3, <1>8 DEF Arrives

\* A wait that parks.
LEMMA ParkArrives ==
    ASSUME IInv, NEW c \in Calls, NEW a \in Agents, NEW from \in Agents \cup {None}, Opens(c),
           NEW op \in {"wait", "jobs"}, Becomes(Park(Now, c, op, a, from))
    PROVE  Arrives
<1> DEFINE y == Park(Now, c, op, a, from)
<1>1. Base(Now) /\ SendsKnown(Now) /\ Now.call[c].op = "none"
  BY NowIs DEF IInv, Good, Opens
<1>2. /\ Base(y) /\ Still(Now, y) /\ Hopeful(y) /\ y.call[c].op = op
      /\ \A d \in Calls \ {c} : y.call[d].op = Now.call[d].op /\ y.call[d].from = Now.call[d].from
                                /\ (Leg(Now, d) => Leg(y, d))
  BY <1>1, ParkKeeps
<1> HIDE DEF y
<1>3. SendsKnown(y)
  BY <1>1, <1>2 DEF SendsKnown
<1> QED
  BY <1>2, <1>3, StillArrives DEF Good, y

\* A wait that parks.
LEMMA WaitArrives ==
    ASSUME IInv, NEW c \in Calls, NEW a \in Agents, NEW from \in Agents \cup {None},
           Wait(c, a, from)
    PROVE  Arrives
BY ParkArrives DEF Wait

\* The job leg of a race is over.
LEMMA Races ==
    ASSUME NEW x, Base(x), Hopeful(x), SendsKnown(x), NEW c \in Calls, x.call[c].op = "jobs",
           x.call[c].wait = "parked", NEW y, y = [x EXCEPT !.call[c] = [x.call[c] EXCEPT !.wait = "raced"]]
    PROVE  /\ Base(y) /\ Still(x, y) /\ Hopeful(y) /\ SendsKnown(y)
<1> DEFINE k == [x.call[c] EXCEPT !.wait = "raced"]
<1>1. /\ x.call[c] \in HubCalls /\ x.call[c].got = None /\ x.call[c].by \in Agents
      /\ x.call[c].op = "jobs" /\ x.call[c].wait = "parked"
  BY Fields DEF Base, CallsKnown
<1>2. /\ k \in HubCalls /\ k.wait = "raced" /\ k.op = "jobs" /\ k.got = None
      /\ k.by = x.call[c].by
  BY <1>1 DEF HubCalls
<1>3. y = [x EXCEPT !.call[c] = k]
  OBVIOUS
<1> HIDE DEF k
<1>4. CallKnown(k) /\ WaitsAs(x, c, k) /\ k.op # "wait" /\ x.call[c].got = None
  BY <1>1, <1>2 DEF CallKnown, Parked, WaitsAs
<1>5. /\ Base(y) /\ Still(x, y) /\ (Hopeful(x) => Hopeful(y)) /\ y.peer = x.peer
      /\ y.call[c] = k /\ \A d \in Calls \ {c} : y.call[d] = x.call[d]
      /\ \A d \in Calls \ {c} : Leg(x, d) => Leg(y, d)
  BY <1>2, <1>3, <1>4, CallChanges, ZenonT(60)
<1>6. SendsKnown(y)
  BY <1>2, <1>5 DEF SendsKnown
<1> QED
  BY <1>5, <1>6

\* So is the race.
LEMMA RaceEndsArrives == ASSUME IInv, NEW c \in Calls, RaceEnds(c) PROVE Arrives
<1> DEFINE y == [Now EXCEPT !.call[c] = [Now.call[c] EXCEPT !.wait = "raced"]]
<1>1. /\ Base(Now) /\ SendsKnown(Now) /\ Hopeful(Now) /\ Now \in World
      /\ Now.call[c].op = "jobs" /\ Now.call[c].wait = "parked"
  BY NowIs DEF IInv, Good, RaceEnds, Base
<1>2. Becomes(y)
  <2>1. y = [Now EXCEPT !.call[c].wait = "raced"]
    BY <1>1 DEF World
  <2> HIDE DEF y
  <2> QED
    BY <2>1 DEF RaceEnds
<1>3. Base(y) /\ Still(Now, y) /\ Hopeful(y) /\ SendsKnown(y)
  BY <1>1, Races
<1> HIDE DEF y
<1> QED
  BY <1>2, <1>3, StillArrives DEF Good

\* A wait ends without a message: the timer, an interrupt, the user.
LEMMA GiveUpArrives ==
    ASSUME IInv, NEW c \in Calls, Timeout(c) \/ Interrupt(c) \/ UserAborts(c)
    PROVE  Arrives
<1> DEFINE y == GiveUp(Now, {c})
<1>1. Base(Now) /\ SendsKnown(Now) /\ Hopeful(Now)
  BY DEF IInv, Good
<1>2. Becomes(y)
  BY DEF Timeout, Interrupt, UserAborts
<1>3. Parked(Now, c)
  BY NowIs DEF Timeout, Interrupt, UserAborts, Parked
<1>4. {c} \in SUBSET {d \in Calls : Parked(Now, d)}
  BY <1>3
<1>5. Base(y) /\ Still(Now, y) /\ SendsKnown(y) /\ Hopeful(y)
  BY <1>1, <1>4, GaveUp
<1> HIDE DEF y
<1> QED
  BY <1>2, <1>5, StillArrives DEF Good

-----------------------------------------------------------------------------
\* What is taken out of an agent's queues.

Removed(x, w, a) ==
    /\ w \in World /\ w.peer = x.peer /\ w.msg = x.msg /\ w.waiters = x.waiters
    /\ w.call = x.call /\ w.drafts = x.drafts /\ w.shown = x.shown
    /\ \A b \in Agents \ {a} : /\ w.mailbox[b] = x.mailbox[b] /\ w.records[b] = x.records[b]
                               /\ w.steers[b] = x.steers[b]
    /\ ToSet(w.mailbox[a]) \subseteq ToSet(x.mailbox[a]) /\ Len(w.mailbox[a]) <= MailboxCap
    /\ ToSet(w.records[a]) \subseteq ToSet(x.records[a]) /\ w.steers[a] \subseteq x.steers[a]

\* Messages leave the queues of an agent: those of ms are shown, the others go with it.
LEMMA Removes ==
    ASSUME NEW x, Base(x), NEW a \in Agents, NEW w, Removed(x, w, a), NEW ms \in SUBSET Msgs,
           \A m \in ms : Holds(x, a, m) /\ ~Holds(w, a, m),
           \A m \in Msgs \ ms : Holds(x, a, m) /\ ~Holds(w, a, m) => OverIn(x, a),
           NEW y, y = Show(w, ms)
    PROVE  /\ Base(y) /\ Lawful(x, y) /\ (SendsKnown(x) => SendsKnown(y))
           /\ (Hopeful(x) => Hopeful(y)) /\ y.peer = x.peer
<1>1. /\ y \in World /\ y.peer = x.peer /\ y.msg = x.msg /\ y.mailbox = w.mailbox
      /\ y.waiters = x.waiters /\ y.records = w.records /\ y.steers = w.steers
      /\ y.call = x.call /\ y.drafts = x.drafts /\ x \in World
      /\ \A m \in ms : y.shown[m] = x.shown[m] + 1
      /\ \A m \in Msgs \ ms : y.shown[m] = x.shown[m]
  BY Showing DEF Removed, Base
<1>2. \A b \in Agents : /\ ToSet(x.mailbox[b]) \subseteq Msgs /\ ToSet(x.records[b]) \subseteq Msgs
                        /\ x.steers[b] \subseteq Msgs
  BY <1>1, Fields, SetOf
<1>3. \A b \in Agents : /\ ToSet(y.mailbox[b]) \subseteq ToSet(x.mailbox[b])
                        /\ ToSet(y.records[b]) \subseteq ToSet(x.records[b])
                        /\ y.steers[b] \subseteq x.steers[b] /\ Len(y.mailbox[b]) <= MailboxCap
  BY <1>1 DEF Removed, Base, PlacesKnown
<1>4. \A b \in Agents, m \in Msgs : Holds(y, b, m) => Holds(x, b, m)
  BY <1>3 DEF Holds
<1>5. \A b \in Agents, m \in Msgs : Holds(x, b, m) => /\ x.msg[m].st = "sent" /\ x.msg[m].to = b
                                                      /\ x.shown[m] = 0
  BY DEF Base, Holds, PlacesKnown, Lies
<1>6. \A m \in ms : \A b \in Agents : ~Holds(y, b, m)
  <2> TAKE m \in ms
  <2> TAKE b \in Agents
  <2>1. m \in Msgs /\ Holds(x, a, m)
    OBVIOUS
  <2>2. CASE b = a
    BY <1>1, <2>2 DEF Holds
  <2>3. CASE b # a
    BY <1>4, <1>5, <2>1, <2>3
  <2> QED
    BY <2>2, <2>3
<1>7. \A m \in ms : \A c \in Calls : x.call[c].got # m
  BY <1>1, Bounds DEF Base, GotKnown
<1>8. PeersKnown(y) /\ CallsKnown(y) /\ WaitersKnown(y) /\ DraftsKnown(y)
  BY <1>1 DEF Base, PeersKnown, CallsKnown, WaitersKnown, Parked, DraftsKnown
<1>9. LettersKnown(y)
  <2> SUFFICES ASSUME NEW m \in Msgs
               PROVE  /\ x.msg[m].st \in {"unsent", "gate", "failing"} => y.shown[m] = 0
                      /\ y.shown[m] > 0 => y.shown[m] = 1 /\ x.msg[m].st = "sent"
    BY <1>1 DEF Base, LettersKnown
  <2>1. CASE m \in ms
    <3>1. x.msg[m].st = "sent" /\ x.shown[m] = 0
      BY <1>5, <2>1
    <3> QED
      BY <1>1, <2>1, <3>1
  <2>2. CASE m \notin ms
    BY <1>1, <2>2 DEF Base, LettersKnown
  <2> QED
    BY <2>1, <2>2
<1>10. PlacesKnown(y)
  <2>1. \A m \in Msgs, b \in Agents, r \in {"ok", "failed"} :
            Lies(x, m, b, r) /\ Holds(y, b, m) => Lies(y, m, b, r)
    BY <1>1, <1>6 DEF Lies
  <2>2. ASSUME NEW b \in Agents, NEW m \in ToSet(y.mailbox[b]) PROVE Lies(y, m, b, "failed")
    <3>1. m \in Msgs /\ Lies(x, m, b, "failed") /\ Holds(y, b, m)
      BY <1>2, <1>3, <2>2 DEF Base, PlacesKnown, Holds
    <3> QED
      BY <2>1, <3>1
  <2>3. ASSUME NEW b \in Agents, NEW m \in ToSet(y.records[b])
        PROVE  Lies(y, m, b, "ok") /\ y.msg[m].from # Root
    <3>1. m \in Msgs /\ Lies(x, m, b, "ok") /\ Holds(y, b, m) /\ x.msg[m].from # Root
      BY <1>2, <1>3, <2>3 DEF Base, PlacesKnown, Holds
    <3> QED
      BY <1>1, <2>1, <3>1
  <2>4. ASSUME NEW b \in Agents, NEW m \in y.steers[b]
        PROVE  Lies(y, m, b, "ok") /\ y.msg[m].from = Root
    <3>1. m \in Msgs /\ Lies(x, m, b, "ok") /\ Holds(y, b, m) /\ x.msg[m].from = Root
      BY <1>2, <1>3, <2>4 DEF Base, PlacesKnown, Holds
    <3> QED
      BY <1>1, <2>1, <3>1
  <2> QED
    BY <1>3, <2>2, <2>3, <2>4 DEF PlacesKnown
<1>11. GotKnown(y)
  <2> SUFFICES ASSUME NEW c \in Calls, NEW n, n = x.call[c].got, n # None
               PROVE  /\ Lies(y, n, x.call[c].by, x.msg[n].receipt)
                      /\ x.call[c].op = "send" => x.msg[n].receipt = "ok" /\ x.msg[n].from = x.call[c].from
                      /\ \A d \in Calls : x.call[d].got = n => d = c
                      /\ \A b \in Agents : ~Holds(y, b, n)
    BY <1>1 DEF GotKnown
  <2>1. n \in Msgs /\ n \notin ms
    BY <1>1, <1>7, Fields DEF HubCalls
  <2> QED
    BY <1>1, <1>4, <2>1 DEF Base, GotKnown, Lies
<1>12. Base(y)
  BY <1>1, <1>8, <1>9, <1>10, <1>11 DEF Base
<1>13. Lawful(x, y)
  <2>1. ASSUME NEW m \in ms PROVE Shows(x, y, m)
    BY <1>1 DEF Shows, Somewhere
  <2>2. ASSUME NEW m \in Msgs \ ms PROVE Rests(x, y, m)
    <3>1. Somewhere(y, m) => Somewhere(x, m)
      BY <1>1, <1>4 DEF Somewhere
    <3>2. ASSUME Somewhere(x, m), ~Somewhere(y, m) PROVE OverIn(y, x.msg[m].to)
      <4>1. PICK b \in Agents : Holds(x, b, m)
        BY <1>1, <3>2 DEF Somewhere
      <4>2. ~Holds(y, b, m)
        BY <3>2 DEF Somewhere
      <4>3. b = a
        BY <1>1, <4>1, <4>2 DEF Removed, Holds
      <4>4. OverIn(x, a)
        BY <1>1, <4>1, <4>2, <4>3 DEF Holds
      <4> QED
        BY <1>1, <1>5, <4>1, <4>3, <4>4 DEF OverIn
    <3> QED
      BY <1>1, <3>1, <3>2 DEF Rests
  <2> QED
    BY <2>1, <2>2 DEF Lawful
<1>14. SendsKnown(x) => SendsKnown(y)
  BY <1>1 DEF SendsKnown, Leg
<1>15. Hopeful(x) => Hopeful(y)
  BY <1>1 DEF Hopeful, Hope, RunningPeers
<1> QED
  BY <1>1, <1>12, <1>13, <1>14, <1>15

\* Queues of one agent are replaced.
Shrunk(x, a, mb, rc, st) ==
    /\ mb \in Seq(Msgs) /\ rc \in Seq(Msgs) /\ st \in SUBSET Msgs
    /\ ToSet(mb) \subseteq ToSet(x.mailbox[a]) /\ Len(mb) <= MailboxCap
    /\ ToSet(rc) \subseteq ToSet(x.records[a]) /\ st \subseteq x.steers[a]
Having(x, a, mb, rc, st) == [x EXCEPT !.mailbox = [x.mailbox EXCEPT ![a] = mb],
                                      !.records = [x.records EXCEPT ![a] = rc],
                                      !.steers = [x.steers EXCEPT ![a] = st]]

\* The queues of an agent after something was taken.
LEMMA Replaced ==
    ASSUME NEW x, Base(x), NEW a \in Agents, NEW mb, NEW rc, NEW st, Shrunk(x, a, mb, rc, st),
           NEW w, w = Having(x, a, mb, rc, st)
    PROVE  /\ Removed(x, w, a)
           /\ \A m \in Msgs : Holds(w, a, m) <=> m \in ToSet(mb) \/ m \in ToSet(rc) \/ m \in st
<1>1. /\ x \in World /\ x.mailbox \in [Agents -> Seq(Msgs)] /\ x.records \in [Agents -> Seq(Msgs)]
      /\ x.steers \in [Agents -> SUBSET Msgs] /\ mb \in Seq(Msgs) /\ rc \in Seq(Msgs)
      /\ st \in SUBSET Msgs
  BY Fields DEF Base, Shrunk
<1>2. /\ w \in World /\ w.peer = x.peer /\ w.msg = x.msg /\ w.waiters = x.waiters
      /\ w.call = x.call /\ w.drafts = x.drafts /\ w.shown = x.shown
      /\ w.mailbox = [x.mailbox EXCEPT ![a] = mb] /\ w.records = [x.records EXCEPT ![a] = rc]
      /\ w.steers = [x.steers EXCEPT ![a] = st]
  BY <1>1 DEF World, Having
<1>3. w.mailbox[a] = mb /\ w.records[a] = rc /\ w.steers[a] = st
  BY <1>1, <1>2
<1>4. \A b \in Agents \ {a} : /\ w.mailbox[b] = x.mailbox[b] /\ w.records[b] = x.records[b]
                              /\ w.steers[b] = x.steers[b]
  BY <1>1, <1>2
<1>5. Removed(x, w, a)
  BY <1>2, <1>3, <1>4 DEF Removed, Shrunk
<1> QED
  BY <1>3, <1>5 DEF Holds

\* The queues of an agent.
LEMMA OwnQueues ==
    ASSUME NEW x, Base(x), NEW a \in Agents
    PROVE  /\ x.mailbox[a] \in Seq(Msgs) /\ x.records[a] \in Seq(Msgs) /\ x.steers[a] \in SUBSET Msgs
           /\ ToSet(x.mailbox[a]) \subseteq Msgs /\ ToSet(x.records[a]) \subseteq Msgs
           /\ Len(x.mailbox[a]) <= MailboxCap /\ x \in World
           /\ [x.mailbox EXCEPT ![a] = x.mailbox[a]] = x.mailbox
           /\ [x.records EXCEPT ![a] = x.records[a]] = x.records
           /\ [x.steers EXCEPT ![a] = x.steers[a]] = x.steers
<1>1. x \in World /\ Len(x.mailbox[a]) <= MailboxCap
  BY DEF Base, PlacesKnown
<1>2. /\ x.mailbox \in [Agents -> Seq(Msgs)] /\ x.records \in [Agents -> Seq(Msgs)]
      /\ x.steers \in [Agents -> SUBSET Msgs]
  BY <1>1, Fields
<1>3. ToSet(x.mailbox[a]) \subseteq Msgs /\ ToSet(x.records[a]) \subseteq Msgs
  BY <1>2, SetOf
<1>4. /\ [x.mailbox EXCEPT ![a] = x.mailbox[a]] = x.mailbox
      /\ [x.records EXCEPT ![a] = x.records[a]] = x.records
      /\ [x.steers EXCEPT ![a] = x.steers[a]] = x.steers
  BY <1>2
<1> QED
  BY <1>1, <1>2, <1>3, <1>4

\* A place tells how its messages were received.
LEMMA OnePlace ==
    ASSUME NEW x, Base(x), NEW a \in Agents
    PROVE  /\ \A m \in ToSet(x.mailbox[a]) : m \notin ToSet(x.records[a]) /\ m \notin x.steers[a]
           /\ \A m \in ToSet(x.records[a]) : m \notin x.steers[a]
BY DEF Base, PlacesKnown, Lies

\* A record is taken and shown.
LEMMA RecordTaken ==
    ASSUME NEW x, Good(x), NEW a \in Agents, NEW m \in ToSet(x.records[a]),
           NEW y, y = Show([x EXCEPT !.records[a] = Without(@, {m})], {m})
    PROVE  Good(y) /\ Lawful(x, y)
<1> DEFINE rc == Without(x.records[a], {m})
           w == [x EXCEPT !.records[a] = rc]
<1>1. Base(x) /\ SendsKnown(x) /\ Hopeful(x)
  BY DEF Good
<1>2. /\ x.mailbox[a] \in Seq(Msgs) /\ x.records[a] \in Seq(Msgs) /\ x.steers[a] \in SUBSET Msgs
      /\ m \in Msgs /\ Len(x.mailbox[a]) <= MailboxCap /\ x \in World
      /\ [x.mailbox EXCEPT ![a] = x.mailbox[a]] = x.mailbox
      /\ [x.steers EXCEPT ![a] = x.steers[a]] = x.steers
  BY <1>1, OwnQueues
<1>3. rc \in Seq(Msgs) /\ ToSet(rc) = ToSet(x.records[a]) \ {m}
  BY <1>2, Freed
<1>4. y = Show(w, {m})
  OBVIOUS
<1> HIDE DEF rc
<1>5. w = Having(x, a, x.mailbox[a], rc, x.steers[a]) /\ Shrunk(x, a, x.mailbox[a], rc, x.steers[a])
  <2>1. Shrunk(x, a, x.mailbox[a], rc, x.steers[a])
    BY <1>2, <1>3 DEF Shrunk
  <2>2. w = Having(x, a, x.mailbox[a], rc, x.steers[a])
    BY <1>2 DEF World, Having
  <2> QED
    BY <2>1, <2>2
<1> HIDE DEF w
<1>6. /\ Removed(x, w, a)
      /\ \A n \in Msgs : Holds(w, a, n) <=> n \in ToSet(x.mailbox[a]) \/ n \in ToSet(rc) \/ n \in x.steers[a]
  BY <1>1, <1>5, Replaced
<1>7. \A n \in {m} : Holds(x, a, n) /\ ~Holds(w, a, n)
  BY <1>1, <1>2, <1>3, <1>6, OnePlace, ZenonT(60) DEF Holds
<1>8. \A n \in Msgs \ {m} : Holds(x, a, n) /\ ~Holds(w, a, n) => OverIn(x, a)
  BY <1>3, <1>6 DEF Holds
<1>9. {m} \in SUBSET Msgs
  BY <1>2
<1> QED
  BY <1>1, <1>4, <1>6, <1>7, <1>8, <1>9, Removes DEF Good

\* A message is taken from the mailbox and shown.
LEMMA MailTaken ==
    ASSUME NEW x, Good(x), NEW a \in Agents, NEW m \in ToSet(x.mailbox[a]),
           NEW y, y = Show([x EXCEPT !.mailbox[a] = Without(@, {m})], {m})
    PROVE  Good(y) /\ Lawful(x, y)
<1> DEFINE mb == Without(x.mailbox[a], {m})
           w == [x EXCEPT !.mailbox[a] = mb]
<1>1. Base(x) /\ SendsKnown(x) /\ Hopeful(x)
  BY DEF Good
<1>2. /\ x.mailbox[a] \in Seq(Msgs) /\ x.records[a] \in Seq(Msgs) /\ x.steers[a] \in SUBSET Msgs
      /\ m \in Msgs /\ Len(x.mailbox[a]) <= MailboxCap /\ x \in World
      /\ [x.records EXCEPT ![a] = x.records[a]] = x.records
      /\ [x.steers EXCEPT ![a] = x.steers[a]] = x.steers
  BY <1>1, OwnQueues
<1>3. mb \in Seq(Msgs) /\ ToSet(mb) = ToSet(x.mailbox[a]) \ {m} /\ Len(mb) <= MailboxCap
  <2>1. mb \in Seq(Msgs) /\ ToSet(mb) = ToSet(x.mailbox[a]) \ {m} /\ Len(mb) <= Len(x.mailbox[a])
    BY <1>2, Freed
  <2>2. Len(mb) \in Nat /\ Len(x.mailbox[a]) \in Nat /\ MailboxCap \in Nat
    BY <1>2, <2>1, LenProperties, BoundsAssumption
  <2> HIDE DEF mb
  <2> QED
    BY <1>2, <2>1, <2>2
<1>4. y = Show(w, {m})
  OBVIOUS
<1> HIDE DEF mb
<1>5. w = Having(x, a, mb, x.records[a], x.steers[a]) /\ Shrunk(x, a, mb, x.records[a], x.steers[a])
  <2>1. Shrunk(x, a, mb, x.records[a], x.steers[a])
    BY <1>2, <1>3 DEF Shrunk
  <2>2. w = Having(x, a, mb, x.records[a], x.steers[a])
    BY <1>2 DEF World, Having
  <2> QED
    BY <2>1, <2>2
<1> HIDE DEF w
<1>6. /\ Removed(x, w, a)
      /\ \A n \in Msgs : Holds(w, a, n) <=> n \in ToSet(mb) \/ n \in ToSet(x.records[a]) \/ n \in x.steers[a]
  BY <1>1, <1>5, Replaced
<1>7. \A n \in {m} : Holds(x, a, n) /\ ~Holds(w, a, n)
  <2>1. m \notin ToSet(x.records[a]) /\ m \notin x.steers[a]
    BY <1>1, OnePlace
  <2> QED
    BY <1>2, <1>3, <1>6, <2>1 DEF Holds
<1>8. \A n \in Msgs \ {m} : Holds(x, a, n) /\ ~Holds(w, a, n) => OverIn(x, a)
  BY <1>3, <1>6 DEF Holds
<1>9. {m} \in SUBSET Msgs
  BY <1>2
<1> QED
  BY <1>1, <1>4, <1>6, <1>7, <1>8, <1>9, Removes DEF Good

\* The inbox is read, or peeked at.
LEMMA InboxRead ==
    ASSUME NEW x, Good(x), NEW a \in Agents, NEW peek \in BOOLEAN,
           NEW y, y = Show([x EXCEPT !.records[a] = <<>>, !.mailbox[a] = IF peek THEN @ ELSE <<>>],
                           ToSet(x.records[a]) \cup (IF peek THEN {} ELSE ToSet(x.mailbox[a])))
    PROVE  Good(y) /\ Lawful(x, y)
<1> DEFINE mb == IF peek THEN x.mailbox[a] ELSE <<>>
           ms == ToSet(x.records[a]) \cup (IF peek THEN {} ELSE ToSet(x.mailbox[a]))
           w == [x EXCEPT !.records[a] = <<>>, !.mailbox[a] = mb]
<1>1. Base(x) /\ SendsKnown(x) /\ Hopeful(x)
  BY DEF Good
<1>2. /\ x.mailbox[a] \in Seq(Msgs) /\ x.records[a] \in Seq(Msgs) /\ x.steers[a] \in SUBSET Msgs
      /\ ToSet(x.mailbox[a]) \subseteq Msgs /\ ToSet(x.records[a]) \subseteq Msgs
      /\ Len(x.mailbox[a]) <= MailboxCap /\ x \in World
      /\ [x.steers EXCEPT ![a] = x.steers[a]] = x.steers
  BY <1>1, OwnQueues
<1>3. <<>> \in Seq(Msgs) /\ ToSet(<<>>) = {} /\ Len(<<>>) <= MailboxCap
  BY OfNone, EmptySeq, BoundsAssumption
<1>4. /\ mb \in Seq(Msgs) /\ ToSet(mb) \subseteq ToSet(x.mailbox[a]) /\ Len(mb) <= MailboxCap
      /\ ms \in SUBSET Msgs
      /\ \A n \in ms : n \in ToSet(x.records[a]) \/ (n \in ToSet(x.mailbox[a]) /\ n \notin ToSet(mb))
      /\ \A n \in ToSet(x.mailbox[a]) : n \in ms \/ n \in ToSet(mb)
      /\ ToSet(x.records[a]) \subseteq ms
  BY <1>2, <1>3
<1>5. y = Show(w, ms)
  <2>1. w = [x EXCEPT !.records[a] = <<>>, !.mailbox[a] = IF peek THEN @ ELSE <<>>]
    OBVIOUS
  <2> HIDE DEF w
  <2> QED
    BY <2>1
<1> HIDE DEF mb, ms
<1>6. w = Having(x, a, mb, <<>>, x.steers[a]) /\ Shrunk(x, a, mb, <<>>, x.steers[a])
  <2>1. Shrunk(x, a, mb, <<>>, x.steers[a])
    BY <1>2, <1>3, <1>4 DEF Shrunk
  <2>2. w = Having(x, a, mb, <<>>, x.steers[a])
    BY <1>2 DEF World, Having
  <2> QED
    BY <2>1, <2>2
<1> HIDE DEF w
<1>8. /\ Removed(x, w, a)
      /\ \A n \in Msgs : Holds(w, a, n) <=> n \in ToSet(mb) \/ n \in ToSet(<<>>) \/ n \in x.steers[a]
  BY <1>1, <1>6, Replaced
<1>9. \A n \in ms : Holds(x, a, n) /\ ~Holds(w, a, n)
  <2> TAKE n \in ms
  <2>1. n \in Msgs
    BY <1>4
  <2>2. CASE n \in ToSet(x.records[a])
    BY <1>1, <1>3, <1>4, <1>8, <2>1, <2>2, OnePlace DEF Holds
  <2>3. CASE n \in ToSet(x.mailbox[a]) /\ n \notin ToSet(mb)
    BY <1>1, <1>3, <1>8, <2>1, <2>3, OnePlace DEF Holds
  <2> QED
    BY <1>4, <2>2, <2>3
<1>10. \A n \in Msgs \ ms : Holds(x, a, n) /\ ~Holds(w, a, n) => OverIn(x, a)
  BY <1>4, <1>8 DEF Holds
<1> QED
  BY <1>1, <1>4, <1>5, <1>8, <1>9, <1>10, Removes DEF Good

Emptied(x, a) == [x EXCEPT !.records[a] = <<>>, !.steers[a] = {}]
Clears(x, a, ms) == /\ ToSet(x.records[a]) \subseteq ms
                    /\ ms \subseteq ToSet(x.records[a]) \cup x.steers[a]
                    /\ x.steers[a] \subseteq ms \/ OverIn(x, a)

\* A session's queues are emptied.
LEMMA Cleared ==
    ASSUME NEW x, Base(x), NEW a \in Agents, NEW ms \in SUBSET Msgs, Clears(x, a, ms),
           NEW y, y = Show(Emptied(x, a), ms)
    PROVE  /\ Base(y) /\ Lawful(x, y) /\ (SendsKnown(x) => SendsKnown(y))
           /\ (Hopeful(x) => Hopeful(y)) /\ y.peer = x.peer
<1> DEFINE w == [x EXCEPT !.records[a] = <<>>, !.steers[a] = {}]
<1>1. /\ x.mailbox[a] \in Seq(Msgs) /\ x.records[a] \in Seq(Msgs) /\ x.steers[a] \in SUBSET Msgs
      /\ ToSet(x.mailbox[a]) \subseteq Msgs /\ ToSet(x.records[a]) \subseteq Msgs
      /\ Len(x.mailbox[a]) <= MailboxCap /\ x \in World
      /\ [x.mailbox EXCEPT ![a] = x.mailbox[a]] = x.mailbox
  BY OwnQueues
<1>2. <<>> \in Seq(Msgs) /\ ToSet(<<>>) = {} /\ ToSet(<<>>) \subseteq ToSet(x.records[a])
      /\ {} \in SUBSET Msgs /\ {} \subseteq x.steers[a]
      /\ ToSet(x.mailbox[a]) \subseteq ToSet(x.mailbox[a])
  BY OfNone
<1>3. w = Having(x, a, x.mailbox[a], <<>>, {}) /\ Shrunk(x, a, x.mailbox[a], <<>>, {})
  <2>1. Shrunk(x, a, x.mailbox[a], <<>>, {})
    BY <1>1, <1>2 DEF Shrunk
  <2>2. w = Having(x, a, x.mailbox[a], <<>>, {})
    BY <1>1 DEF World, Having
  <2> QED
    BY <2>1, <2>2
<1>4. y = Show(w, ms)
  BY DEF Emptied
<1> HIDE DEF w
<1>5. /\ Removed(x, w, a)
      /\ \A n \in Msgs : Holds(w, a, n) <=> n \in ToSet(x.mailbox[a]) \/ n \in ToSet(<<>>) \/ n \in {}
  BY <1>3, Replaced
<1>6. \A n \in ms : Holds(x, a, n) /\ ~Holds(w, a, n)
  BY <1>2, <1>5, OnePlace DEF Holds, Clears
<1>7. \A n \in Msgs \ ms : Holds(x, a, n) /\ ~Holds(w, a, n) => OverIn(x, a)
  BY <1>2, <1>5 DEF Holds, Clears
<1> QED
  BY <1>4, <1>5, <1>6, <1>7, Removes

\* The invariant, part by part.
LEMMA NowGood == IInv => Good(Now) /\ Base(Now) /\ SendsKnown(Now) /\ Hopeful(Now) /\ Now \in World
BY DEF IInv, Good, Base

\* A wait is answered by a record of the session.
LEMMA WaitTakesRecordArrives ==
    ASSUME IInv, NEW a \in Agents, NEW from, WaitTakesRecord(a, from) PROVE Arrives
<1> DEFINE m == Oldest(records[a], from)
           y == Show([Now EXCEPT !.records[a] = Without(@, {m})], {m})
<1>1. Becomes(y)
  BY NowIs DEF WaitTakesRecord
<1>2. m \in ToSet(Now.records[a])
  <2>1. records[a] \in Seq(Msgs)
    BY NowGood, OwnQueues, NowIs
  <2> QED
    BY <2>1, NowIs, OldestIs DEF WaitTakesRecord
<1> HIDE DEF m
<1>3. Good(y) /\ Lawful(Now, y)
  BY <1>2, NowGood, RecordTaken
<1> HIDE DEF y
<1> QED
  BY <1>1, <1>3 DEF Arrives

\* A wait is answered by mail.
LEMMA WaitTakesMailArrives ==
    ASSUME IInv, NEW a \in Agents, NEW from, WaitTakesMail(a, from) PROVE Arrives
<1> DEFINE m == Oldest(mailbox[a], from)
           y == Show([Now EXCEPT !.mailbox[a] = Without(@, {m})], {m})
<1>1. Becomes(y)
  BY NowIs DEF WaitTakesMail
<1>2. m \in ToSet(Now.mailbox[a])
  <2>1. mailbox[a] \in Seq(Msgs)
    BY NowGood, OwnQueues, NowIs
  <2> QED
    BY <2>1, NowIs, OldestIs DEF WaitTakesMail
<1> HIDE DEF m
<1>3. Good(y) /\ Lawful(Now, y)
  BY <1>2, NowGood, MailTaken
<1> HIDE DEF y
<1> QED
  BY <1>1, <1>3 DEF Arrives

\* The inbox operation.
LEMMA InboxArrives ==
    ASSUME IInv, NEW a \in Agents, NEW peek \in BOOLEAN, Inbox(a, peek) PROVE Arrives
<1> DEFINE y == Show([Now EXCEPT !.records[a] = <<>>, !.mailbox[a] = IF peek THEN @ ELSE <<>>],
                     ToSet(Now.records[a]) \cup (IF peek THEN {} ELSE ToSet(Now.mailbox[a])))
<1>1. Becomes(y)
  BY NowIs DEF Inbox
<1>2. Good(y) /\ Lawful(Now, y)
  BY NowGood, InboxRead
<1> HIDE DEF y
<1> QED
  BY <1>1, <1>2 DEF Arrives

\* Everything queued goes into the turn.
LEMMA Absorbs ==
    ASSUME NEW x, Base(x), NEW a \in Agents, x.records[a] = records[a], x.steers[a] = steers[a],
           NEW y, y = Absorb(x, a)
    PROVE  /\ Base(y) /\ Lawful(x, y) /\ (SendsKnown(x) => SendsKnown(y))
           /\ (Hopeful(x) => Hopeful(y)) /\ y.peer = x.peer
<1>1. y = Show(Emptied(x, a), Pending(a))
  BY DEF Absorb, Emptied
<1>2. Pending(a) = ToSet(x.records[a]) \cup x.steers[a]
  BY DEF Pending
<1>3. Pending(a) \in SUBSET Msgs
  BY <1>2, OwnQueues
<1>4. Clears(x, a, Pending(a))
  BY <1>2 DEF Clears
<1> QED
  BY <1>1, <1>3, <1>4, Cleared

\* A step boundary.
LEMMA BoundaryArrives == ASSUME IInv, NEW a \in Agents, Boundary(a) PROVE Arrives
<1> DEFINE y == Absorb(Now, a)
<1>1. Becomes(y)
  BY DEF Boundary
<1>2. Good(y) /\ Lawful(Now, y)
  BY NowGood, NowIs, Absorbs DEF Good
<1> HIDE DEF y
<1> QED
  BY <1>1, <1>2 DEF Arrives

\* A call begins with a message from the mailbox in its hand.
LEMMA Pulled ==
    ASSUME NEW x, Good(x), NEW a \in Agents, NEW c \in Calls, x.call[c].op = "none",
           NEW from \in Agents \cup {None}, NEW m \in ToSet(x.mailbox[a]),
           NEW y, y = [x EXCEPT !.mailbox[a] = Without(@, {m}),
                                !.call[c] = [op |-> "jobs", by |-> a, from |-> from,
                                             wait |-> "message", got |-> m]]
    PROVE  Good(y) /\ Lawful(x, y)
<1> DEFINE mb == Without(x.mailbox[a], {m})
           k == [op |-> "jobs", by |-> a, from |-> from, wait |-> "message", got |-> m]
<1>1. Base(x) /\ SendsKnown(x) /\ Hopeful(x)
  BY DEF Good
<1>2. x.mailbox[a] \in Seq(Msgs) /\ m \in Msgs /\ Len(x.mailbox[a]) <= MailboxCap /\ x \in World
  BY <1>1, OwnQueues
<1>3. mb \in Seq(Msgs) /\ ToSet(mb) = ToSet(x.mailbox[a]) \ {m} /\ Len(mb) <= MailboxCap
  <2>1. mb \in Seq(Msgs) /\ ToSet(mb) = ToSet(x.mailbox[a]) \ {m} /\ Len(mb) <= Len(x.mailbox[a])
    BY <1>2, Freed
  <2>2. Len(mb) \in Nat /\ Len(x.mailbox[a]) \in Nat /\ MailboxCap \in Nat
    BY <1>2, <2>1, LenProperties, BoundsAssumption
  <2> HIDE DEF mb
  <2> QED
    BY <1>2, <2>1, <2>2
<1>4. /\ k \in HubCalls /\ k.op = "jobs" /\ k.by = a /\ k.from = from /\ k.wait = "message"
      /\ k.got = m
  BY <1>2 DEF HubCalls
<1>5. y = [x EXCEPT !.mailbox = [x.mailbox EXCEPT ![a] = mb], !.call = [x.call EXCEPT ![c] = k]]
  BY <1>2 DEF World
<1> HIDE DEF mb, k
<1>6. /\ x.mailbox \in [Agents -> Seq(Msgs)] /\ x.call \in [Calls -> HubCalls]
      /\ [x.mailbox EXCEPT ![a] = mb] \in [Agents -> Seq(Msgs)]
      /\ [x.call EXCEPT ![c] = k] \in [Calls -> HubCalls]
  BY <1>2, <1>3, <1>4, Fields
<1>7. /\ y \in World /\ y.peer = x.peer /\ y.msg = x.msg /\ y.waiters = x.waiters
      /\ y.mailbox = [x.mailbox EXCEPT ![a] = mb] /\ y.call = [x.call EXCEPT ![c] = k]
      /\ y.records = x.records /\ y.steers = x.steers /\ y.drafts = x.drafts
      /\ y.shown = x.shown
  BY ONLY <1>2, <1>5, <1>6 DEF World
<1>8. /\ y.mailbox[a] = mb /\ \A b \in Agents \ {a} : y.mailbox[b] = x.mailbox[b]
  BY <1>6, <1>7
<1>9. y.call[c] = k /\ \A d \in Calls \ {c} : y.call[d] = x.call[d]
  BY <1>6, <1>7
<1>10. x.call[c].got = None /\ ~Parked(x, c)
  BY <1>1, Unopened
<1>11. Holds(x, a, m) /\ Lies(x, m, a, "failed")
  BY <1>1 DEF Holds, Base, PlacesKnown
<1>12. \A b \in Agents : ~Holds(y, b, m)
  <2> TAKE b \in Agents
  <2>1. m \notin ToSet(x.records[b]) /\ m \notin x.steers[b]
    BY <1>1, <1>11 DEF Base, PlacesKnown, Lies
  <2>2. m \notin ToSet(y.mailbox[b])
    BY <1>1, <1>3, <1>8, <1>11 DEF Base, PlacesKnown, Lies
  <2> QED
    BY <1>7, <2>1, <2>2 DEF Holds
<1>13. \A b \in Agents : \A n \in Msgs : Holds(y, b, n) => Holds(x, b, n)
  BY <1>3, <1>7, <1>8 DEF Holds
<1>14. \A b \in Agents : \A n \in Msgs \ {m} : Holds(x, b, n) => Holds(y, b, n)
  BY <1>3, <1>7, <1>8 DEF Holds
<1>15. \A d \in Calls : x.call[d].got # m
  BY <1>1, <1>2, <1>11, Bounds DEF Base, GotKnown
<1>16. PeersKnown(y) /\ LettersKnown(y) /\ DraftsKnown(y)
  BY <1>1, <1>7 DEF Base, PeersKnown, LettersKnown, DraftsKnown
<1>17. PlacesKnown(y)
  BY <1>1, <1>3, <1>7, <1>8 DEF Base, PlacesKnown, Lies
<1>18. CallsKnown(y)
  BY <1>1, <1>2, <1>4, <1>9, Bounds DEF Base, CallsKnown
<1>19. GotKnown(y)
  <2> SUFFICES ASSUME NEW d \in Calls, NEW n, n = y.call[d].got, n # None
               PROVE  /\ Lies(y, n, y.call[d].by, y.msg[n].receipt)
                      /\ y.call[d].op = "send" => y.msg[n].receipt = "ok" /\ y.msg[n].from = y.call[d].from
                      /\ \A e \in Calls : y.call[e].got = n => e = d
                      /\ \A b \in Agents : ~Holds(y, b, n)
    BY DEF GotKnown
  <2>1. CASE d = c
    <3>1. n = m /\ y.call[d].by = a /\ y.call[d].op = "jobs"
      BY <1>4, <1>9, <2>1
    <3>2. Lies(y, m, a, y.msg[m].receipt)
      BY <1>7, <1>11 DEF Lies
    <3>3. \A e \in Calls : y.call[e].got = m => e = c
      BY <1>9, <1>15
    <3> QED
      BY <1>12, <2>1, <3>1, <3>2, <3>3
  <2>2. CASE d # c
    <3>1. y.call[d] = x.call[d] /\ n \in Msgs /\ n # m
      BY <1>2, <1>9, <1>15, <2>2, Fields DEF HubCalls
    <3>2. \A e \in Calls : y.call[e].got = n => e = d
      BY <1>1, <1>4, <1>9, <3>1 DEF Base, GotKnown
    <3>3. /\ Lies(x, n, x.call[d].by, x.msg[n].receipt)
          /\ x.call[d].op = "send" => x.msg[n].receipt = "ok" /\ x.msg[n].from = x.call[d].from
          /\ \A b \in Agents : ~Holds(x, b, n)
      BY <1>1, <3>1 DEF Base, GotKnown
    <3> QED
      BY <1>7, <1>13, <3>1, <3>2, <3>3 DEF Lies
  <2> QED
    BY <2>1, <2>2
<1>20. WaitersKnown(y)
  <2>1. \A d \in Calls : Parked(y, d) <=> Parked(x, d)
    BY <1>4, <1>9, <1>10 DEF Parked
  <2>2. \A d \in Calls : Parked(x, d) => y.call[d].by = x.call[d].by
    BY <1>9, <1>10
  <2>3. \A b \in Agents : ToSet(x.waiters[b]) \subseteq Calls
    BY <1>2, Fields, SetOf
  <2> QED
    BY <1>1, <1>7, <2>1, <2>2, <2>3 DEF Base, WaitersKnown
<1>21. Base(y)
  BY <1>7, <1>16, <1>17, <1>18, <1>19, <1>20 DEF Base
<1>22. SendsKnown(y) /\ Hopeful(y)
  <2>1. \A d \in Calls \ {c} : Leg(x, d) => Leg(y, d)
    BY <1>7, <1>9 DEF Leg
  <2> QED
    BY <1>1, <1>4, <1>7, <1>9, <2>1 DEF SendsKnown, Hopeful, Hope, RunningPeers
<1>23. Lawful(x, y)
  <2> SUFFICES ASSUME NEW n \in Msgs PROVE Rests(x, y, n)
    BY DEF Lawful
  <2>1. CASE n = m
    <3>1. Somewhere(x, m) /\ Somewhere(y, m)
      BY <1>4, <1>9, <1>11 DEF Somewhere
    <3> QED
      BY <1>7, <2>1, <3>1 DEF Rests
  <2>2. CASE n # m
    <3>1. \A d \in Calls : y.call[d].got = n <=> x.call[d].got = n
      BY <1>2, <1>4, <1>9, <1>10, <2>2, Bounds
    <3>2. Somewhere(x, n) <=> Somewhere(y, n)
      BY <1>13, <1>14, <2>2, <3>1 DEF Somewhere
    <3> QED
      BY <1>7, <3>2 DEF Rests
  <2> QED
    BY <2>1, <2>2
<1> QED
  BY <1>21, <1>22, <1>23 DEF Good

\* A wait that also watches jobs.
LEMMA JobWaitArrives ==
    ASSUME IInv, NEW c \in Calls, NEW a \in Agents, NEW from \in Agents \cup {None},
           JobWait(c, a, from)
    PROVE  Arrives
<1>1. CASE Matching(mailbox[a], from) = {}
  BY <1>1, ParkArrives DEF JobWait
<1>2. CASE Matching(mailbox[a], from) # {}
  <2> DEFINE m == Oldest(mailbox[a], from)
             y == [Now EXCEPT !.mailbox[a] = Without(@, {m}),
                              !.call[c] = [op |-> "jobs", by |-> a, from |-> from,
                                           wait |-> "message", got |-> m]]
  <2>1. Becomes(y)
    BY <1>2 DEF JobWait
  <2>2. m \in ToSet(Now.mailbox[a]) /\ Now.call[c].op = "none"
    <3>1. mailbox[a] \in Seq(Msgs)
      BY NowGood, OwnQueues, NowIs
    <3> QED
      BY <1>2, <3>1, NowIs, OldestIs DEF JobWait, Opens
  <2> HIDE DEF m
  <2>3. Good(y) /\ Lawful(Now, y)
    BY <2>2, NowGood, Pulled
  <2> HIDE DEF y
  <2> QED
    BY <2>1, <2>3 DEF Arrives
<1> QED
  BY <1>1, <1>2

-----------------------------------------------------------------------------
\* Turns, parks and disposal.

\* The rows the steps write.
LEMMA Rows ==
    ASSUME NEW x \in World, NEW a \in Agents
    PROVE  LET p == x.peer[a]
               wakes == [p EXCEPT !.turn = TRUE, !.settling = "no", !.status = "running"]
               parks == [p EXCEPT !.status = "parked", !.session = "none", !.settling = "no"]
               disposes == [p EXCEPT !.session = "disposed", !.settling = "no"]
           IN  /\ p \in Peers
               /\ wakes \in Peers /\ wakes.status = "running" /\ wakes.session = p.session
               /\ parks \in Peers /\ parks.status = "parked" /\ parks.session = "none"
               /\ disposes \in Peers /\ disposes.status = p.status
               /\ disposes.session = "disposed"
<1>1. x.peer[a] \in Peers
  BY Fields
<1>2. \A p \in Peers :
        LET q == [p EXCEPT !.turn = TRUE, !.settling = "no", !.status = "running"]
        IN  q \in Peers /\ q.status = "running" /\ q.session = p.session
  BY DEF Peers
<1>3. \A p \in Peers :
        LET q == [p EXCEPT !.status = "parked", !.session = "none", !.settling = "no"]
        IN  q \in Peers /\ q.status = "parked" /\ q.session = "none"
  BY DEF Peers
<1>4. \A p \in Peers :
        LET q == [p EXCEPT !.session = "disposed", !.settling = "no"]
        IN  q \in Peers /\ q.status = p.status /\ q.session = "disposed"
  BY DEF Peers
<1> QED
  BY <1>1, <1>2, <1>3, <1>4

\* The rows of an agent that stops or settles.
LEMMA SettledRows ==
    ASSUME NEW p \in Peers, NEW how \in {"no", "due", "blocked"}
    PROVE  LET stops == [p EXCEPT !.turn = FALSE, !.settling = how]
               idles == [p EXCEPT !.turn = FALSE, !.settling = how, !.status = "idle",
                                  !.adopted = TRUE]
               settles == [p EXCEPT !.settling = how]
           IN  /\ stops \in Peers /\ stops.status = p.status /\ stops.session = p.session
               /\ idles \in Peers /\ idles.status = "idle" /\ idles.session = p.session
               /\ settles \in Peers /\ settles.status = p.status
               /\ settles.session = p.session
BY DEF Peers

\* An agent with a session starts a turn.
LEMMA Wakes ==
    ASSUME NEW x, Base(x), NEW a \in Agents, x.peer[a].session = "live", NEW y, y = Wake(x, a)
    PROVE  /\ Base(y) /\ Still(x, y) /\ (SendsKnown(x) => SendsKnown(y))
           /\ (Hopeful(x) => Hopeful(y))
           /\ \A b \in Agents : OverIn(x, b) => OverIn(y, b)
<1> DEFINE p == [x.peer[a] EXCEPT !.turn = TRUE, !.settling = "no", !.status = "running"]
<1>1. x \in World /\ x.peer[a].status # "gone"
  BY DEF Base, PeersKnown
<1>2. p \in Peers /\ p.status = "running" /\ p.session = "live"
  BY <1>1, Rows
<1>3. y = WithRow(x, a, p)
  BY DEF Wake, WithRow
<1> HIDE DEF p
<1>4. RowKnown(p) /\ Stays(x, a, p)
  BY <1>2 DEF RowKnown, Stays
<1>5. /\ Base(y) /\ Still(x, y) /\ y.peer[a] = p
      /\ \A b \in Agents \ {a} : y.peer[b] = x.peer[b]
      /\ SendsKnown(x) => SendsKnown(y)
      /\ Hopeful(x) => Hopeful(y)
  BY <1>2, <1>3, <1>4, RowChanges
<1>6. \A b \in Agents : OverIn(x, b) => OverIn(y, b)
  BY <1>1, <1>5 DEF OverIn
<1> QED
  BY <1>2, <1>5, <1>6

\* A row changes, and the registry tells those who wait.
LEMMA Tells ==
    ASSUME NEW x, Base(x), SendsKnown(x), NEW a \in Agents, NEW p \in Peers, RowKnown(p),
           NEW y, y = Notice([x EXCEPT !.peer[a] = p])
    PROVE  /\ Good(y) /\ Still(x, y) /\ y.peer[a] = p
<1> DEFINE z == WithRow(x, a, p)
<1>1. Base(z) /\ Still(x, z) /\ z.peer[a] = p /\ SendsKnown(z)
  BY RowChanges
<1>2. y = Notice(z)
  BY DEF WithRow
<1> HIDE DEF z
<1>3. Base(y) /\ Still(z, y) /\ y.peer = z.peer /\ Hopeful(y) /\ SendsKnown(y)
  BY <1>1, <1>2, Noticed
<1> QED
  BY <1>1, <1>3, StillStill DEF Good

\* A turn starts.
LEMMA TurnStartsArrives == ASSUME IInv, NEW a \in Agents, TurnStarts(a) PROVE Arrives
<1> DEFINE y == Wake(Now, a)
<1>1. Becomes(y) /\ Now.peer[a].session = "live"
  BY NowIs DEF TurnStarts
<1>2. Base(y) /\ Still(Now, y) /\ SendsKnown(y) /\ Hopeful(y)
  BY <1>1, NowGood, Wakes
<1> HIDE DEF y
<1> QED
  BY <1>1, <1>2, StillArrives DEF Good

\* A disposed agent leaves its row.
LEMMA LeavesArrives ==
    ASSUME IInv, NEW a \in Agents, NEW status \in {"parked", "gone"}, Leaves(a, status)
    PROVE  Arrives
<1> DEFINE p == [status |-> status, session |-> "none", turn |-> FALSE,
                 settling |-> "no", adopted |-> FALSE]
           y == Notice([Now EXCEPT !.peer[a] = p])
<1>1. Becomes(y)
  BY DEF Leaves
<1>2. p \in Peers /\ p.status = status /\ p.session = "none"
  BY DEF Peers
<1> HIDE DEF p
<1>3. RowKnown(p)
  BY <1>2 DEF RowKnown
<1>4. Good(y) /\ Still(Now, y)
  BY <1>2, <1>3, NowGood, Tells
<1> HIDE DEF y
<1> QED
  BY <1>1, <1>4, StillArrives

\* The main agent is always listed as running; the others are idle after a turn.
LEMMA Ends ==
    ASSUME IInv, NEW a \in Agents, Now.peer[a].session = "live", NEW y, y = Ended(Now, a)
    PROVE  Good(y) /\ Still(Now, y) /\ y.peer[a].session = "live"
<1> DEFINE how == Left(a)
           row == Now.peer[a]
<1>0. how \in {"no", "due", "blocked"} /\ row \in Peers /\ row.session = "live"
  BY NowGood, Rows DEF Left
<1>1. CASE a = Root
  <2> DEFINE p == [row EXCEPT !.turn = FALSE, !.settling = how]
  <2>1. p \in Peers /\ p.status = row.status /\ p.session = row.session
    <3> HIDE DEF row, how
    <3> QED
      BY <1>0, SettledRows
  <2>2. y = WithRow(Now, a, p)
    BY <1>1 DEF Ended, WithRow
  <2> HIDE DEF p
  <2>3. RowKnown(p) /\ Stays(Now, a, p)
    BY <2>1, NowGood DEF Base, PeersKnown, RowKnown, Stays
  <2>4. Base(y) /\ Still(Now, y) /\ y.peer[a] = p /\ SendsKnown(y) /\ Hopeful(y)
    BY <2>1, <2>2, <2>3, NowGood, RowChanges
  <2> QED
    BY <2>1, <2>4, NowGood DEF Good
<1>2. CASE a # Root
  <2> DEFINE p == [row EXCEPT !.turn = FALSE, !.settling = how, !.status = "idle",
                              !.adopted = TRUE]
  <2>1. p \in Peers /\ p.status = "idle" /\ p.session = "live"
    <3> HIDE DEF row, how
    <3> QED
      BY <1>0, SettledRows
  <2>2. y = Notice([Now EXCEPT !.peer[a] = p])
    BY <1>2 DEF Ended
  <2> HIDE DEF p
  <2>3. RowKnown(p)
    BY <2>1 DEF RowKnown
  <2>4. Good(y) /\ Still(Now, y) /\ y.peer[a] = p
    BY <2>1, <2>2, <2>3, NowGood, Tells
  <2> QED
    BY <2>1, <2>4
<1> QED
  BY <1>1, <1>2

\* A turn ends.
LEMMA TurnEndsArrives == ASSUME IInv, NEW a \in Agents, TurnEnds(a) PROVE Arrives
<1> DEFINE y == Ended(Now, a)
<1>1. Becomes(y) /\ Now.peer[a].session = "live"
  BY NowIs DEF TurnEnds, InTurn, Streaming
<1>2. Good(y) /\ Still(Now, y)
  BY <1>1, Ends
<1> HIDE DEF y
<1> QED
  BY <1>1, <1>2, StillArrives

\* A session has settled.
LEMMA Settles ==
    ASSUME NEW x, Base(x), NEW a \in Agents, NEW how \in {"no", "due", "blocked"},
           NEW y, y = Settled(x, a, how)
    PROVE  /\ Base(y) /\ Still(x, y) /\ (SendsKnown(x) => SendsKnown(y))
           /\ (Hopeful(x) => Hopeful(y))
           /\ \A b \in Agents : OverIn(x, b) => OverIn(y, b)
<1> DEFINE row == x.peer[a]
           p == [row EXCEPT !.settling = how]
<1>1. row \in Peers /\ RowKnown(row)
  BY Rows DEF Base, PeersKnown, RowKnown
<1>2. p \in Peers /\ p.status = row.status /\ p.session = row.session
  <2> HIDE DEF row
  <2> QED
    BY <1>1, SettledRows
<1>3. y = WithRow(x, a, p)
  BY DEF Settled, WithRow
<1> HIDE DEF p
<1>4. RowKnown(p) /\ Stays(x, a, p)
  BY <1>1, <1>2 DEF RowKnown, Stays
<1>5. /\ Base(y) /\ Still(x, y) /\ y.peer[a] = p
      /\ \A b \in Agents \ {a} : y.peer[b] = x.peer[b]
      /\ SendsKnown(x) => SendsKnown(y)
      /\ Hopeful(x) => Hopeful(y)
  BY <1>2, <1>3, <1>4, RowChanges
<1>6. \A b \in Agents : OverIn(x, b) => OverIn(y, b)
  BY <1>2, <1>5 DEF OverIn
<1> QED
  BY <1>5, <1>6

\* What is left queued is taken, and may wake the agent.
LEMMA DrainsArrives == ASSUME IInv, NEW a \in Agents, Drains(a) PROVE Arrives
<1> DEFINE x == Absorb(Now, a)
           y == IF steers[a] = {} /\ a \in Planning THEN Settled(x, a, "no") ELSE Wake(x, a)
<1>1. Becomes(y) /\ Now.peer[a].session = "live"
  BY NowIs DEF Drains, Drainable
<1>2. Base(x) /\ Lawful(Now, x) /\ SendsKnown(x) /\ Hopeful(x) /\ x.peer = Now.peer
  BY NowGood, NowIs, Absorbs
<1> HIDE DEF x
<1>3. /\ Base(y) /\ Still(x, y) /\ SendsKnown(y) /\ Hopeful(y)
      /\ \A b \in Agents : OverIn(x, b) => OverIn(y, b)
  <2>1. CASE y = Settled(x, a, "no")
    BY <1>2, <2>1, Settles
  <2>2. CASE y = Wake(x, a)
    BY <1>1, <1>2, <2>2, Wakes
  <2> QED
    BY <2>1, <2>2
<1> HIDE DEF y
<1>4. Lawful(Now, y)
  BY <1>2, <1>3, ThenStill
<1> QED
  BY <1>1, <1>3, <1>4 DEF Arrives, Good

\* Or it stays where it is.
LEMMA DrainStandsDownArrives ==
    ASSUME IInv, NEW a \in Agents, DrainStandsDown(a) PROVE Arrives
<1> DEFINE y == Settled(Now, a, "blocked")
<1>1. Becomes(y)
  BY DEF DrainStandsDown
<1>2. Base(y) /\ Still(Now, y) /\ SendsKnown(y) /\ Hopeful(y)
  BY NowGood, Settles
<1> HIDE DEF y
<1> QED
  BY <1>1, <1>2, StillArrives DEF Good

\* The queues of a session that is over.
LEMMA FlushedIs ==
    ASSUME NEW x, Base(x), SendsKnown(x), NEW a \in Agents, NEW p \in Peers, RowKnown(p),
           p.session # "live", NEW y, y = Flushed(WithRow(x, a, p), a)
    PROVE  /\ Base(y) /\ Lawful(x, y) /\ SendsKnown(y)
           /\ (Hopeful(x) /\ Stays(x, a, p) => Hopeful(y))
<1> DEFINE z == WithRow(x, a, p)
           ms == ToSet(z.records[a])
<1>1. /\ Base(z) /\ Still(x, z) /\ z.peer[a] = p /\ SendsKnown(z)
      /\ Hopeful(x) /\ Stays(x, a, p) => Hopeful(z)
  BY RowChanges
<1>2. y = Show(Emptied(z, a), ms)
  BY DEF Flushed, Emptied
<1> HIDE DEF z
<1>3. OverIn(z, a)
  BY <1>1 DEF OverIn
<1>4. ms \in SUBSET Msgs
  BY <1>1, OwnQueues
<1>5. Clears(z, a, ms)
  BY <1>3 DEF Clears
<1> HIDE DEF ms
<1>6. /\ Base(y) /\ Lawful(z, y) /\ (SendsKnown(z) => SendsKnown(y))
      /\ (Hopeful(z) => Hopeful(y))
  BY <1>1, <1>2, <1>4, <1>5, Cleared
<1> QED
  BY <1>1, <1>6, StillThen

\* A session is disposed.
LEMMA DisposesArrives == ASSUME IInv, NEW a \in Agents, Disposes(a) PROVE Arrives
<1> DEFINE p == [Now.peer[a] EXCEPT !.session = "disposed", !.settling = "no"]
           y == Flushed(WithRow(Now, a, p), a)
<1>1. Now.peer[a].session = "live"
  BY NowIs DEF Disposes
<1>2. p \in Peers /\ p.status = Now.peer[a].status /\ p.session = "disposed"
  BY NowGood, Rows
<1>3. Becomes(y)
  BY DEF Disposes, WithRow
<1> HIDE DEF p
<1>4. RowKnown(p) /\ Stays(Now, a, p)
  BY <1>1, <1>2, NowGood DEF Base, PeersKnown, RowKnown, Stays
<1>5. Base(y) /\ Lawful(Now, y) /\ SendsKnown(y) /\ Hopeful(y)
  BY <1>2, <1>4, NowGood, FlushedIs
<1> HIDE DEF y
<1> QED
  BY <1>3, <1>5 DEF Arrives, Good

\* An idle agent is parked.
LEMMA ParksArrives == ASSUME IInv, NEW a \in Agents, Parks(a) PROVE Arrives
<1> DEFINE p == [Now.peer[a] EXCEPT !.status = "parked", !.session = "none", !.settling = "no"]
           z == Flushed(WithRow(Now, a, p), a)
           y == Notice(z)
<1>1. Becomes(y)
  BY DEF Parks, WithRow
<1>2. p \in Peers /\ p.status = "parked" /\ p.session = "none"
  BY NowGood, Rows
<1> HIDE DEF p
<1>3. RowKnown(p)
  BY <1>2 DEF RowKnown
<1>4. Base(z) /\ Lawful(Now, z) /\ SendsKnown(z)
  BY <1>2, <1>3, NowGood, FlushedIs
<1> HIDE DEF z
<1>5. Base(y) /\ Still(z, y) /\ y.peer = z.peer /\ Hopeful(y) /\ SendsKnown(y)
  BY <1>4, Noticed
<1> HIDE DEF y
<1>6. Lawful(Now, y)
  BY <1>4, <1>5, ThenStill DEF OverIn
<1> QED
  BY <1>1, <1>5, <1>6 DEF Arrives, Good

-----------------------------------------------------------------------------
\* Calls return.

Finished == [NoCall EXCEPT !.op = "done"]

Closed(x, c, y) ==
    /\ y \in World /\ y.peer = x.peer /\ y.msg = x.msg /\ y.mailbox = x.mailbox
    /\ y.records = x.records /\ y.steers = x.steers /\ y.drafts = x.drafts
    /\ y.shown = x.shown
    /\ y.call[c] = Finished /\ \A d \in Calls \ {c} : y.call[d] = x.call[d]
    /\ \A a \in Agents : /\ ToSet(y.waiters[a]) = ToSet(x.waiters[a]) \ {c}
                         /\ IsInjective(x.waiters[a]) => IsInjective(y.waiters[a])

\* The state after a call has returned.
LEMMA CloseIs ==
    ASSUME NEW x \in World, NEW c \in Calls, NEW y, y = Close(x, c)
    PROVE  Closed(x, c, y)
<1> DEFINE z == GiveUp(x, {c})
<1>1. {c} \in SUBSET Calls
  OBVIOUS
<1>2. /\ z \in World /\ z.peer = x.peer /\ z.msg = x.msg /\ z.mailbox = x.mailbox
      /\ z.records = x.records /\ z.steers = x.steers /\ z.drafts = x.drafts
      /\ z.shown = x.shown
      /\ \A d \in Calls \ {c} : z.call[d] = x.call[d]
      /\ \A a \in Agents : /\ ToSet(z.waiters[a]) = ToSet(x.waiters[a]) \ {c}
                           /\ IsInjective(x.waiters[a]) => IsInjective(z.waiters[a])
  BY <1>1, GiveUpIs
<1>3. y = [z EXCEPT !.call[c] = Finished]
  BY DEF Close, Finished
<1>4. Finished \in HubCalls
  BY DEF Finished, NoCall, HubCalls
<1> HIDE DEF z
<1>5. z.call \in [Calls -> HubCalls] /\ [z.call EXCEPT ![c] = Finished] \in [Calls -> HubCalls]
  BY <1>2, <1>4, Fields
<1>6. y = [z EXCEPT !.call = [z.call EXCEPT ![c] = Finished]]
  BY <1>2, <1>3 DEF World
<1>7. /\ y \in World /\ y.peer = z.peer /\ y.msg = z.msg /\ y.mailbox = z.mailbox
      /\ y.waiters = z.waiters /\ y.records = z.records /\ y.steers = z.steers
      /\ y.drafts = z.drafts /\ y.shown = z.shown
      /\ y.call = [z.call EXCEPT ![c] = Finished]
  BY ONLY <1>2, <1>5, <1>6 DEF World
<1>8. y.call[c] = Finished /\ \A d \in Calls \ {c} : y.call[d] = z.call[d]
  BY <1>5, <1>7
<1> QED
  BY <1>2, <1>7, <1>8 DEF Closed

\* The messages ms are shown, or forgotten.
Dropped(x, m) == [x.msg[m] EXCEPT !.st = "discarded"]
Handled(x, w, ms) ==
    /\ w \in World /\ w.peer = x.peer /\ w.mailbox = x.mailbox /\ w.waiters = x.waiters
    /\ w.records = x.records /\ w.steers = x.steers /\ w.call = x.call /\ w.drafts = x.drafts
    /\ \A m \in Msgs \ ms : w.msg[m] = x.msg[m] /\ w.shown[m] = x.shown[m]
    /\ \A m \in ms : \/ w.msg[m] = x.msg[m] /\ w.shown[m] = x.shown[m] + 1
                     \/ /\ w.msg[m] = Dropped(x, m) /\ w.shown[m] = x.shown[m]
                        /\ x.msg[m].receipt = "ok" /\ SnubbedIn(x, m)
InHand(x, c) == {x.call[c].got} \ {None}

\* A call returns what it has in its hand.
LEMMA Closes ==
    ASSUME NEW x, Good(x), NEW c \in Calls, x.call[c].by \in Agents,
           NEW w, Handled(x, w, InHand(x, c)), NEW y, y = Close(w, c)
    PROVE  Good(y) /\ Lawful(x, y)
<1> DEFINE ms == InHand(x, c)
<1>1. Base(x) /\ SendsKnown(x) /\ Hopeful(x) /\ x \in World
  BY DEF Good, Base
<1>2. /\ w \in World /\ w.peer = x.peer /\ w.mailbox = x.mailbox /\ w.waiters = x.waiters
      /\ w.records = x.records /\ w.steers = x.steers /\ w.call = x.call /\ w.drafts = x.drafts
  BY DEF Handled
<1>3. ms \subseteq Msgs
  BY <1>1, Fields DEF InHand, HubCalls
<1>30. Closed(w, c, y)
  BY <1>2, CloseIs
<1>4. /\ y \in World /\ y.peer = x.peer /\ y.msg = w.msg /\ y.mailbox = x.mailbox
      /\ y.records = x.records /\ y.steers = x.steers /\ y.drafts = x.drafts
      /\ y.shown = w.shown
      /\ y.call[c] = Finished /\ \A d \in Calls \ {c} : y.call[d] = x.call[d]
  BY <1>2, <1>30 DEF Closed
<1>5. \A a \in Agents : /\ ToSet(y.waiters[a]) = ToSet(x.waiters[a]) \ {c}
                        /\ IsInjective(x.waiters[a]) => IsInjective(y.waiters[a])
  BY <1>2, <1>30 DEF Closed
<1>6. /\ \A m \in Msgs \ ms : y.msg[m] = x.msg[m] /\ y.shown[m] = x.shown[m]
      /\ \A m \in ms : \/ y.msg[m] = x.msg[m] /\ y.shown[m] = x.shown[m] + 1
                       \/ /\ y.msg[m] = Dropped(x, m) /\ y.shown[m] = x.shown[m]
                          /\ x.msg[m].receipt = "ok" /\ SnubbedIn(x, m)
  BY <1>4 DEF Handled
<1>7. \A m \in ms : /\ x.msg[m].st = "sent" /\ x.shown[m] = 0 /\ m = x.call[c].got /\ m # None
                    /\ \A a \in Agents : ~Holds(x, a, m)
                    /\ \A d \in Calls : x.call[d].got = m => d = c
  BY <1>1 DEF InHand, Base, GotKnown, Lies
<1>8. \A m \in Msgs : Dropped(x, m).st = "discarded" /\ Dropped(x, m).from = x.msg[m].from
                      /\ Dropped(x, m).to = x.msg[m].to /\ Dropped(x, m).call = x.msg[m].call
                      /\ Dropped(x, m).receipt = x.msg[m].receipt
  <2>1. \A l \in Letters : /\ [l EXCEPT !.st = "discarded"].st = "discarded"
                           /\ [l EXCEPT !.st = "discarded"].from = l.from
                           /\ [l EXCEPT !.st = "discarded"].to = l.to
                           /\ [l EXCEPT !.st = "discarded"].call = l.call
                           /\ [l EXCEPT !.st = "discarded"].receipt = l.receipt
    BY DEF Letters
  <2>2. \A m \in Msgs : x.msg[m] \in Letters
    BY <1>1, Fields
  <2> QED
    BY <2>1, <2>2 DEF Dropped
<1>9. /\ Finished.op = "done" /\ Finished.by = None /\ Finished.from = None
      /\ Finished.wait = "no" /\ Finished.got = None
  BY DEF Finished, NoCall
<1> HIDE DEF ms
<1>10. PeersKnown(y)
  BY <1>1, <1>4 DEF Base, PeersKnown
<1>11. \A m \in Msgs : /\ y.msg[m].from = x.msg[m].from /\ y.msg[m].to = x.msg[m].to
                       /\ y.msg[m].call = x.msg[m].call /\ y.msg[m].receipt = x.msg[m].receipt
  BY <1>6, <1>8
<1>12. LettersKnown(y)
  <2> SUFFICES ASSUME NEW m \in Msgs
               PROVE  /\ y.msg[m].st = "unsent" => y.msg[m] = Unwritten
                      /\ y.msg[m].st # "unsent" => y.msg[m].from \in Agents /\ y.msg[m].to \in Agents
                      /\ y.msg[m].st \in {"unsent", "gate", "failing"} =>
                            y.msg[m].receipt = "none" /\ y.shown[m] = 0
                      /\ y.msg[m].st \in {"sent", "discarded"} => y.msg[m].receipt # "none"
                      /\ y.shown[m] > 0 => y.shown[m] = 1 /\ y.msg[m].st = "sent"
                      /\ y.msg[m].st = "discarded" => y.msg[m].receipt = "ok"
    BY DEF LettersKnown
  <2>1. CASE m \in ms
    <3>1. x.msg[m].from \in Agents /\ x.msg[m].to \in Agents /\ x.msg[m].receipt # "none"
      BY <1>1, <1>7, <2>1 DEF Base, LettersKnown
    <3>2. \/ y.msg[m].st = "sent" /\ y.shown[m] = 1
          \/ y.msg[m].st = "discarded" /\ y.shown[m] = 0 /\ x.msg[m].receipt = "ok"
      BY <1>6, <1>7, <1>8, <2>1
    <3> QED
      BY <1>11, <3>1, <3>2
  <2>2. CASE m \notin ms
    BY <1>1, <1>6, <2>2 DEF Base, LettersKnown
  <2> QED
    BY <2>1, <2>2
<1>13. \A a \in Agents : \A m \in Msgs : Holds(y, a, m) <=> Holds(x, a, m)
  BY <1>4 DEF Holds
<1>14. PlacesKnown(y)
  <2>1. \A a \in Agents : /\ ToSet(x.mailbox[a]) \subseteq Msgs /\ ToSet(x.records[a]) \subseteq Msgs
                          /\ x.steers[a] \subseteq Msgs
    BY <1>1, OwnQueues
  <2>2. \A a \in Agents : \A m \in Msgs : Holds(x, a, m) =>
                             y.msg[m] = x.msg[m] /\ y.shown[m] = x.shown[m]
    BY <1>6, <1>7
  <2>3. \A a \in Agents : \A m \in Msgs : \A r : Holds(x, a, m) /\ Lies(x, m, a, r) => Lies(y, m, a, r)
    BY <2>2 DEF Lies
  <2>4. \A a \in Agents :
           /\ \A m \in ToSet(x.mailbox[a]) : Lies(y, m, a, "failed")
           /\ \A m \in ToSet(x.records[a]) : Lies(y, m, a, "ok") /\ x.msg[m].from # Root
           /\ \A m \in x.steers[a] : Lies(y, m, a, "ok") /\ x.msg[m].from = Root
           /\ Len(x.mailbox[a]) <= MailboxCap
    BY <1>1, <2>1, <2>3 DEF Base, PlacesKnown, Holds
  <2>5. \A a \in Agents : /\ \A m \in ToSet(x.records[a]) : y.msg[m].from = x.msg[m].from
                          /\ \A m \in x.steers[a] : y.msg[m].from = x.msg[m].from
    BY <1>11, <2>1
  <2> QED
    BY <1>4, <2>4, <2>5 DEF PlacesKnown
<1>15. CallsKnown(y)
  BY <1>1, <1>4, <1>9, Bounds DEF Base, CallsKnown
<1>16. GotKnown(y)
  <2> SUFFICES ASSUME NEW d \in Calls, NEW n, n = y.call[d].got, n # None
               PROVE  /\ Lies(y, n, y.call[d].by, y.msg[n].receipt)
                      /\ y.call[d].op = "send" => y.msg[n].receipt = "ok" /\ y.msg[n].from = y.call[d].from
                      /\ \A e \in Calls : y.call[e].got = n => e = d
                      /\ \A b \in Agents : ~Holds(y, b, n)
    BY DEF GotKnown
  <2>1. d # c /\ y.call[d] = x.call[d]
    BY <1>4, <1>9
  <2>2. n \in Msgs
    BY <1>1, <2>1, Fields DEF HubCalls
  <2>3. /\ Lies(x, n, x.call[d].by, x.msg[n].receipt)
        /\ x.call[d].op = "send" => x.msg[n].receipt = "ok" /\ x.msg[n].from = x.call[d].from
        /\ \A e \in Calls : x.call[e].got = n => e = d
        /\ \A b \in Agents : ~Holds(x, b, n)
    BY <1>1, <2>1 DEF Base, GotKnown
  <2>4. n \notin ms
    BY <1>7, <2>1
  <2>5. y.msg[n] = x.msg[n] /\ y.shown[n] = x.shown[n]
    BY <1>6, <2>2, <2>4
  <2>6. \A e \in Calls : y.call[e].got = n => e = d
    BY <1>4, <1>9, <2>3
  <2> QED
    BY <1>13, <2>1, <2>2, <2>3, <2>5, <2>6 DEF Lies
<1>17. WaitersKnown(y)
  <2>1. \A d \in Calls : Parked(y, d) <=> Parked(x, d) /\ d # c
    BY <1>4, <1>9 DEF Parked
  <2>2. \A d \in Calls : Parked(x, d) => x.call[d].by \in Agents
    BY <1>1, Fields DEF Base, CallsKnown, Parked, HubCalls
  <2>3. \A b \in Agents : ToSet(x.waiters[b]) \subseteq Calls
    BY <1>1, Fields, SetOf
  <2>4. \A b \in Agents : IsInjective(y.waiters[b])
    BY <1>1, <1>5 DEF Base, WaitersKnown
  <2>5. \A b \in Agents : \A d \in ToSet(y.waiters[b]) : Parked(y, d) /\ y.call[d].by = b
    BY <1>1, <1>4, <1>5, <2>1, <2>3 DEF Base, WaitersKnown
  <2>6. \A d \in Calls : Parked(y, d) => d \in ToSet(y.waiters[y.call[d].by])
    BY <1>1, <1>4, <1>5, <2>1, <2>2 DEF Base, WaitersKnown
  <2> QED
    BY <2>4, <2>5, <2>6 DEF WaitersKnown
<1>18. DraftsKnown(y)
  <2>1. \A m \in Msgs : x.msg[m].st # "unsent" => y.msg[m].st # "unsent"
    BY <1>6, <1>7, <1>8
  <2>2. x.drafts \subseteq Msgs
    BY <1>1, Fields
  <2> QED
    BY <1>1, <1>4, <2>1, <2>2 DEF Base, DraftsKnown
<1>19. Base(y)
  BY <1>4, <1>10, <1>12, <1>14, <1>15, <1>16, <1>17, <1>18 DEF Base
<1>20. SendsKnown(y)
  <2>1. \A d \in Calls \ {c} : Leg(x, d) => Leg(y, d)
    BY <1>4, <1>11 DEF Leg
  <2> QED
    BY <1>1, <1>4, <1>9, <2>1 DEF SendsKnown
<1>21. Hopeful(y)
  BY <1>1, <1>4, <1>9 DEF Hopeful, Hope, RunningPeers
<1>22. Lawful(x, y)
  <2> SUFFICES ASSUME NEW m \in Msgs PROVE Rests(x, y, m) \/ Shows(x, y, m) \/ Discards(x, y, m)
    BY DEF Lawful
  <2>1. CASE m \in ms
    <3>1. Somewhere(x, m)
      BY <1>7, <2>1 DEF Somewhere
    <3> QED
      BY <1>6, <2>1, <3>1 DEF Shows, Discards, Dropped
  <2>2. CASE m \notin ms
    <3>1. m # None /\ m # x.call[c].got
      BY <2>2, Bounds DEF ms, InHand
    <3>2. \A d \in Calls : y.call[d].got = m <=> x.call[d].got = m
      BY <1>4, <1>9, <3>1
    <3>3. Somewhere(y, m) <=> Somewhere(x, m)
      BY <1>13, <3>2 DEF Somewhere
    <3> QED
      BY <1>6, <2>2, <3>3 DEF Rests
  <2> QED
    BY <2>1, <2>2
<1> QED
  BY <1>19, <1>20, <1>21, <1>22 DEF Good

\* What the model does with a call that returns a message, or nothing.
LEMMA Returns ==
    ASSUME IInv, NEW c \in Calls, Now.call[c].by \in Agents,
           NEW y, y = Close(Show(Now, Got(c)), c)
    PROVE  Good(y) /\ Lawful(Now, y)
<1> DEFINE w == Show(Now, Got(c))
<1>1. Got(c) = InHand(Now, c) /\ InHand(Now, c) \in SUBSET Msgs /\ Now \in World
  BY NowGood, NowIs, Fields DEF Got, InHand, HubCalls
<1>2. w = Show(Now, InHand(Now, c))
  BY <1>1
<1>3. y = Close(w, c)
  OBVIOUS
<1> HIDE DEF w
<1>4. /\ w \in World /\ w.peer = Now.peer /\ w.msg = Now.msg /\ w.mailbox = Now.mailbox
      /\ w.waiters = Now.waiters /\ w.records = Now.records /\ w.steers = Now.steers
      /\ w.call = Now.call /\ w.drafts = Now.drafts
      /\ \A m \in InHand(Now, c) : w.shown[m] = Now.shown[m] + 1
      /\ \A m \in Msgs \ InHand(Now, c) : w.shown[m] = Now.shown[m]
  BY <1>1, <1>2, Showing
<1>5. Handled(Now, w, InHand(Now, c))
  BY <1>4 DEF Handled
<1> QED
  BY <1>3, <1>5, NowGood, Closes

\* A wait returns.
LEMMA WaitReturnsArrives == ASSUME IInv, NEW c \in Calls, WaitReturns(c) PROVE Arrives
<1> DEFINE y == Close(Show(Now, Got(c)), c)
<1>1. Becomes(y)
  BY DEF WaitReturns
<1>2. Now.call[c].by \in Agents
  BY NowGood, NowIs DEF WaitReturns, Base, CallsKnown
<1>3. Good(y) /\ Lawful(Now, y)
  BY <1>2, Returns
<1> HIDE DEF y
<1> QED
  BY <1>1, <1>3 DEF Arrives

\* A race returns.
LEMMA JobWaitReturnsArrives == ASSUME IInv, NEW c \in Calls, JobWaitReturns(c) PROVE Arrives
<1> DEFINE y == Close(Show(Now, Got(c)), c)
<1>1. Becomes(y)
  BY DEF JobWaitReturns
<1>2. Now.call[c].by \in Agents
  BY NowGood, NowIs DEF JobWaitReturns, Base, CallsKnown
<1>3. Good(y) /\ Lawful(Now, y)
  BY <1>2, Returns
<1> HIDE DEF y
<1> QED
  BY <1>1, <1>3 DEF Arrives

\* A send returns; one that failed forgets what its waiter took.
LEMMA SendReturnsArrives == ASSUME IInv, NEW c \in Calls, SendReturns(c) PROVE Arrives
<1>1. Now.call[c].by \in Agents /\ Now.call[c].op = "send" /\ Now \in World
  BY NowGood, NowIs DEF SendReturns, Base, CallsKnown
<1>2. CASE Delivered(c)
  <2> DEFINE y == Close(Show(Now, Got(c)), c)
  <2>1. Becomes(y)
    BY <1>2 DEF SendReturns
  <2>2. Good(y) /\ Lawful(Now, y)
    BY <1>1, Returns
  <2> HIDE DEF y
  <2> QED
    BY <2>1, <2>2 DEF Arrives
<1>3. CASE ~Delivered(c)
  <2> DEFINE f == [m \in Msgs |-> IF m \in Got(c) THEN [Now.msg[m] EXCEPT !.st = "discarded"]
                                  ELSE Now.msg[m]]
             w == [Now EXCEPT !.msg = f]
             y == Close(w, c)
  <2>1. Becomes(y)
    BY <1>3 DEF SendReturns
  <2>2. Got(c) = InHand(Now, c) /\ InHand(Now, c) \subseteq Msgs
    BY <1>1, NowIs, Fields DEF Got, InHand, HubCalls
  <2>3. f \in [Msgs -> Letters]
    <3>1. \A l \in Letters : [l EXCEPT !.st = "discarded"] \in Letters
      BY DEF Letters
    <3>2. \A m \in Msgs : Now.msg[m] \in Letters
      BY <1>1, Fields
    <3>3. \A m \in Msgs : f[m] \in Letters
      BY <3>1, <3>2
    <3> QED
      BY <3>3
  <2>4. \A m \in Msgs : /\ m \in InHand(Now, c) => f[m] = Dropped(Now, m)
                        /\ m \notin InHand(Now, c) => f[m] = Now.msg[m]
    BY <2>2 DEF Dropped
  <2> HIDE DEF f
  <2>5. /\ w \in World /\ w.peer = Now.peer /\ w.msg = f /\ w.mailbox = Now.mailbox
        /\ w.waiters = Now.waiters /\ w.records = Now.records /\ w.steers = Now.steers
        /\ w.call = Now.call /\ w.drafts = Now.drafts /\ w.shown = Now.shown
    BY ONLY <1>1, <2>3 DEF World
  <2>6. \A m \in InHand(Now, c) : Now.msg[m].receipt = "ok" /\ SnubbedIn(Now, m)
    <3> SUFFICES ASSUME NEW m, m = Now.call[c].got, m # None
                 PROVE  Now.msg[m].receipt = "ok" /\ SnubbedIn(Now, m)
      BY DEF InHand
    <3>1. /\ Now.msg[m].receipt = "ok" /\ Now.msg[m].from = Now.call[c].from
          /\ Now.msg[m].to = Now.call[c].by
      BY <1>1, NowGood DEF Base, GotKnown, Lies
    <3>2. Now.call[c].from # None
      BY <1>1, NowGood DEF Base, CallsKnown
    <3>3. PICK n \in Msgs : /\ Now.msg[n].call = c /\ Now.msg[n].from = Now.call[c].by
                            /\ Now.msg[n].to = Now.call[c].from
      BY <1>1, <3>2, NowGood DEF SendsKnown, Leg
    <3>4. Now.msg[n].receipt \notin {"none", "ok"}
      BY <1>3, <3>3, NowIs DEF SendReturns, Legs, Delivered
    <3>5. Now.msg[n].receipt \in {"none", "ok", "failed"}
      BY <1>1, Fields DEF Letters
    <3> QED
      BY <3>1, <3>3, <3>4, <3>5 DEF SnubbedIn
  <2> HIDE DEF w
  <2>7. Handled(Now, w, InHand(Now, c))
    BY <2>2, <2>4, <2>5, <2>6 DEF Handled
  <2>8. Good(y) /\ Lawful(Now, y)
    BY <1>1, <2>7, NowGood, Closes
  <2> HIDE DEF y
  <2> QED
    BY <2>1, <2>8 DEF Arrives
<1> QED
  BY <1>2, <1>3

-----------------------------------------------------------------------------
\* The invariant.

\* The invariant holds at the start.
LEMMA Initially == Init => IInv
<1> SUFFICES ASSUME Init PROVE Good(Now)
  BY DEF IInv
<1>1. /\ \A a \in Agents : /\ Now.peer[a].status = "running" /\ Now.peer[a].session = "live"
                           /\ Now.mailbox[a] = <<>> /\ Now.waiters[a] = <<>>
                           /\ Now.records[a] = <<>> /\ Now.steers[a] = {}
      /\ \A m \in Msgs : Now.msg[m] = Unwritten /\ Now.shown[m] = 0
      /\ \A c \in Calls : Now.call[c] = NoCall
      /\ Now.drafts = {}
  BY NowIs DEF Init
<1>2. /\ Unwritten \in Letters /\ Unwritten.st = "unsent" /\ Unwritten.receipt = "none"
      /\ NoCall \in HubCalls /\ NoCall.op = "none" /\ NoCall.by = None /\ NoCall.from = None
      /\ NoCall.wait = "no" /\ NoCall.got = None
  BY DEF Unwritten, Letters, NoCall, HubCalls
<1>3. Now \in World
  <2>1. peer \in [Agents -> Peers]
    BY DEF Init, Peers
  <2>2. msg \in [Msgs -> Letters] /\ call \in [Calls -> HubCalls]
    BY <1>2 DEF Init
  <2>3. /\ mailbox \in [Agents -> Seq(Msgs)] /\ waiters \in [Agents -> Seq(Calls)]
        /\ records \in [Agents -> Seq(Msgs)] /\ steers \in [Agents -> SUBSET Msgs]
    BY OfNone DEF Init
  <2>4. drafts \in SUBSET Msgs /\ shown \in [Msgs -> Nat]
    BY DEF Init
  <2> QED
    BY <2>1, <2>2, <2>3, <2>4 DEF World, Now
<1>4. PeersKnown(Now) /\ LettersKnown(Now) /\ DraftsKnown(Now)
  BY <1>1, <1>2 DEF PeersKnown, LettersKnown, DraftsKnown
<1>5. PlacesKnown(Now)
  <2>1. Len(<<>>) <= MailboxCap
    BY BoundsAssumption
  <2> QED
    BY <1>1, <2>1, OfNone DEF PlacesKnown
<1>6. CallsKnown(Now) /\ GotKnown(Now)
  BY <1>1, <1>2, Bounds DEF CallsKnown, GotKnown
<1>7. WaitersKnown(Now)
  BY <1>1, <1>2, OfNone DEF WaitersKnown, Parked
<1>8. SendsKnown(Now) /\ Hopeful(Now)
  BY <1>1, <1>2 DEF SendsKnown, Hopeful
<1> QED
  BY <1>3, <1>4, <1>5, <1>6, <1>7, <1>8 DEF Good, Base

\* Every action keeps the invariant, and does only what is lawful to messages.
LEMMA ActionsArrive == ASSUME IInv, Next PROVE Arrives
<1>1. CASE \E m \in Msgs : \/ GateOpens(m) \/ ReviveFails(m) \/ HandOverFails(m)
                           \/ AutoReplyFails(m) \/ \E r \in Msgs : AutoReply(m, r)
  BY <1>1, GateOpensArrives, ReviveFailsArrives, HandOverFailsArrives, AutoReplyFailsArrives,
     AutoReplyArrives
<1>2. CASE \E c \in Calls, a \in Agents :
              \/ \E b \in Agents, m \in Msgs, await \in BOOLEAN : Send(c, a, b, await, m)
              \/ \E letter \in Injection(Audience(a), Msgs) : Broadcast(c, a, letter)
              \/ \E from \in Agents \cup {None} : Wait(c, a, from) \/ JobWait(c, a, from)
  BY <1>2, SendArrives, BroadcastArrives, WaitArrives, JobWaitArrives
<1>3. CASE \E c \in Calls :
              \/ RaceEnds(c) \/ Timeout(c) \/ Interrupt(c) \/ UserAborts(c)
              \/ WaitReturns(c) \/ JobWaitReturns(c) \/ SendReturns(c)
  BY <1>3, RaceEndsArrives, GiveUpArrives, WaitReturnsArrives, JobWaitReturnsArrives,
     SendReturnsArrives
<1>4. CASE \E a \in Agents :
              \/ \E from \in Agents \cup {None} :
                    WaitTakesRecord(a, from) \/ WaitTakesMail(a, from)
              \/ \E peek \in BOOLEAN : Inbox(a, peek)
              \/ Boundary(a) \/ TurnEnds(a) \/ Drains(a) \/ DrainStandsDown(a) \/ TurnStarts(a)
              \/ Parks(a) \/ Disposes(a) \/ \E status \in {"parked", "gone"} : Leaves(a, status)
  BY <1>4, WaitTakesRecordArrives, WaitTakesMailArrives, InboxArrives, BoundaryArrives,
     TurnEndsArrives, DrainsArrives, DrainStandsDownArrives, TurnStartsArrives, ParksArrives,
     DisposesArrives, LeavesArrives
<1> QED
  BY <1>1, <1>2, <1>3, <1>4 DEF Next

\* A state is made of its fields.
LEMMA Whole == ASSUME NEW y \in World
               PROVE  y = [peer |-> y.peer, msg |-> y.msg, mailbox |-> y.mailbox,
                           waiters |-> y.waiters, records |-> y.records, steers |-> y.steers,
                           call |-> y.call, drafts |-> y.drafts, shown |-> y.shown]
BY DEF World

\* So does every step.
LEMMA NextStep == ASSUME IInv, [Next]_vars
                  PROVE  Good(Now') /\ Lawful(Now, Now')
<1>1. CASE Next
  <2>1. PICK y : Becomes(y) /\ Good(y) /\ Lawful(Now, y)
    BY <1>1, ActionsArrive DEF Arrives
  <2>2. y = [peer |-> y.peer, msg |-> y.msg, mailbox |-> y.mailbox,
             waiters |-> y.waiters, records |-> y.records, steers |-> y.steers,
             call |-> y.call, drafts |-> y.drafts, shown |-> y.shown]
    BY <2>1, Whole DEF Good, Base
  <2>3. Now' = y
    BY <2>1, <2>2 DEF Becomes, Now
  <2> QED
    BY <2>1, <2>3
<1>2. CASE UNCHANGED vars
  <2>1. Now' = Now
    BY <1>2 DEF Now, vars
  <2>2. Lawful(Now, Now)
    BY DEF Lawful, Rests
  <2> QED
    BY <2>1, <2>2 DEF IInv
<1> QED
  BY <1>1, <1>2

\* The invariant, for any number of agents, messages and calls and any mailbox cap.
THEOREM Invariance == Spec => []IInv
<1>1. IInv /\ [Next]_vars => IInv'
  BY NextStep DEF IInv
<1> QED
  BY Initially, <1>1, PTL DEF Spec

-----------------------------------------------------------------------------
\* What the runs check.

\* A message is in one place, or in none.
LEMMA AtOnePlace == ASSUME IInv, NEW m \in Msgs
                    PROVE  /\ Cardinality(Places(m)) <= 1
                           /\ \A pl \in Places(m) : msg[m].st = "sent"
<1>1. Base(Now)
  BY NowGood
<1>2. /\ \A a \in Agents : m \in ToSet(mailbox[a]) =>
              msg[m].to = a /\ msg[m].receipt = "failed" /\ msg[m].st = "sent"
      /\ \A a \in Agents : m \in ToSet(records[a]) =>
              msg[m].to = a /\ msg[m].receipt = "ok" /\ msg[m].from # Root /\ msg[m].st = "sent"
      /\ \A a \in Agents : m \in steers[a] =>
              msg[m].to = a /\ msg[m].receipt = "ok" /\ msg[m].from = Root /\ msg[m].st = "sent"
  BY <1>1, NowIs DEF Base, PlacesKnown, Lies
<1>3. \A c \in Calls : call[c].got = m =>
         /\ msg[m].st = "sent" /\ \A d \in Calls : call[d].got = m => d = c
         /\ \A a \in Agents : m \notin ToSet(mailbox[a]) /\ m \notin ToSet(records[a])
                              /\ m \notin steers[a]
  BY <1>1, NowIs, Bounds DEF Base, GotKnown, Lies, Holds
<1>4. \A p, q \in Places(m) : p = q
  <2>1. \A p \in Places(m) :
           \/ \E a \in Agents : p = <<"mailbox", a>> /\ m \in ToSet(mailbox[a])
           \/ \E a \in Agents : p = <<"records", a>> /\ m \in ToSet(records[a])
           \/ \E a \in Agents : p = <<"steers", a>> /\ m \in steers[a]
           \/ \E c \in Calls : p = <<"call", c>> /\ call[c].got = m
    BY DEF Places
  <2> QED
    BY <1>2, <1>3, <2>1
<1>5. \A p \in Places(m) : msg[m].st = "sent"
  BY <1>2, <1>3 DEF Places
<1>6. CASE Places(m) = {}
  <2>1. Cardinality(Places(m)) = 0
    BY <1>6, FS_EmptySet
  <2> QED
    BY <1>5, <2>1
<1>7. CASE Places(m) # {}
  <2>1. PICK p : p \in Places(m)
    BY <1>7
  <2>2. Places(m) = {p}
    BY <1>4, <2>1
  <2>3. Cardinality(Places(m)) = 1
    BY <2>2, FS_Singleton
  <2> QED
    BY <1>5, <2>3
<1> QED
  BY <1>6, <1>7

\* Every variable has its type, and a message that was sent is in one mailbox, queue or
\* call, or in none, however the sends, waits and turns of its recipient interleave.
THEOREM TypeCorrect == Spec => []TypeOK
<1>1. IInv => TypeOK
  <2> SUFFICES ASSUME IInv PROVE TypeOK
    OBVIOUS
  <2>1. Now \in World /\ Base(Now)
    BY NowGood
  <2>2. peer \in [Agents -> Peers] /\ drafts \subseteq Msgs /\ shown \in [Msgs -> Nat]
    BY <2>1, Fields, NowIs
  <2>3. \A m \in Msgs : /\ msg[m].st \in {"unsent", "gate", "failing", "sent", "discarded"}
                        /\ msg[m].receipt \in {"none", "ok", "failed"}
    BY <2>1, Fields, NowIs DEF Letters
  <2>4. \A a \in Agents : Len(mailbox[a]) <= MailboxCap
    BY <2>1, NowIs DEF Base, PlacesKnown
  <2> QED
    BY <2>2, <2>3, <2>4, AtOnePlace DEF TypeOK, Peers
<1> QED
  BY Invariance, <1>1, PTL

\* A waiter in the list stands for a call that still waits, and a call that waits is in the
\* list once.
THEOREM WaitersStandForCalls == Spec => []WaitersWait
<1>1. IInv => WaitersWait
  BY NowIs DEF IInv, Good, Base, WaitersKnown, WaitersWait
<1> QED
  BY Invariance, <1>1, PTL

\* Nobody sits in a plain wait for peers of which none is running any more.
THEOREM WaitsHaveHope == Spec => []NoHopelessWait
<1>1. IInv => NoHopelessWait
  BY NowIs DEF IInv, Good, Hopeful, NoHopelessWait
<1> QED
  BY Invariance, <1>1, PTL

-----------------------------------------------------------------------------
\* Every step is a step of MailContract.

PhaseIn(x, m) ==
    IF x.msg[m].st = "unsent" THEN "unsent"
    ELSE IF x.msg[m].st \in {"gate", "failing"} THEN "posted"
    ELSE IF x.shown[m] > 0 THEN "seen"
    ELSE IF x.msg[m].st = "discarded" THEN "discarded"
    ELSE IF x.msg[m].receipt = "ok" THEN IF Somewhere(x, m) THEN "held" ELSE "lost"
    ELSE IF Somewhere(x, m) THEN "kept" ELSE "refused"

Proceeds(x, y, m, p, q) ==
    \/ q = p
    \/ p = "unsent" /\ q \in {"posted", "held", "seen", "refused"}
    \/ p = "posted" /\ q \in {"held", "seen", "refused", "kept"}
    \/ p = "kept" /\ q \in {"seen", "refused"}
    \/ p = "held" /\ q = "seen"
    \/ p = "held" /\ q = "lost" /\ OverIn(y, x.msg[m].to)
    \/ p = "held" /\ q = "discarded" /\ SnubbedIn(x, m)

\* A lawful step moves a message as the contract allows.
LEMMA LawfulProceeds ==
    ASSUME NEW x, NEW y, Good(x), Good(y), Lawful(x, y), NEW m \in Msgs
    PROVE  Proceeds(x, y, m, PhaseIn(x, m), PhaseIn(y, m))
<1>1. /\ x.msg[m].st \in {"unsent", "gate", "failing", "sent", "discarded"}
      /\ y.msg[m].st \in {"unsent", "gate", "failing", "sent", "discarded"}
      /\ x.msg[m].receipt \in {"none", "ok", "failed"}
      /\ y.msg[m].receipt \in {"none", "ok", "failed"}
      /\ x.shown[m] \in Nat /\ y.shown[m] \in Nat
  BY Fields DEF Good, Base, Letters
<1>2. /\ y.msg[m].st \in {"sent", "discarded"} => y.msg[m].receipt # "none"
      /\ y.shown[m] > 0 => y.msg[m].st = "sent"
  BY DEF Good, Base, LettersKnown
<1>3. Somewhere(x, m) => x.msg[m].st = "sent" /\ x.shown[m] = 0
  <2>1. \A a \in Agents : Holds(x, a, m) => x.msg[m].st = "sent" /\ x.shown[m] = 0
    BY DEF Good, Base, PlacesKnown, Holds, Lies
  <2>2. \A c \in Calls : x.call[c].got = m => x.msg[m].st = "sent" /\ x.shown[m] = 0
    BY Bounds DEF Good, Base, GotKnown, Lies
  <2> QED
    BY <2>1, <2>2 DEF Somewhere
<1>4. CASE Sends(x, y, m)
  BY <1>1, <1>2, <1>4 DEF Sends, PhaseIn, Proceeds
<1>5. CASE Rests(x, y, m)
  BY <1>1, <1>2, <1>5 DEF Rests, PhaseIn, Proceeds
<1>6. CASE Shows(x, y, m)
  BY <1>1, <1>3, <1>6 DEF Shows, PhaseIn, Proceeds
<1>7. CASE Discards(x, y, m)
  <2>1. y.msg[m].st = "discarded"
    BY <1>7, Fields DEF Discards, Good, Base, Letters
  <2> QED
    BY <1>1, <1>3, <1>7, <2>1 DEF Discards, PhaseIn, Proceeds
<1> QED
  BY <1>4, <1>5, <1>6, <1>7 DEF Lawful

\* What the phase says of the receipt, and what stays as it is.
Receipts(x, m, p) == /\ p \in {"unsent", "posted"} <=> x.msg[m].receipt = "none"
                     /\ p = "held" => x.msg[m].receipt = "ok"
                     /\ p \in {"kept", "refused"} => x.msg[m].receipt = "failed"

\* The receipt of a message agrees with its phase.
LEMMA ReceiptsKnown == ASSUME NEW x, Good(x), NEW m \in Msgs
                       PROVE  Receipts(x, m, PhaseIn(x, m))
<1>1. /\ x.msg[m].st \in {"unsent", "gate", "failing", "sent", "discarded"}
      /\ x.msg[m].receipt \in {"none", "ok", "failed"} /\ x.shown[m] \in Nat
  BY Fields DEF Good, Base, Letters
<1>2. /\ x.msg[m].st \in {"unsent", "gate", "failing"} => x.msg[m].receipt = "none"
      /\ x.msg[m].st \in {"sent", "discarded"} => x.msg[m].receipt # "none"
  BY DEF Good, Base, LettersKnown
<1> QED
  BY <1>1, <1>2 DEF PhaseIn, Receipts

\* A lawful step writes a receipt once, and never changes a route.
LEMMA LawfulReceipts ==
    ASSUME NEW x, NEW y, Good(x), Good(y), Lawful(x, y), NEW m \in Msgs
    PROVE  /\ x.msg[m].receipt # "none" => y.msg[m].receipt = x.msg[m].receipt
           /\ PhaseIn(y, m) = "seen" /\ x.msg[m].receipt = "none" => y.msg[m].receipt = "ok"
           /\ x.msg[m].st # "unsent" => /\ y.msg[m].st # "unsent"
                                        /\ y.msg[m].from = x.msg[m].from
                                        /\ y.msg[m].to = x.msg[m].to
<1>1. /\ x.msg[m] \in Letters
      /\ x.msg[m].st \in {"unsent", "gate", "failing", "sent", "discarded"}
      /\ y.msg[m].st \in {"unsent", "gate", "failing", "sent", "discarded"}
      /\ y.msg[m].receipt \in {"none", "ok", "failed"}
      /\ x.shown[m] \in Nat /\ y.shown[m] \in Nat
  BY Fields DEF Good, Base, Letters
<1>2. /\ x.msg[m].st \in {"unsent", "gate", "failing"} => x.msg[m].receipt = "none"
      /\ x.msg[m].st \in {"sent", "discarded"} => x.msg[m].receipt # "none"
      /\ y.msg[m].st \in {"sent", "discarded"} => y.msg[m].receipt # "none"
  BY DEF Good, Base, LettersKnown
<1>3. CASE Sends(x, y, m)
  BY <1>1, <1>2, <1>3 DEF Sends, PhaseIn
<1>4. CASE Rests(x, y, m)
  BY <1>1, <1>2, <1>4 DEF Rests, PhaseIn
<1>5. CASE Shows(x, y, m)
  <2>1. x.msg[m].receipt # "none"
    <3>1. x.msg[m].st = "sent"
      <4>1. \A a \in Agents : Holds(x, a, m) => x.msg[m].st = "sent"
        BY DEF Good, Base, PlacesKnown, Holds, Lies
      <4>2. \A c \in Calls : x.call[c].got = m => x.msg[m].st = "sent"
        BY Bounds DEF Good, Base, GotKnown, Lies
      <4> QED
        BY <1>5, <4>1, <4>2 DEF Somewhere, Shows
    <3> QED
      BY <1>2, <3>1
  <2> QED
    BY <1>5, <2>1 DEF Shows
<1>6. CASE Discards(x, y, m)
  <2>1. /\ y.msg[m].st = "discarded" /\ y.msg[m].receipt = x.msg[m].receipt
        /\ y.msg[m].from = x.msg[m].from /\ y.msg[m].to = x.msg[m].to
    BY <1>1, <1>6 DEF Discards, Letters
  <2> QED
    BY <1>6, <2>1 DEF Discards
<1> QED
  BY <1>3, <1>4, <1>5, <1>6 DEF Lawful

\* The phases of the refinement are those of the state.
PhasesTold == \A m \in Msgs : PhaseOf(m) = PhaseIn(Now, m)

\* PhaseOf reads off the state what PhaseIn does: a message is never shown twice.
LEMMA PhasesAre == IInv => PhasesTold
<1> SUFFICES ASSUME IInv, NEW m \in Msgs PROVE PhaseOf(m) = PhaseIn(Now, m)
  BY DEF PhasesTold
<1>1. Base(Now) /\ Now \in World
  BY NowGood
<1>2. msg[m].receipt \in {"none", "ok", "failed"} /\ shown[m] \in Nat
      /\ msg[m].st \in {"unsent", "gate", "failing", "sent", "discarded"}
  BY <1>1, Fields, NowIs DEF Letters
<1>3. /\ shown[m] > 0 => shown[m] = 1
      /\ msg[m].st = "sent" => msg[m].receipt \in {"ok", "failed"} /\ msg[m].to \in Agents
  BY <1>1, <1>2, NowIs DEF Base, LettersKnown
<1>4. \A c \in Calls : call[c].got = m => call[c].by \in Agents
  BY <1>1, NowIs, Bounds, Fields DEF Base, CallsKnown, HubCalls
<1>5. /\ \A a \in Agents : m \in ToSet(mailbox[a]) => msg[m].receipt = "failed"
      /\ \A a \in Agents : m \in ToSet(records[a]) \/ m \in steers[a] =>
              msg[m].to = a /\ msg[m].receipt = "ok"
  BY <1>1, NowIs DEF Base, PlacesKnown, Lies
<1>6. msg[m].receipt = "ok" /\ msg[m].st = "sent" => (Held(m) <=> Somewhere(Now, m))
  BY <1>3, <1>5, NowIs DEF Held, Somewhere, Holds, Pending
<1>7. msg[m].receipt = "failed" => (Kept(m) <=> Somewhere(Now, m))
  BY <1>4, <1>5, NowIs DEF Kept, Somewhere, Holds, OpenCalls
<1> QED
  BY <1>2, <1>3, <1>6, <1>7, NowIs DEF PhaseOf, PhaseIn

\* Every step of the model is a step of the contract.
LEMMA StepsKeepContract == ASSUME IInv, [Next]_vars PROVE Contract!Next
<1> DEFINE ph == [m \in Msgs |-> PhaseOf(m)]
           rc == [m \in Msgs |-> msg[m].receipt]
           rt == [m \in Msgs |-> IF msg[m].st = "unsent" THEN <<>>
                                 ELSE <<msg[m].from, msg[m].to>>]
           ov == {a \in Agents : Over(a)}
<1>1. Good(Now) /\ Good(Now') /\ Lawful(Now, Now') /\ IInv'
  BY NextStep, NowGood DEF IInv
<1>2. /\ \A m \in Msgs : PhaseOf(m) = PhaseIn(Now, m)
      /\ \A m \in Msgs : PhaseOf(m)' = PhaseIn(Now', m)
  <2>1. PhasesTold /\ PhasesTold'
    BY <1>1, PhasesAre, PTL
  <2> QED
    BY <2>1 DEF PhasesTold
<1>3. /\ Now.msg = msg /\ Now'.msg = msg' /\ Now.peer = peer /\ Now'.peer = peer'
  BY DEF Now
<1>4. /\ \A m \in Msgs : ph[m] = PhaseOf(m) /\ ph'[m] = PhaseOf(m)'
      /\ \A m \in Msgs : rc[m] = msg[m].receipt /\ rc'[m] = msg'[m].receipt
      /\ \A m \in Msgs : msg[m].st = "unsent" => rt[m] = <<>>
      /\ \A m \in Msgs : msg[m].st # "unsent" => rt[m] = <<msg[m].from, msg[m].to>>
      /\ \A m \in Msgs : msg'[m].st # "unsent" => rt'[m] = <<msg'[m].from, msg'[m].to>>
  OBVIOUS
<1>5. \A a \in Agents : a \in ov' <=> OverIn(Now', a)
  BY <1>3 DEF Over, OverIn
<1> HIDE DEF ph, rc, rt, ov
<1>6. ASSUME NEW m \in Msgs
      PROVE  /\ Proceeds(Now, Now', m, ph[m], ph'[m])
             /\ Receipts(Now, m, ph[m]) /\ Receipts(Now', m, ph'[m])
             /\ rc[m] # "none" => rc'[m] = rc[m]
             /\ ph'[m] = "seen" /\ rc[m] = "none" => rc'[m] = "ok"
             /\ ph[m] # "unsent" => rt'[m] = rt[m]
  <2>1. ph[m] = PhaseIn(Now, m) /\ ph'[m] = PhaseIn(Now', m)
    BY <1>2, <1>4
  <2>2. /\ Proceeds(Now, Now', m, ph[m], ph'[m])
    BY <1>1, <2>1, LawfulProceeds
  <2>3. Receipts(Now, m, ph[m]) /\ Receipts(Now', m, ph'[m])
    BY <1>1, <2>1, ReceiptsKnown
  <2>4. /\ Now.msg[m].receipt # "none" => Now'.msg[m].receipt = Now.msg[m].receipt
        /\ PhaseIn(Now', m) = "seen" /\ Now.msg[m].receipt = "none" => Now'.msg[m].receipt = "ok"
        /\ Now.msg[m].st # "unsent" => /\ Now'.msg[m].st # "unsent"
                                       /\ Now'.msg[m].from = Now.msg[m].from
                                       /\ Now'.msg[m].to = Now.msg[m].to
    BY <1>1, LawfulReceipts
  <2>5. ph[m] # "unsent" => msg[m].st # "unsent"
    BY <1>3, <2>1 DEF PhaseIn
  <2> QED
    BY <1>3, <1>4, <2>1, <2>2, <2>3, <2>4, <2>5
<1>7. \A m \in Msgs : rc[m] \in {"none", "ok", "failed"} /\ rc'[m] \in {"none", "ok", "failed"}
  BY <1>1, <1>3, <1>4, Fields DEF Good, Base, Letters
<1>8. ASSUME NEW m \in Msgs, ph[m] = "held", ph'[m] = "lost", OverIn(Now', Now.msg[m].to)
      PROVE  rt[m][2] \in ov'
  <2>1. msg[m].st # "unsent"
    BY <1>2, <1>3, <1>4, <1>8 DEF PhaseIn
  <2>2. Now.msg[m].to \in Agents
    BY <1>8 DEF OverIn
  <2> QED
    BY <1>3, <1>4, <1>5, <1>8, <2>1, <2>2
<1>9. ASSUME NEW m \in Msgs, ph[m] = "held", SnubbedIn(Now, m)
      PROVE  \E n \in Msgs : rc[n] = "failed" /\ rt[n] = <<rt[m][2], rt[m][1]>>
  <2>1. msg[m].st # "unsent"
    BY <1>2, <1>3, <1>4, <1>9 DEF PhaseIn
  <2>2. PICK n \in Msgs : /\ msg[n].receipt = "failed" /\ msg[n].from = msg[m].to
                          /\ msg[n].to = msg[m].from
    BY <1>3, <1>9 DEF SnubbedIn
  <2>3. msg[n].st # "unsent"
    BY <1>1, <1>3, <2>2 DEF Good, Base, LettersKnown
  <2> QED
    BY <1>4, <2>1, <2>2, <2>3
<1>10. ASSUME NEW m \in Msgs
       PROVE  /\ ph'[m] \in Contract!Moves(m) \cup {ph[m]}
              /\ rc'[m] = Contract!Answer(m)
              /\ ph[m] # "unsent" => rt'[m] = rt[m]
  <2>1. ph'[m] \in Contract!Moves(m) \cup {ph[m]}
    BY <1>6, <1>8, <1>9, ZenonT(60) DEF Proceeds, Contract!Moves, Contract!Snubbed, ph, rc, rt, ov
  <2>2. rc'[m] = Contract!Answer(m)
    <3>1. /\ Now.msg[m].receipt = rc[m] /\ Now'.msg[m].receipt = rc'[m]
          /\ rc[m] \in {"none", "ok", "failed"} /\ rc'[m] \in {"none", "ok", "failed"}
      BY <1>3, <1>4, <1>7
    <3>2. /\ ph[m] \in {"unsent", "posted"} <=> rc[m] = "none"
          /\ ph'[m] \in {"unsent", "posted"} <=> rc'[m] = "none"
          /\ ph'[m] = "held" => rc'[m] = "ok"
          /\ ph'[m] \in {"kept", "refused"} => rc'[m] = "failed"
          /\ rc[m] # "none" => rc'[m] = rc[m]
          /\ ph'[m] = "seen" /\ rc[m] = "none" => rc'[m] = "ok"
      BY <1>6, <3>1 DEF Receipts
    <3>3. \/ ph'[m] = ph[m] \/ ph[m] \notin {"unsent", "posted"}
          \/ ph'[m] \in {"posted", "held", "seen", "refused", "kept"}
      BY <1>6 DEF Proceeds
    <3>4. rc'[m] = IF rc[m] # "none" \/ ph'[m] \in {"unsent", "posted"} THEN rc[m]
                   ELSE IF ph'[m] \in {"held", "seen"} THEN "ok" ELSE "failed"
      BY <3>1, <3>2, <3>3
    <3> QED
      BY <3>4 DEF Contract!Answer, ph, rc
  <2> QED
    BY <1>6, <2>1, <2>2
<1> QED
  BY <1>10 DEF Contract!Next, Contract!Step, ph, rc, rt

\* The bus, the sessions and the calls of the hub tool implement MailContract.
THEOREM ContractHolds == Spec => KeepsContract
<1>1. Init => Contract!Init
  <2> SUFFICES ASSUME Init PROVE Contract!Init
    OBVIOUS
  <2>1. \A m \in Msgs : msg[m].st = "unsent" /\ msg[m].receipt = "none"
    BY DEF Init, Unwritten
  <2>2. \A m \in Msgs : PhaseOf(m) = "unsent"
    BY <2>1 DEF PhaseOf
  <2> QED
    BY <2>1, <2>2 DEF Contract!Init
<1>2. IInv /\ [Next]_vars => Contract!Next
  BY StepsKeepContract
<1> QED
  BY Invariance, <1>1, <1>2, PTL DEF Spec, KeepsContract, Contract!Spec
=============================================================================
