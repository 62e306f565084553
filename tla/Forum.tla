--------------------------------- MODULE Forum ---------------------------------
(***************************************************************************)
(* Joni and the forums: humans.py in the cycle, the relay on another       *)
(* machine (relay/__main__.py, relay/agent.py), the operator, who pastes   *)
(* replies and approves drafts, and the branch main, through which they    *)
(* see each other's files.                                                 *)
(*                                                                         *)
(* A reply comes in through the drop box (Pasted) or as a reaction on the  *)
(* network (Reaction); both end in forum_inbox.json, from which the cycle  *)
(* hears them as sources.  A draft goes out when the cycle, or the relay,  *)
(* posts it.  What was posted is recorded in two places: the outbox in the *)
(* extensions, which the cycle reads, and the copy in forum_outbox.json,   *)
(* which the relay reads and both write.                                   *)
(***************************************************************************)
EXTENDS Naturals, FiniteSets

CONSTANTS
  Pasted, Reaction,      \* replies, by the way they come in
  Draft,                 \* questions for the network that only agents use
  LoopLive, RelayLive,   \* who may post
  Enforce,               \* the constitution is enforced on posts
  Raising,               \* a cycle may raise, a pass of the relay may be killed
  Ambiguous,             \* a post may arrive whose answer does not
  Many                   \* bound: that many posts of a draft stand for more

ForumAssumption ==
  /\ Pasted \cap Reaction = {}
  /\ {LoopLive, RelayLive, Enforce, Raising, Ambiguous} \subseteq BOOLEAN
  /\ Many \in Nat \ {0}

VARIABLES
  main,      \* the tree at origin/main
  pc,        \* the step of the cycle
  base,      \* the tree the cycle's checkout was reset to
  work,      \* the tree in its checkout
  memory,    \* the claims and the extensions in memory, the drafts tried
  relay,     \* the relay: its step, the tree it last agreed on with main, its own, diverged or not
  sent,      \* the number of times each draft is on the network (Many stands for more)
  pasted     \* history: the replies that the operator has pasted

cycle == <<pc, base, work, memory>>
vars == <<main, cycle, relay, sent, pasted>>

Reply == Pasted \cup Reaction
DraftStatus == {"none", "drafted", "posted"}

\* box: forum_replies.txt.  inbox: forum_inbox.json.  outbox: forum_outbox.json.
\* approved: forum_approved.json.  core: the claims.  ext: extensions.json, what was heard and the
\* outbox with its marks.
Ext == [seen : SUBSET Reply, outbox : [Draft -> DraftStatus]]
Tree ==
  [box : SUBSET Pasted, inbox : SUBSET Reply, outbox : [Draft -> DraftStatus],
   approved : SUBSET Draft, core : SUBSET Reply,
   ext : Ext]

NoDrafts == [d \in Draft |-> "none"]
FirstTree ==
  [box |-> {}, inbox |-> {}, outbox |-> NoDrafts, approved |-> {}, core |-> {},
   ext |-> [seen |-> {}, outbox |-> NoDrafts]]
NoMemory == [core |-> {}, ext |-> FirstTree.ext, tried |-> {}]

Steps == {"sync", "fold", "reset", "pull", "hear", "draft", "post", "outbox", "core", "ext", "push"}

TypeOK ==
  /\ {main, base, work} \subseteq Tree
  /\ pc \in Steps
  /\ memory \in [core : SUBSET Reply, ext : Ext, tried : SUBSET Draft]
  /\ relay \in [pc : {"pull", "post", "fetch", "push"}, base : Tree, tree : Tree,
                diverged : BOOLEAN]
  /\ sent \in [Draft -> 0..Many]
  /\ pasted \subseteq Pasted

Init ==
  /\ main = FirstTree /\ base = FirstTree /\ work = FirstTree
  /\ pc = "sync" /\ memory = NoMemory
  /\ relay = [pc |-> "pull", base |-> FirstTree, tree |-> FirstTree, diverged |-> FALSE]
  /\ sent = [d \in Draft |-> 0]
  /\ pasted = {}

-----------------------------------------------------------------------------
(***************************************************************************)
(* The operator, whose commits are made on the current main.               *)
(***************************************************************************)

Paste(r) ==
  /\ r \notin pasted
  /\ main' = [main EXCEPT !.box = @ \cup {r}]
  /\ pasted' = pasted \cup {r}
  /\ UNCHANGED <<cycle, relay, sent>>

\* The ids to approve are those of the post sheet.
Approve(d) ==
  /\ main.outbox[d] = "drafted"
  /\ main' = [main EXCEPT !.approved = @ \cup {d}]
  /\ UNCHANGED <<cycle, relay, sent, pasted>>

-----------------------------------------------------------------------------
(***************************************************************************)
(* The constitution at the seam to the outside (constitution/gate.py).     *)
(***************************************************************************)

\* How strong a requirement is: allow, abstain, escalate, block.
BaseDecision(p) ==
  IF ~p.legal THEN 3
  ELSE IF p.outward /\ p.public /\ ~p.confirmed THEN 2
  ELSE IF p.certain /\ ~p.backed THEN 1
  ELSE 0

\* The stronger of the constitution's decision and that of the character rules.
Decision(p, character) == IF character > BaseDecision(p) THEN character ELSE BaseDecision(p)

\* The proposal made of a draft: public, and nothing is known of its character.
Question(confirmed) ==
  [legal |-> TRUE, outward |-> TRUE, public |-> TRUE, confirmed |-> confirmed,
   certain |-> FALSE, backed |-> TRUE]

ConstitutionAllows(confirmed) == Decision(Question(confirmed), 0) = 0

-----------------------------------------------------------------------------
(***************************************************************************)
(* The cycle.                                                              *)
(***************************************************************************)

Sync ==
  /\ pc = "sync"
  /\ base' = main /\ work' = main
  /\ memory' = [core |-> main.core, ext |-> main.ext, tried |-> {}]
  /\ pc' = "fold"
  /\ UNCHANGED <<main, relay, sent, pasted>>

\* Fault: the drop box is emptied first.
FoldAndReset ==
  /\ pc = "fold"
  /\ work' = [work EXCEPT !.box = {}]
  /\ pc' = "reset"
  /\ UNCHANGED <<main, base, memory, relay, sent, pasted>>

\* What was pasted goes to the inbox, and then the drop box is emptied.
Fold ==
  /\ pc = "fold"
  /\ work' = [work EXCEPT !.inbox = @ \cup work.box]
  /\ pc' = "reset"
  /\ UNCHANGED <<main, base, memory, relay, sent, pasted>>

Reset ==
  /\ pc = "reset"
  /\ work' = [work EXCEPT !.box = {}]
  /\ pc' = "pull"
  /\ UNCHANGED <<main, base, memory, relay, sent, pasted>>

\* The reactions to what is on the network, those not in the inbox yet.
Pull ==
  /\ pc = "pull"
  /\ IF LoopLive THEN \E rs \in SUBSET Reaction : work' = [work EXCEPT !.inbox = @ \cup rs]
     ELSE work' = work
  /\ pc' = "hear"
  /\ UNCHANGED <<main, base, memory, relay, sent, pasted>>

\* What is in the inbox and was not heard before becomes a claim, or is chatter and only counts
\* as heard; the model has no chatter.
Hear ==
  /\ pc = "hear"
  /\ memory' = [memory EXCEPT !.core = @ \cup (work.inbox \ memory.ext.seen),
                              !.ext.seen = @ \cup work.inbox]
  /\ pc' = "draft"
  /\ UNCHANGED <<main, base, work, relay, sent, pasted>>

\* At most one question, about a need that was not asked on that network.
WriteDraft ==
  /\ pc = "draft"
  /\ \/ memory' = memory
     \/ \E d \in Draft :
          /\ memory.ext.outbox[d] = "none"
          /\ memory' = [memory EXCEPT !.ext.outbox[d] = "drafted"]
  /\ pc' = "post"
  /\ UNCHANGED <<main, base, work, relay, sent, pasted>>

\* On a network for agents no approval is needed, unless the constitution is enforced.
Passes(d) == Enforce => ConstitutionAllows(d \in work.approved)

Postable == {d \in Draft : memory.ext.outbox[d] = "drafted" /\ Passes(d)}

OnceMore(d) == sent' = [sent EXCEPT ![d] = IF @ = Many THEN Many ELSE @ + 1]

\* A post that succeeds is marked; it is the only one of the cycle.
Post(d) ==
  /\ pc = "post" /\ LoopLive
  /\ d \in Postable \ memory.tried
  /\ OnceMore(d)
  /\ memory' = [memory EXCEPT !.ext.outbox[d] = "posted"]
  /\ pc' = "outbox"
  /\ UNCHANGED <<main, base, work, relay, pasted>>

\* A post that fails is not marked, although it may have arrived.
PostFails(d) ==
  /\ pc = "post" /\ LoopLive
  /\ d \in Postable \ memory.tried
  /\ UNCHANGED sent \/ (Ambiguous /\ OnceMore(d))
  /\ memory' = [memory EXCEPT !.tried = @ \cup {d}]
  /\ UNCHANGED <<main, pc, base, work, relay, pasted>>

PostsNoMore ==
  /\ pc = "post"
  /\ ~LoopLive \/ Postable \subseteq memory.tried
  /\ pc' = "outbox"
  /\ UNCHANGED <<main, base, work, memory, relay, sent, pasted>>

SaveOutbox ==
  /\ pc = "outbox"
  /\ work' = [work EXCEPT !.outbox = memory.ext.outbox]
  /\ pc' = "core"
  /\ UNCHANGED <<main, base, memory, relay, sent, pasted>>

SaveCore ==
  /\ pc = "core"
  /\ work' = [work EXCEPT !.core = memory.core]
  /\ pc' = "ext"
  /\ UNCHANGED <<main, base, memory, relay, sent, pasted>>

SaveExtensions ==
  /\ pc = "ext"
  /\ work' = [work EXCEPT !.ext = memory.ext]
  /\ pc' = "push"
  /\ UNCHANGED <<main, base, memory, relay, sent, pasted>>

\* What a cycle that raises has written by then is committed.
Break ==
  /\ Raising /\ pc \notin {"sync", "push"}
  /\ pc' = "push"
  /\ UNCHANGED <<main, base, work, memory, relay, sent, pasted>>

\* With a rebase, if main has moved; a file that both have changed drops the cycle.
Merges == \A f \in DOMAIN FirstTree : base[f] \in {work[f], main[f]} \/ work[f] = main[f]
Merged == [f \in DOMAIN FirstTree |-> IF work[f] = base[f] THEN main[f] ELSE work[f]]

Push ==
  /\ pc = "push"
  /\ main' \in {main} \cup (IF Merges THEN {Merged} ELSE {})
  /\ pc' = "sync"
  /\ UNCHANGED <<base, work, memory, relay, sent, pasted>>

-----------------------------------------------------------------------------
(***************************************************************************)
(* The relay: pull, post, fetch, push, again and again.  It only looks at  *)
(* its two files and at the approvals.                                     *)
(***************************************************************************)

\* git pull --ff-only, which fails when the relay's own commit is not on main.
RelayPull ==
  /\ relay.pc = "pull"
  /\ relay' = IF relay.diverged THEN [relay EXCEPT !.pc = "post"]
              ELSE [relay EXCEPT !.pc = "post", !.base = main, !.tree = main]
  /\ UNCHANGED <<main, cycle, sent, pasted>>

RelayPostable == {d \in relay.tree.approved : relay.tree.outbox[d] # "posted"}

\* Every draft that is approved and not posted; the marks are written with the last of them.
RelayPosts ==
  /\ relay.pc = "post"
  /\ \E ds \in SUBSET (IF RelayLive THEN RelayPostable ELSE {}) :
       /\ sent' = [d \in Draft |-> IF d \in ds /\ sent[d] < Many THEN sent[d] + 1 ELSE sent[d]]
       /\ relay' = [relay EXCEPT !.pc = "fetch",
                      !.tree.outbox = [d \in Draft |-> IF d \in ds THEN "posted" ELSE @[d]]]
  /\ UNCHANGED <<main, cycle, pasted>>

RelayFetches ==
  /\ relay.pc = "fetch"
  /\ \E rs \in SUBSET (IF RelayLive THEN Reaction ELSE {}) :
       relay' = [relay EXCEPT !.pc = "push", !.tree.inbox = @ \cup rs]
  /\ UNCHANGED <<main, cycle, sent, pasted>>

\* Commit and push, if there is anything; a push that is rejected is not repeated.
RelayPushes ==
  /\ relay.pc = "push"
  /\ IF relay.tree = relay.base THEN main' = main /\ relay' = [relay EXCEPT !.pc = "pull"]
     ELSE IF main = relay.base
     THEN main' = relay.tree /\ relay' = [relay EXCEPT !.pc = "pull", !.base = relay.tree]
     ELSE main' = main /\ relay' = [relay EXCEPT !.pc = "pull", !.diverged = TRUE]
  /\ UNCHANGED <<cycle, sent, pasted>>

\* The pass is killed before it has written anything.
RelayKilled ==
  /\ Raising /\ relay.pc \in {"post", "fetch"}
  /\ relay' = [relay EXCEPT !.pc = "pull",
                 !.tree = IF relay.diverged THEN @ ELSE relay.base]
  /\ UNCHANGED <<main, cycle, sent, pasted>>

-----------------------------------------------------------------------------
Operator == (\E r \in Pasted : Paste(r)) \/ (\E d \in Draft : Approve(d))

Cycle ==
  \/ Sync \/ Fold \/ Reset \/ Pull \/ Hear \/ WriteDraft
  \/ (\E d \in Draft : Post(d) \/ PostFails(d)) \/ PostsNoMore
  \/ SaveOutbox \/ SaveCore \/ SaveExtensions \/ Break \/ Push

Relay == RelayPull \/ RelayPosts \/ RelayFetches \/ RelayPushes \/ RelayKilled

Next == Operator \/ Cycle \/ Relay

Spec == Init /\ [][Next]_vars

-----------------------------------------------------------------------------
(***************************************************************************)
(* Properties.                                                             *)
(***************************************************************************)

\* A reply that the operator has pasted is in the drop box or in the inbox at main, and counts as
\* heard only with the claim that was made of it: through cycles that raise, cycles that are
\* dropped and a relay that writes the inbox too.
RepliesAreKept ==
  /\ pasted \subseteq main.box \cup main.inbox
  /\ main.ext.seen \subseteq main.core

\* A draft is posted once.
SentOnce == \A d \in Draft : sent[d] <= 1
=============================================================================
