-------------------------- MODULE PolicyPageProofs --------------------------
(***************************************************************************)
(* That no text reaches another policy than the one it was written for,    *)
(* that a suggestion is sent at most once, that what is published is what  *)
(* was confirmed, and that a conversation is not cut, for any number of    *)
(* policies, calls in flight, edits and clicks.                            *)
(*                                                                         *)
(* The first invariant, IInv, says for every place a text is kept in (the  *)
(* view of a draft, a call that writes, an answer that will be shown) that *)
(* it belongs to the policy that is named beside it, and that a            *)
(* conversation whose events go to the view is one of the draft it shows.  *)
(* The second, Sound, follows the draft of a suggestion from its creation  *)
(* to its message, the two calls of handlePublish, and the one             *)
(* conversation of the view.                                               *)
(***************************************************************************)
EXTENDS PolicyPage, TLAPS

\* The calls; a message that waits for its timeout is among them in the model.
Kinds == {"policy", "metadata", "save", "publish", "confirm", "delete", "fork",
          "create", "agent", "turn"}

Owners == {"view", "page", "script", "nobody"}

Metadata == [of: Policies, history: Seq(Nat)]

Result == [id: Policies, status: {"result"}, text: {None}]

Replies == {None, Failure} \cup Snapshot \cup Metadata \cup Result \cup Policies

CallSet == [kind: Kinds \cup {"deferred"}, policy: Policies, owner: Owners,
            text: Text \cup {None}, history: Seq(Nat), turn: Nat,
            reply: Replies]

ViewSet == [kind: {"draft", "published"}, policy: Policies, text: Text,
            history: Seq(Nat), from: Policies \cup {None},
            busy: SUBSET {"save", "publish", "delete", "fork", "agent"},
            crossed: BOOLEAN]

AtHome(p, t) == t \in Text /\ t.of = p

ShownOK(sh) == sh = None \/ (sh \in Snapshot /\ AtHome(sh.id, sh.text))

ViewOK(w) ==
    w = None \/ /\ w \in ViewSet
                /\ w.kind = "draft" => AtHome(w.policy, w.text)

\* What the answer r of a call of kind k may be.
Fits(k, r) ==
    /\ k \in {"policy", "save", "publish", "confirm"} /\ r \notin {None, Failure}
           => ShownOK(r)
    /\ k = "metadata" /\ r \notin {None, Failure} => r \in Metadata
    /\ k = "fork" /\ r \notin {None, Failure} => r.id \in Policies
    /\ k = "deferred" => r \in Policies

\* What a call that has not been served carries.
Carries(c) ==
    /\ c.kind \in {"save", "publish"} /\ c.reply = None => AtHome(c.policy, c.text)
    /\ c.kind = "turn" => c.text = None \/ AtHome(c.policy, c.text)
    /\ c.kind \in {"agent", "deferred"} => c.text = None

Good(c) == c \in CallSet /\ Carries(c) /\ Fits(c.kind, c.reply)

CallsOK(cs) == \A c \in cs : Good(c)

\* The conversation that an event, or a message that waits, will be shown in.
Attached(w, c) ==
    /\ w \in ViewSet /\ w.kind = "draft" /\ w.policy = c.policy
    /\ AtHome(w.policy, w.text)

ViewOwns(w, cs) ==
    \A c \in cs :
        c.owner = "view" /\ c.kind \in {"agent", "turn", "deferred"} => Attached(w, c)

ServerOK ==
    /\ status \in [Policies -> {"draft", "published", "none"}]
    /\ deleted \in SUBSET Policies
    /\ text \in [Policies -> Text] /\ TextStaysHome
    /\ history \in [Policies -> Seq(Nat)]

PageOK ==
    /\ url \in Policies \cup {None} /\ message \in Policies \cup {None}
    /\ ShownOK(shown)
    /\ loading \in BOOLEAN /\ failed \in BOOLEAN
    /\ metadata \in Metadata \cup {None}
    /\ ViewOK(view)

IInv ==
    /\ ServerOK /\ PageOK
    /\ CallsOK(calls) /\ ViewOwns(view, calls)
    /\ edits \in 0..MaxEdits /\ turns \in Nat

-----------------------------------------------------------------------------
(* What becomes of a suggestion, of the turns of an editor, and of a text   *)
(* that is being published: the second invariant, which rests on the first. *)

SendSet == [of: Policies, to: Policies, turn: Nat]

\* A call that will lead to a message: a draft has been made for a suggestion and
\* the browser is about to learn it, or the message waits for its timeout.
Carrying(c) ==
    c.kind = "deferred" \/ (c.kind = "create" /\ c.reply \notin {None, Failure})

\* The draft that was made.
Subject(c) == IF c.kind = "deferred" THEN c.reply ELSE c.policy

\* The policy exists, and no message has been sent for it.
Unsent(st, sn, p) == st[p] # "none" /\ \A i \in DOMAIN sn : sn[i].of # p

\* Each draft is made once, and has one message.
Sole(cs) ==
    \A c, d \in cs : Carrying(c) /\ Carrying(d) /\ Subject(c) = Subject(d) => c = d

\* No message has been sent for it, nor is one in the router's state, while a call
\* will lead to one; nor has the one in the router's state been sent.
Waiting(st, cs, m, sn) ==
    /\ \A c \in cs : Carrying(c) => m # Subject(c) /\ Unsent(st, sn, Subject(c))
    /\ m # None => Unsent(st, sn, m)

\* What has been sent was for different drafts, which exist.
SentOK(st, sn) ==
    /\ sn \in Seq(SendSet)
    /\ \A i \in DOMAIN sn : st[sn[i].of] # "none"
    /\ \A i, j \in DOMAIN sn : sn[i].of = sn[j].of => i = j

\* handlePublish between its two calls.
Vouching(c) ==
    c.kind = "confirm" \/ (c.kind = "publish" /\ c.reply \notin {None, Failure})

\* What it is about to publish is what it saved, unless something was saved since.
VouchOK(st, tx, cs) ==
    \A c \in cs : Vouching(c) => /\ st[c.policy] # "none"
                                 /\ c.text \in {None, tx[c.policy]}

Clean(st, tx, cs, m, sn) ==
    Sole(cs) /\ Waiting(st, cs, m, sn) /\ SentOK(st, sn) /\ VouchOK(st, tx, cs)

\* A conversation whose events go to the view.
Talk(c) == c.owner = "view" /\ c.kind \in {"agent", "turn"}

\* Its message was sent by the page itself, or with all that the view shows.
Kept(w, c, sn) ==
    \/ \E i \in DOMAIN sn : sn[i].turn = c.turn
    \/ \A i \in DOMAIN w.history :
           \E j \in DOMAIN c.history : c.history[j] = w.history[i]

\* The view has one conversation at a time, and knows of it, unless a suggestion's
\* message went out during another.
TalkOK(w, cs, sn) ==
    ~w.crossed => /\ \A c, d \in cs : Talk(c) /\ Talk(d) => c = d
                  /\ \A c \in cs : Talk(c) => "agent" \in w.busy /\ Kept(w, c, sn)

Sound == Clean(status, text, calls, message, sends) /\ TalkOK(view, calls, sends)

-----------------------------------------------------------------------------
\* The parts.

\* A call that has just been sent.
LEMMA NewCall ==
    ASSUME NEW k \in Kinds, NEW p \in Policies, NEW o \in Owners,
           NEW t \in Text \cup {None}, NEW h \in Seq(Nat), NEW n \in Nat,
           k \in {"save", "publish"} => AtHome(p, t),
           k \in {"agent", "turn"} => t = None
    PROVE  Good(Call(k, p, o, t, h, n))
<1>1. Call(k, p, o, t, h, n) \in CallSet
  BY DEF Call, CallSet, Replies
<1>2. Carries(Call(k, p, o, t, h, n))
  BY DEF Call, Carries, Kinds
<1>3. Fits(k, None)
  BY DEF Fits, Kinds
<1>4. QED
  BY <1>1, <1>2, <1>3 DEF Good, Call

\* A message that has begun to wait.
LEMMA DeferredOK ==
    ASSUME NEW p \in Policies, NEW m \in Policies
    PROVE  Good(Deferred(p, m)) /\ Deferred(p, m).policy = p
<1> DEFINE b == Call("deferred", p, "view", None, <<>>, 0)
           c == [b EXCEPT !.reply = m]
<1>1. /\ b = [kind |-> "deferred", policy |-> p, owner |-> "view", text |-> None,
              history |-> <<>>, turn |-> 0, reply |-> None]
      /\ Deferred(p, m) = c
  BY DEF Call, Deferred
<1>2. c = [kind |-> "deferred", policy |-> p, owner |-> "view", text |-> None,
           history |-> <<>>, turn |-> 0, reply |-> m]
  BY <1>1
<1>3. <<>> \in Seq(Nat) /\ 0 \in Nat
  OBVIOUS
<1>4. c \in CallSet
  BY <1>2, <1>3 DEF CallSet, Owners, Replies
<1>5. Carries(c) /\ Fits(c.kind, c.reply) /\ c.policy = p
  BY <1>2 DEF Carries, Fits
<1>6. QED
  BY <1>1, <1>4, <1>5 DEF Good

\* A call that is answered.
LEMMA Replied ==
    ASSUME NEW c, Good(c), NEW r \in Replies, Fits(c.kind, r),
           c.kind \in {"save", "publish"} /\ r = None => AtHome(c.policy, c.text)
    PROVE  Good([c EXCEPT !.reply = r])
<1> DEFINE d == [c EXCEPT !.reply = r]
<1>1. d \in CallSet
  BY DEF Good, CallSet
<1>2. /\ d.kind = c.kind /\ d.policy = c.policy /\ d.text = c.text
      /\ d.reply = r
  BY DEF Good, CallSet
<1>3. Carries(d)
  BY <1>2 DEF Good, Carries
<1>4. QED
  BY <1>1, <1>2, <1>3 DEF Good

\* A call loses its owner.
LEMMA Owned ==
    ASSUME NEW c, Good(c), NEW o \in Owners
    PROVE  Good([c EXCEPT !.owner = o])
<1> DEFINE d == [c EXCEPT !.owner = o]
<1>1. d \in CallSet
  BY DEF Good, CallSet
<1>2. /\ d.kind = c.kind /\ d.policy = c.policy /\ d.text = c.text
      /\ d.reply = c.reply
  BY DEF Good, CallSet
<1>3. Carries(d)
  BY <1>2 DEF Good, Carries
<1>4. QED
  BY <1>1, <1>2, <1>3 DEF Good

\* Calls whose view is gone.
LEMMA OrphansOK ==
    ASSUME NEW cs, CallsOK(cs)
    PROVE  CallsOK(Orphans(cs)) /\ \A c \in Orphans(cs) : c.owner # "view"
<1> SUFFICES ASSUME NEW d \in Orphans(cs)
             PROVE  Good(d) /\ d.owner # "view"
  BY DEF CallsOK
<1>1. PICK c \in cs : d = [c EXCEPT !.owner = IF @ = "view" THEN "page" ELSE @]
  BY DEF Orphans
<1>2. Good(c) /\ c \in CallSet /\ c.owner \in Owners
  BY DEF CallsOK, Good, CallSet
<1> DEFINE o == IF c.owner = "view" THEN "page" ELSE c.owner
<1>3. d = [c EXCEPT !.owner = o] /\ o \in Owners /\ o # "view"
  BY <1>1, <1>2 DEF Owners
<1>4. d.owner = o
  BY <1>2, <1>3 DEF CallSet
<1>5. QED
  BY <1>2, <1>3, <1>4, Owned

\* Calls whose page has been left.
LEMMA LeftOK ==
    ASSUME NEW cs, CallsOK(cs)
    PROVE  CallsOK(Left(cs)) /\ \A c \in Left(cs) : c.owner # "view"
<1> SUFFICES ASSUME NEW d \in Left(cs)
             PROVE  Good(d) /\ d.owner # "view"
  BY DEF CallsOK
<1>1. PICK c \in cs : d = [c EXCEPT !.owner = IF @ = "nobody" THEN @ ELSE "script"]
  BY DEF Left
<1>2. Good(c) /\ c \in CallSet /\ c.owner \in Owners
  BY DEF CallsOK, Good, CallSet
<1> DEFINE o == IF c.owner = "nobody" THEN c.owner ELSE "script"
<1>3. d = [c EXCEPT !.owner = o] /\ o \in Owners /\ o # "view"
  BY <1>1, <1>2 DEF Owners
<1>4. d.owner = o
  BY <1>2, <1>3 DEF CallSet
<1>5. QED
  BY <1>2, <1>3, <1>4, Owned

\* Calls whose script is gone.
LEMMA UnscriptedOK ==
    ASSUME NEW cs, CallsOK(cs)
    PROVE  CallsOK(Unscripted(cs)) /\ \A c \in Unscripted(cs) : c.owner # "view"
<1> SUFFICES ASSUME NEW d \in Unscripted(cs)
             PROVE  Good(d) /\ d.owner # "view"
  BY DEF CallsOK
<1>1. PICK c \in {c \in Left(cs) : c.kind # "deferred"} :
          d = [c EXCEPT !.owner = "nobody",
                        !.kind = IF @ = "publish" THEN "save" ELSE @]
  BY DEF Unscripted
<1>2. Good(c) /\ c \in CallSet
  BY LeftOK DEF CallsOK, Good
<1>3. /\ d \in CallSet /\ d.owner = "nobody"
      /\ d.kind = IF c.kind = "publish" THEN "save" ELSE c.kind
      /\ d.policy = c.policy /\ d.text = c.text /\ d.reply = c.reply
  BY <1>1, <1>2 DEF CallSet, Kinds, Owners
<1>4. Carries(d) /\ Fits(d.kind, d.reply)
  BY <1>2, <1>3 DEF Good, Carries, Fits
<1>5. QED
  BY <1>3, <1>4 DEF Good

-----------------------------------------------------------------------------
\* What is mounted after a step.

\* A new view shows the policy that has been loaded.
LEMMA FreshOK ==
    ASSUME NEW sh, ShownOK(sh), NEW md \in Metadata \cup {None},
           NEW ld, NEW fl, Kind(sh, ld, fl) # "none"
    PROVE  /\ Fresh(sh, md) \in ViewSet
           /\ AtHome(Fresh(sh, md).policy, Fresh(sh, md).text)
           /\ Fresh(sh, md).kind = Kind(sh, ld, fl)
<1>1. /\ sh # None /\ sh \in Snapshot /\ AtHome(sh.id, sh.text)
      /\ Kind(sh, FALSE, FALSE) = Kind(sh, ld, fl)
      /\ Kind(sh, ld, fl) \in {"draft", "published"}
  BY DEF Kind, ShownOK
<1> DEFINE h == IF md = None THEN <<>> ELSE md.history
           f == IF md = None THEN None ELSE md.of
<1>2. h \in Seq(Nat) /\ f \in Policies \cup {None}
  BY DEF Metadata
<1>3. Fresh(sh, md) = [kind |-> Kind(sh, FALSE, FALSE), policy |-> sh.id,
                       text |-> sh.text, history |-> h, from |-> f, busy |-> {},
                       crossed |-> FALSE]
  BY DEF Fresh
<1> DEFINE k == Kind(sh, FALSE, FALSE)
<1>4. k \in {"draft", "published"} /\ sh.id \in Policies /\ sh.text \in Text
  BY <1>1 DEF Snapshot
<1> HIDE DEF h, f, k
<1>5. [kind |-> k, policy |-> sh.id, text |-> sh.text, history |-> h, from |-> f,
       busy |-> {}, crossed |-> FALSE] \in ViewSet
  BY <1>2, <1>4 DEF ViewSet
<1>6. Fresh(sh, md) = [kind |-> k, policy |-> sh.id, text |-> sh.text,
                       history |-> h, from |-> f, busy |-> {}, crossed |-> FALSE]
  BY <1>3 DEF k
<1>7. k = Kind(sh, ld, fl)
  BY <1>1 DEF k
<1>8. QED
  BY <1>1, <1>5, <1>6, <1>7

\* Whatever is mounted next, a view shows what is written beside its policy.
LEMMA RenderOK ==
    ASSUME NEW sh, ShownOK(sh), NEW md \in Metadata \cup {None},
           NEW ld \in BOOLEAN, NEW fl \in BOOLEAN,
           NEW w, ViewOK(w), NEW m \in Policies \cup {None},
           NEW cs, CallsOK(cs), ViewOwns(w, cs), turns \in Nat,
           Render(sh, md, ld, fl, w, m, cs)
    PROVE  /\ ShownOK(shown') /\ metadata' \in Metadata \cup {None}
           /\ loading' \in BOOLEAN /\ failed' \in BOOLEAN
           /\ message' \in Policies \cup {None}
           /\ ViewOK(view') /\ CallsOK(calls') /\ ViewOwns(view', calls')
           /\ turns' \in Nat
<1>1. /\ ShownOK(shown') /\ metadata' \in Metadata \cup {None}
      /\ loading' \in BOOLEAN /\ failed' \in BOOLEAN
  BY DEF Render
<1>2. CASE Kind(sh, ld, fl) # "none" /\ w # None /\ Keeps(w, sh)
  <2>1. /\ view' = [w EXCEPT !.policy = sh.id]
        /\ message' = m /\ calls' = cs /\ turns' = turns
    BY <1>2 DEF Render
  <2>2. /\ sh \in Snapshot /\ sh.id \in Policies
        /\ w \in ViewSet
        /\ w.kind = "draft" => AtHome(w.policy, w.text) /\ w.policy = sh.id
    BY <1>2 DEF Kind, ShownOK, ViewOK, Keeps, Snapshot
  <2>3. /\ view' \in ViewSet /\ view'.kind = w.kind /\ view'.text = w.text
        /\ view'.policy = sh.id
    BY <2>1, <2>2 DEF ViewSet
  <2>4. ViewOK(view')
    BY <2>2, <2>3 DEF ViewOK
  <2>5. ViewOwns(view', calls')
    BY <2>1, <2>2, <2>3 DEF ViewOwns, Attached
  <2>6. QED
    BY <1>1, <2>1, <2>4, <2>5
<1>3. CASE /\ ~(Kind(sh, ld, fl) # "none" /\ w # None /\ Keeps(w, sh))
           /\ Kind(sh, ld, fl) = "draft" /\ m # None
  <2> DEFINE v == Fresh(sh, md)
             c == Deferred(v.policy, m)
  <2>1. /\ message' = None /\ view' = v
        /\ turns' = turns /\ calls' = Orphans(cs) \cup {c}
    BY <1>3 DEF Render, AutoSend
  <2>2. /\ v \in ViewSet /\ AtHome(v.policy, v.text) /\ v.kind = "draft"
        /\ v.policy \in Policies
    BY <1>3, FreshOK DEF ViewSet
  <2> HIDE DEF v
  <2>3. Good(c) /\ c.policy = v.policy
    BY <1>3, <2>2, DeferredOK
  <2> HIDE DEF c
  <2>4. CallsOK(calls')
    BY <2>1, <2>3, OrphansOK DEF CallsOK
  <2>5. ViewOwns(view', calls')
    BY <2>1, <2>2, <2>3, OrphansOK DEF ViewOwns, Attached
  <2>6. ViewOK(view')
    BY <2>1, <2>2 DEF ViewOK
  <2>7. turns' \in Nat /\ message' \in Policies \cup {None}
    BY <2>1
  <2>8. QED
    BY <1>1, <2>4, <2>5, <2>6, <2>7
<1>4. CASE /\ ~(Kind(sh, ld, fl) # "none" /\ w # None /\ Keeps(w, sh))
           /\ ~(Kind(sh, ld, fl) = "draft" /\ m # None)
  <2>1. /\ view' = IF Kind(sh, ld, fl) = "none" THEN None ELSE Fresh(sh, md)
        /\ message' = m /\ calls' = Orphans(cs) /\ turns' = turns
    BY <1>4 DEF Render
  <2>2. ViewOK(view')
    BY <2>1, FreshOK DEF ViewOK
  <2>3. ViewOwns(view', calls')
    BY <2>1, OrphansOK DEF ViewOwns
  <2>4. QED
    BY <1>1, <2>1, <2>2, <2>3, OrphansOK
<1>5. QED
  BY <1>2, <1>3, <1>4

\* Calls that are owned by no view suit any view.
LEMMA Unowned ==
    ASSUME NEW cs, \A c \in cs : c.owner # "view", NEW w
    PROVE  ViewOwns(w, cs)
BY DEF ViewOwns

\* A page that is loading shows nothing.
LEMMA BlankOK ==
    ASSUME NEW m \in Policies \cup {None}, NEW cs, CallsOK(cs), turns \in Nat,
           Render(None, None, TRUE, FALSE, None, m, cs)
    PROVE  /\ ShownOK(shown') /\ metadata' \in Metadata \cup {None}
           /\ loading' \in BOOLEAN /\ failed' \in BOOLEAN
           /\ message' \in Policies \cup {None}
           /\ ViewOK(view') /\ CallsOK(calls') /\ ViewOwns(view', calls')
           /\ turns' \in Nat
<1>1. Kind(None, TRUE, FALSE) = "none"
  BY DEF Kind
<1>2. /\ shown' = None /\ metadata' = None /\ loading' = TRUE /\ failed' = FALSE
      /\ view' = None /\ message' = m /\ calls' = Orphans(cs) /\ turns' = turns
  BY <1>1 DEF Render
<1>3. ViewOwns(view', calls')
  BY <1>2, OrphansOK, Unowned
<1>4. CallsOK(calls')
  BY <1>2, OrphansOK
<1>5. ShownOK(shown') /\ ViewOK(view')
  BY <1>2 DEF ShownOK, ViewOK
<1>6. turns' \in Nat
  BY <1>2
<1>7. QED
  BY <1>2, <1>3, <1>4, <1>5, <1>6

\* What a step of the page leaves true.
PageStep ==
    PageOK' /\ CallsOK(calls') /\ ViewOwns(view', calls') /\ turns' \in Nat

\* A call that has just been sent joins the others.
LEMMA Sent ==
    ASSUME NEW cs, CallsOK(cs), NEW k \in {"policy", "metadata"}, NEW p \in Policies
    PROVE  /\ CallsOK(cs \cup {Call(k, p, "page", None, <<>>, 0)})
           /\ \A w : ViewOwns(w, cs) =>
                  ViewOwns(w, cs \cup {Call(k, p, "page", None, <<>>, 0)})
<1> DEFINE c == Call(k, p, "page", None, <<>>, 0)
<1>1. k \in Kinds /\ "page" \in Owners /\ None \in Text \cup {None}
      /\ <<>> \in Seq(Nat) /\ 0 \in Nat /\ k \notin {"save", "publish", "agent", "turn"}
  BY DEF Kinds, Owners
<1>2. Good(c)
  BY <1>1, NewCall
<1>3. c.owner = "page"
  BY DEF Call
<1> HIDE DEF c
<1>4. CallsOK(cs \cup {c})
  BY <1>2 DEF CallsOK
<1>5. \A w : ViewOwns(w, cs) => ViewOwns(w, cs \cup {c})
  BY <1>3 DEF ViewOwns
<1>6. QED
  BY <1>4, <1>5 DEF c

\* A page that is opened is as it should be.
LEMMA MountOK ==
    ASSUME NEW p \in Policies, NEW m \in Policies \cup {None}, NEW cs, CallsOK(cs),
           turns \in Nat, Mount(p, m, cs)
    PROVE  PageStep
<1>1. CallsOK(cs \cup {Call("policy", p, "page", None, <<>>, 0)})
  BY Sent
<1>2. /\ url' = p
      /\ Render(None, None, TRUE, FALSE, None, m,
                cs \cup {Call("policy", p, "page", None, <<>>, 0)})
  BY DEF Mount
<1>3. QED
  BY <1>1, <1>2, BlankOK DEF PageStep, PageOK

\* So is the one that is left.
LEMMA UnmountOK ==
    ASSUME NEW cs, CallsOK(cs), turns \in Nat, Unmount(cs)
    PROVE  PageStep
<1>1. CallsOK(Left(cs))
  BY LeftOK
<1>2. url' = None /\ Render(None, None, TRUE, FALSE, None, None, Left(cs))
  BY DEF Unmount
<1>3. None \in Policies \cup {None}
  OBVIOUS
<1>4. QED
  BY <1>1, <1>2, <1>3, BlankOK DEF PageStep, PageOK

\* And one whose URL changes.
LEMMA GoOK ==
    ASSUME PageOK, turns \in Nat, NEW p \in Policies, NEW m \in Policies \cup {None},
           NEW cs, CallsOK(cs), ViewOwns(view, cs), Go(p, m, cs)
    PROVE  PageStep
<1> DEFINE c == Call("policy", p, "page", None, <<>>, 0)
<1>0. FALSE \in BOOLEAN /\ TRUE \in BOOLEAN
  OBVIOUS
<1>1. CallsOK(cs \cup {c}) /\ ViewOwns(view, cs \cup {c})
  BY Sent
<1>2. /\ ShownOK(shown) /\ metadata \in Metadata \cup {None}
      /\ loading \in BOOLEAN /\ failed \in BOOLEAN /\ ViewOK(view)
  BY DEF PageOK
<1>3. CASE url = None
  BY <1>0, <1>3, MountOK DEF Go
<1>4. CASE url # None /\ p = url
  <2>1. /\ url' = p
        /\ Render(shown, metadata, loading, failed, view, m, cs)
    BY <1>4 DEF Go
  <2>2. QED
    BY <1>0, <1>2, <2>1, RenderOK DEF PageStep, PageOK
<1>5. CASE url # None /\ p # url
  <2>1. /\ url' = p
        /\ Render(shown, metadata, TRUE, failed, view, m, cs \cup {c})
    BY <1>5 DEF Go
  <2> HIDE DEF c
  <2>2. QED
    BY <1>0, <1>1, <1>2, <2>1, RenderOK DEF PageStep, PageOK
<1>6. QED
  BY <1>3, <1>4, <1>5

\* A continuation keeps the URL.
LEMMA ContinueOK ==
    ASSUME IInv, NEW c \in calls, NEW sh, ShownOK(sh),
           NEW md \in Metadata \cup {None}, NEW ld \in BOOLEAN, NEW fl \in BOOLEAN,
           NEW w, ViewOK(w), ViewOwns(w, calls), Continue(c, sh, md, ld, fl, w)
    PROVE  PageStep
<1>1. CallsOK(calls \ {c}) /\ ViewOwns(w, calls \ {c})
  BY DEF IInv, CallsOK, ViewOwns
<1>2. /\ url' = url /\ url \in Policies \cup {None}
      /\ message \in Policies \cup {None} /\ turns \in Nat
      /\ Render(sh, md, ld, fl, w, message, calls \ {c})
  BY DEF Continue, IInv, PageOK
<1>3. QED
  BY <1>1, <1>2, RenderOK DEF PageStep, PageOK

\* A handler that is done leaves its view in place.
LEMMA IdleOK ==
    ASSUME IInv, NEW c, NEW done
    PROVE  /\ ViewOK(Idle(c, done)) /\ ViewOwns(Idle(c, done), calls)
           /\ view \in ViewSet => Idle(c, done) \in ViewSet
<1>1. ViewOK(view) /\ ViewOwns(view, calls)
  BY DEF IInv, PageOK
<1>2. CASE c.owner = "view" /\ view # None
  <2>1. view \in ViewSet /\ (view.kind = "draft" => AtHome(view.policy, view.text))
    BY <1>1, <1>2 DEF ViewOK
  <2> DEFINE w == [view EXCEPT !.busy = @ \ {done}]
  <2>2. Idle(c, done) = w
    BY <1>2 DEF Idle
  <2>3. /\ w \in ViewSet /\ w.kind = view.kind /\ w.policy = view.policy
        /\ w.text = view.text
    BY <2>1 DEF ViewSet
  <2> HIDE DEF w
  <2>4. ViewOK(w) /\ ViewOwns(w, calls)
    BY <1>1, <2>1, <2>3 DEF ViewOK, ViewOwns, Attached
  <2>5. QED
    BY <2>2, <2>3, <2>4
<1>3. CASE ~(c.owner = "view" /\ view # None)
  BY <1>1, <1>3 DEF Idle
<1>4. QED
  BY <1>2, <1>3

-----------------------------------------------------------------------------
\* The continuations.

\* What is known of a call in flight.
LEMMA CallFacts ==
    ASSUME IInv, NEW c \in calls
    PROVE  /\ Good(c) /\ c \in CallSet /\ c.kind \in Kinds \cup {"deferred"}
           /\ c.policy \in Policies /\ c.owner \in Owners
           /\ c.reply \in Replies /\ c.turn \in Nat /\ c.history \in Seq(Nat)
           /\ c.owner = "view" /\ c.kind \in {"agent", "turn", "deferred"}
                  => Attached(view, c)
BY DEF IInv, CallsOK, ViewOwns, Good, CallSet

\* What is known of the page.
LEMMA PageFacts ==
    ASSUME IInv
    PROVE  /\ ShownOK(shown) /\ metadata \in Metadata \cup {None}
           /\ loading \in BOOLEAN /\ failed \in BOOLEAN
           /\ message \in Policies \cup {None} /\ None \in Policies \cup {None}
           /\ ViewOK(view) /\ ViewOwns(view, calls) /\ CallsOK(calls)
           /\ turns \in Nat /\ TRUE \in BOOLEAN /\ FALSE \in BOOLEAN
BY DEF IInv, PageOK

\* The answers of the loads.
LEMMA LoadedOK ==
    ASSUME IInv, NEW c \in calls, c.reply # None, Loaded(c)
    PROVE  PageStep
<1>1. c.kind = "policy"
  BY DEF Loaded
<1>2. CASE c.reply = Failure
  BY <1>2, PageFacts, ContinueOK DEF Loaded
<1>3. CASE c.reply # Failure
  <2>1. ShownOK(c.reply)
    BY <1>1, <1>3, CallFacts DEF Good, Fits
  <2>2. CASE c.reply.status = "draft"
    <3> DEFINE cs == calls \ {c}
               n == Call("metadata", c.policy, "page", None, <<>>, 0)
    <3>1. CallsOK(cs) /\ ViewOwns(view, cs)
      BY PageFacts DEF CallsOK, ViewOwns
    <3>2. /\ url' = url /\ url \in Policies \cup {None}
          /\ Render(c.reply, metadata, loading, failed, view, message, cs \cup {n})
      BY <1>3, <2>2 DEF Loaded, IInv, PageOK
    <3> HIDE DEF cs
    <3>3. CallsOK(cs \cup {n}) /\ ViewOwns(view, cs \cup {n})
      BY <3>1, CallFacts, Sent
    <3> HIDE DEF n
    <3>4. QED
      BY <2>1, <3>2, <3>3, PageFacts, RenderOK DEF PageStep, PageOK
  <2>3. CASE c.reply.status # "draft"
    <3>1. Continue(c, c.reply, metadata, FALSE, failed, view)
      BY <1>3, <2>3 DEF Loaded
    <3>2. QED
      BY <2>1, <3>1, PageFacts, ContinueOK
  <2>4. QED
    BY <2>2, <2>3
<1>4. QED
  BY <1>2, <1>3

\* The metadata that arrives.
LEMMA MetadataLoadedOK ==
    ASSUME IInv, NEW c \in calls, c.reply # None, MetadataLoaded(c)
    PROVE  PageStep
<1> DEFINE md == IF c.reply = Failure THEN metadata ELSE c.reply
<1>1. md \in Metadata \cup {None}
  BY CallFacts, PageFacts DEF MetadataLoaded, Good, Fits
<1>2. Continue(c, shown, md, FALSE, failed, view)
  BY DEF MetadataLoaded
<1> HIDE DEF md
<1>3. QED
  BY <1>1, <1>2, PageFacts, ContinueOK

\* The answer of a save or a publication is shown by the page that sent it.
LEMMA SavedOK ==
    ASSUME IInv, NEW c \in calls, c.reply # None, Saved(c)
    PROVE  PageStep
<1> DEFINE sh == IF c.reply # Failure /\ c.owner \in {"view", "page"}
                 THEN c.reply ELSE shown
           w == Idle(c, IF c.kind = "save" THEN "save" ELSE "publish")
<1>1. ShownOK(sh)
  BY CallFacts, PageFacts DEF Saved, Good, Fits
<1>2. Continue(c, sh, metadata, loading, failed, w)
  BY DEF Saved
<1>3. ViewOK(w) /\ ViewOwns(w, calls)
  BY IdleOK
<1> HIDE DEF sh, w
<1>4. QED
  BY <1>1, <1>2, <1>3, PageFacts, ContinueOK

\* A draft that has been saved goes on to be published.
LEMMA DraftSavedOK ==
    ASSUME IInv, NEW c \in calls, c.reply # None, DraftSaved(c)
    PROVE  PageStep
<1>1. CASE c.reply = Failure
  <2>1. Continue(c, shown, metadata, loading, failed, Idle(c, "publish"))
    BY <1>1 DEF DraftSaved
  <2>2. ViewOK(Idle(c, "publish")) /\ ViewOwns(Idle(c, "publish"), calls)
    BY IdleOK
  <2>3. QED
    BY <2>1, <2>2, PageFacts, ContinueOK
<1>2. CASE c.reply # Failure
  <2> DEFINE d == [c EXCEPT !.kind = "confirm", !.reply = None]
  <2>1. calls' = (calls \ {c}) \cup {d} /\ UNCHANGED uiVars
    BY <1>2 DEF DraftSaved
  <2>2. /\ d \in CallSet /\ d.kind = "confirm" /\ d.reply = None
    BY CallFacts DEF CallSet, Kinds, Replies
  <2> HIDE DEF d
  <2>3. Good(d)
    BY <2>2 DEF Good, Carries, Fits
  <2>4. CallsOK(calls') /\ ViewOwns(view', calls')
    BY <2>1, <2>2, <2>3, PageFacts DEF CallsOK, ViewOwns, uiVars
  <2>5. PageOK' /\ turns' \in Nat
    BY <2>1 DEF IInv, PageOK, uiVars
  <2>6. QED
    BY <2>4, <2>5 DEF PageStep
<1>3. QED
  BY <1>1, <1>2

\* The calls that remain when one is done.
LEMMA RestOK ==
    ASSUME IInv, NEW c
    PROVE  CallsOK(calls \ {c}) /\ ViewOwns(view, calls \ {c})
BY DEF IInv, CallsOK, ViewOwns

\* The page of a deleted policy is left.
LEMMA DeletedOK ==
    ASSUME IInv, NEW c \in calls, c.reply # None, Deleted(c)
    PROVE  PageStep
<1>1. CASE c.reply = Failure \/ c.owner = "nobody"
  <2>1. Continue(c, shown, metadata, loading, failed, Idle(c, "delete"))
    BY <1>1 DEF Deleted
  <2>2. ViewOK(Idle(c, "delete")) /\ ViewOwns(Idle(c, "delete"), calls)
    BY IdleOK
  <2>3. QED
    BY <2>1, <2>2, PageFacts, ContinueOK
<1>2. CASE ~(c.reply = Failure \/ c.owner = "nobody")
  BY <1>2, RestOK, PageFacts, UnmountOK DEF Deleted
<1>3. QED
  BY <1>1, <1>2

\* The fork is opened.
LEMMA ForkedOK ==
    ASSUME IInv, NEW c \in calls, c.reply # None, Forked(c)
    PROVE  PageStep
<1>1. CASE c.reply = Failure \/ c.owner = "nobody"
  <2>1. Continue(c, shown, metadata, loading, failed, Idle(c, "fork"))
    BY <1>1 DEF Forked
  <2>2. ViewOK(Idle(c, "fork")) /\ ViewOwns(Idle(c, "fork"), calls)
    BY IdleOK
  <2>3. QED
    BY <2>1, <2>2, PageFacts, ContinueOK
<1>2. CASE ~(c.reply = Failure \/ c.owner = "nobody")
  <2>1. Go(c.reply.id, None, calls \ {c}) /\ c.kind = "fork"
    BY <1>2 DEF Forked
  <2>2. c.reply.id \in Policies
    BY <1>2, <2>1, CallFacts DEF Good, Fits
  <2>3. PageOK
    BY DEF IInv
  <2>4. QED
    BY <2>1, <2>2, <2>3, RestOK, PageFacts, GoOK
<1>3. QED
  BY <1>1, <1>2

\* The draft of a suggestion is opened.
LEMMA SuggestedOK ==
    ASSUME IInv, NEW c \in calls, c.reply # None, Suggested(c)
    PROVE  PageStep
<1>1. CASE c.owner = "nobody"
  BY <1>1, PageFacts, ContinueOK DEF Suggested
<1>2. CASE c.owner # "nobody" /\ c.reply = Failure
  BY <1>2, RestOK, PageFacts, UnmountOK DEF Suggested
<1>3. CASE c.owner # "nobody" /\ c.reply # Failure
  <2>1. Go(c.policy, c.policy, calls \ {c})
    BY <1>3 DEF Suggested
  <2>2. c.policy \in Policies /\ c.policy \in Policies \cup {None} /\ PageOK
    BY CallFacts DEF IInv
  <2>3. QED
    BY <2>1, <2>2, RestOK, PageFacts, GoOK
<1>4. QED
  BY <1>1, <1>2, <1>3

\* A turn that ends joins the conversation of its editor.
LEMMA AgentDoneOK ==
    ASSUME IInv, NEW c \in calls, c.reply # None, AgentDone(c)
    PROVE  PageStep
<1> DEFINE i == Idle(c, "agent")
           w == IF c.owner = "view" /\ c.reply # Failure
                THEN [i EXCEPT !.history = Append(@, c.turn)] ELSE i
<1>1. c.kind \in {"agent", "turn"} /\ Continue(c, shown, metadata, loading, failed, w)
  BY DEF AgentDone
<1>2. /\ ViewOK(i) /\ ViewOwns(i, calls)
      /\ view \in ViewSet => i \in ViewSet
  BY IdleOK
<1> HIDE DEF i
<1>3. CASE c.owner = "view" /\ c.reply # Failure
  <2>1. i \in ViewSet /\ i.kind = "draft" /\ c.turn \in Nat
    BY <1>1, <1>2, <1>3, CallFacts DEF Attached, ViewOwns
  <2> DEFINE h == Append(i.history, c.turn)
  <2>2. h \in Seq(Nat)
    BY <2>1 DEF ViewSet
  <2>3. w = [i EXCEPT !.history = h]
    BY <1>3
  <2> HIDE DEF h, w
  <2>4. /\ w \in ViewSet /\ w.kind = i.kind /\ w.policy = i.policy
        /\ w.text = i.text
    BY <2>1, <2>2, <2>3 DEF ViewSet
  <2>5. AtHome(i.policy, i.text)
    BY <1>1, <1>2, <1>3 DEF ViewOwns, Attached
  <2>6. ViewOwns(w, calls)
    BY <1>2, <2>4 DEF ViewOwns, Attached
  <2>7. ViewOK(w)
    BY <2>4, <2>5 DEF ViewOK
  <2>8. QED
    BY <1>1, <2>6, <2>7, PageFacts, ContinueOK
<1>4. CASE ~(c.owner = "view" /\ c.reply # Failure)
  BY <1>1, <1>2, <1>4, PageFacts, ContinueOK
<1>5. QED
  BY <1>3, <1>4

\* The message that has waited goes out for the editor it waited in.
LEMMA AutoSentOK ==
    ASSUME IInv, NEW c \in calls, c.reply # None, AutoSent(c)
    PROVE  PageStep
<1> DEFINE n == Call("agent", c.policy, c.owner, None, <<>>, turns + 1)
<1>1. /\ c.kind = "deferred" /\ turns' = turns + 1
      /\ view' = IF c.owner = "view"
                 THEN [view EXCEPT !.busy = @ \cup {"agent"},
                                   !.crossed = @ \/ "agent" \in view.busy]
                 ELSE view
      /\ calls' = (calls \ {c}) \cup {n}
      /\ UNCHANGED <<url, message, shown, metadata, loading, failed>>
  BY DEF AutoSent
<1>2. turns' \in Nat
  BY <1>1, PageFacts
<1>3. Good(n)
  <2>1. /\ "agent" \in Kinds /\ None \in Text \cup {None} /\ <<>> \in Seq(Nat)
        /\ turns + 1 \in Nat
    BY PageFacts DEF Kinds
  <2>2. QED
    BY <2>1, CallFacts, NewCall
<1>4. n.owner = c.owner /\ n.kind = "agent" /\ n.policy = c.policy
  BY DEF Call
<1> HIDE DEF n
<1>5. CallsOK(calls')
  BY <1>1, <1>3, PageFacts DEF CallsOK
<1>6. CASE c.owner = "view"
  <2>1. Attached(view, c)
    BY <1>1, <1>6, CallFacts
  <2> DEFINE b == view.busy \cup {"agent"}
             x == view.crossed \/ "agent" \in view.busy
  <2>2. /\ b \in SUBSET {"save", "publish", "delete", "fork", "agent"}
        /\ x \in BOOLEAN /\ view' = [view EXCEPT !.busy = b, !.crossed = x]
    BY <1>1, <1>6, <2>1 DEF Attached, ViewSet
  <2> HIDE DEF b, x
  <2>3. /\ view' \in ViewSet /\ view'.kind = view.kind /\ view'.text = view.text
        /\ view'.policy = view.policy
    BY <2>1, <2>2 DEF Attached, ViewSet
  <2>4. ViewOwns(view', calls')
    BY <1>1, <1>4, <2>1, <2>3, PageFacts DEF ViewOwns, Attached
  <2>5. ViewOK(view')
    BY <2>1, <2>3 DEF ViewOK, Attached
  <2>6. QED
    BY <1>1, <1>2, <1>5, <2>4, <2>5 DEF PageStep, PageOK, IInv
<1>7. CASE c.owner # "view"
  <2>1. view' = view
    BY <1>1, <1>7
  <2>2. ViewOwns(view', calls') /\ ViewOK(view')
    BY <1>1, <1>4, <1>7, <2>1, PageFacts DEF ViewOwns
  <2>3. QED
    BY <1>1, <1>2, <1>5, <2>2 DEF PageStep, PageOK, IInv
<1>8. QED
  BY <1>6, <1>7

\* No continuation mixes two policies.
LEMMA ResumeInv ==
    ASSUME IInv, NEW c \in calls, Resume(c)
    PROVE  IInv'
<1>1. c.reply # None
  BY DEF Resume
<1>2. PageStep
  BY <1>1, LoadedOK, MetadataLoadedOK, SavedOK, DraftSavedOK, DeletedOK, ForkedOK,
     SuggestedOK, AutoSentOK, AgentDoneOK DEF Resume
<1>3. ServerOK' /\ edits' \in 0..MaxEdits
  BY DEF Resume, server, counters, IInv, ServerOK, TextStaysHome
<1>4. QED
  BY <1>2, <1>3 DEF IInv, PageStep

-----------------------------------------------------------------------------
\* The server.

\* An answer that fits leaves the calls as they should be.
LEMMA AnswerOK ==
    ASSUME IInv, NEW c \in calls, NEW r \in Replies, Fits(c.kind, r),
           c.kind \in {"save", "publish"} /\ r = None => AtHome(c.policy, c.text),
           Answer(c, r)
    PROVE  CallsOK(calls') /\ ViewOwns(view, calls')
<1> DEFINE d == [c EXCEPT !.reply = r]
<1>1. Good(d)
  BY CallFacts, Replied
<1>2. d.owner = c.owner /\ d.kind = c.kind /\ d.policy = c.policy
  BY CallFacts DEF CallSet
<1>3. calls' = (calls \ {c}) \cup {d}
  BY DEF Answer
<1> HIDE DEF d
<1>4. CallsOK(calls')
  BY <1>1, <1>3, PageFacts DEF CallsOK
<1>5. ViewOwns(view, calls')
  BY <1>2, <1>3, PageFacts DEF ViewOwns, Attached
<1>6. QED
  BY <1>4, <1>5

\* So does an answer to a call that writes, and what is written is at home.
LEMMA WriteOK ==
    ASSUME IInv, NEW c \in calls, NEW r \in Replies, Fits(c.kind, r),
           c.kind \in {"save", "publish"} /\ r = None => AtHome(c.policy, c.text),
           AtHome(c.policy, c.text), Write(c, r)
    PROVE  /\ CallsOK(calls') /\ ViewOwns(view, calls')
           /\ text' \in [Policies -> Text] /\ \A p \in Policies : text'[p].of = p
<1>1. /\ text' \in [Policies -> Text] /\ \A p \in Policies : text'[p].of = p
  BY CallFacts DEF Write, IInv, ServerOK, TextStaysHome, AtHome
<1> DEFINE e == [c EXCEPT !.reply = r]
           T(d) == IF /\ Publishing(d) /\ d.policy = c.policy /\ d # c
                      /\ d.text # c.text
                   THEN None ELSE d.text
           F(d) == [d EXCEPT !.text = T(d)]
<1>2. Good(e) /\ e.owner = c.owner /\ e.kind = c.kind /\ e.policy = c.policy
  BY CallFacts, Replied DEF CallSet
<1>3. calls' = {F(d) : d \in calls \ {c}} \cup {e}
  BY DEF Write
<1> HIDE DEF e
<1>4. ASSUME NEW d \in calls
      PROVE  /\ Good(F(d)) /\ F(d).owner = d.owner /\ F(d).kind = d.kind
             /\ F(d).policy = d.policy
  <2>1. d \in CallSet /\ Good(d)
    BY CallFacts
  <2>2. T(d) \in Text \cup {None} /\ (~Publishing(d) => T(d) = d.text)
    BY <2>1 DEF CallSet
  <2> HIDE DEF T
  <2>3. /\ F(d) \in CallSet /\ F(d).owner = d.owner /\ F(d).kind = d.kind
        /\ F(d).policy = d.policy /\ F(d).reply = d.reply /\ F(d).text = T(d)
    BY <2>1, <2>2 DEF CallSet
  <2> HIDE DEF F
  <2>4. Publishing(d) => Carries(F(d))
    BY <2>3 DEF Publishing, Carries
  <2>5. ~Publishing(d) => Carries(F(d))
    BY <2>1, <2>2, <2>3 DEF Good, Carries
  <2>6. QED
    BY <2>1, <2>3, <2>4, <2>5 DEF Good
<1> HIDE DEF F
<1>5. CallsOK(calls')
  BY <1>2, <1>3, <1>4 DEF CallsOK
<1>6. ViewOwns(view, calls')
  BY <1>2, <1>3, <1>4, PageFacts DEF ViewOwns, Attached
<1>7. QED
  BY <1>1, <1>5, <1>6

\* The copy of a policy that exists may be shown.
LEMMA CopyOK ==
    ASSUME IInv, NEW p \in Policies, NEW s \in {"draft", "published"},
           NEW t, AtHome(p, t)
    PROVE  LET r == [id |-> p, status |-> s, text |-> t]
           IN  r \in Replies /\ \A k : k \notin {"metadata", "deferred"} => Fits(k, r)
<1> DEFINE r == [id |-> p, status |-> s, text |-> t]
<1>1. r \in Snapshot /\ r.id = p /\ r.text = t
  BY DEF Snapshot, AtHome
<1> HIDE DEF r
<1>2. ShownOK(r) /\ r \in Replies
  BY <1>1 DEF ShownOK, Replies
<1>3. \A k : k \notin {"metadata", "deferred"} => Fits(k, r)
  BY <1>1, <1>2 DEF Fits
<1>4. QED
  BY <1>2, <1>3 DEF r

\* A failure may answer any call.
LEMMA FailureOK ==
    Failure \in Replies /\ Failure # None /\ \A k : k # "deferred" => Fits(k, Failure)
BY PolicyPageAssumption DEF Failure, Replies, Fits

\* The texts that are stored.
LEMMA ServerFacts ==
    ASSUME IInv, NEW p \in Policies
    PROVE  /\ AtHome(p, text[p]) /\ history[p] \in Seq(Nat)
           /\ status[p] \in {"draft", "published", "none"} /\ deleted \in SUBSET Policies
BY DEF IInv, ServerOK, TextStaysHome, AtHome

\* What a step of the server leaves alone.
LEMMA PageKept ==
    ASSUME IInv, UNCHANGED uiVars
    PROVE  PageOK' /\ turns' \in Nat /\ view' = view
BY DEF IInv, PageOK, uiVars

\* The calls after an answer, by name.
ServedOK == CallsOK(calls') /\ ViewOwns(view, calls') /\ ServerOK'

\* A load shows what is stored.
LEMMA ReadOK ==
    ASSUME IInv, NEW c \in calls, c.reply = None, Read(c)
    PROVE  ServedOK
<1> DEFINE p == c.policy
<1>1. /\ p \in Policies /\ c.kind \in {"policy", "metadata"} /\ UNCHANGED server
  BY CallFacts DEF Read
<1>2. ServerOK'
  BY <1>1 DEF IInv, ServerOK, TextStaysHome, server
<1>3. CASE status[p] = "none"
  <2>1. Answer(c, Failure)
    BY <1>3 DEF Read
  <2>2. QED
    BY <1>1, <1>2, <2>1, FailureOK, AnswerOK DEF ServedOK
<1>4. CASE status[p] # "none" /\ c.kind = "policy"
  <2>1. Answer(c, [id |-> p, status |-> status[p], text |-> text[p]])
    BY <1>4 DEF Read, Copy
  <2>2. status[p] \in {"draft", "published"} /\ AtHome(p, text[p])
    BY <1>1, <1>4, ServerFacts
  <2> HIDE DEF p
  <2>3. QED
    BY <1>1, <1>2, <1>4, <2>1, <2>2, CopyOK, AnswerOK DEF ServedOK
<1>5. CASE status[p] # "none" /\ c.kind = "metadata"
  <2> DEFINE r == [of |-> p, history |-> history[p]]
  <2>1. Answer(c, r)
    BY <1>5 DEF Read
  <2>2. r \in Metadata
    BY <1>1, ServerFacts DEF Metadata
  <2> HIDE DEF r
  <2>3. r \in Replies /\ Fits(c.kind, r)
    BY <1>5, <2>2 DEF Replies, Fits
  <2>4. QED
    BY <1>1, <1>2, <2>1, <2>3, AnswerOK DEF ServedOK
<1>6. QED
  BY <1>1, <1>3, <1>4, <1>5

\* A save stores a text for its policy.
LEMMA SaveOK ==
    ASSUME IInv, NEW c \in calls, c.reply = None, Save(c)
    PROVE  ServedOK
<1>1. /\ c.policy \in Policies /\ c.kind \in {"save", "publish"}
      /\ AtHome(c.policy, c.text)
  BY CallFacts DEF Save, Good, Carries
<1>2. CASE Editable(c.policy)
  <2> DEFINE r == [id |-> c.policy, status |-> "draft", text |-> c.text]
  <2>1. Write(c, r) /\ UNCHANGED <<status, deleted, history>>
    BY <1>2 DEF Save, Copy, Editable
  <2>2. r \in Replies /\ Fits(c.kind, r)
    BY <1>1, CopyOK
  <2> HIDE DEF r
  <2>3. /\ CallsOK(calls') /\ ViewOwns(view, calls')
        /\ text' \in [Policies -> Text] /\ \A p \in Policies : text'[p].of = p
    BY <1>1, <2>1, <2>2, WriteOK
  <2>4. ServerOK'
    BY <2>1, <2>3 DEF IInv, ServerOK, TextStaysHome
  <2>5. QED
    BY <2>3, <2>4 DEF ServedOK
<1>3. CASE ~Editable(c.policy)
  <2>1. Answer(c, Failure) /\ UNCHANGED server
    BY <1>3 DEF Save
  <2>2. ServerOK'
    BY <2>1 DEF IInv, ServerOK, TextStaysHome, server
  <2>3. QED
    BY <1>1, <2>1, <2>2, FailureOK, AnswerOK DEF ServedOK
<1>4. QED
  BY <1>2, <1>3

\* A publication changes no text.
LEMMA PublishOK ==
    ASSUME IInv, NEW c \in calls, c.reply = None, Publish(c)
    PROVE  ServedOK
<1>1. c.policy \in Policies /\ c.kind = "confirm"
  BY CallFacts DEF Publish
<1>2. CASE Editable(c.policy)
  <2> DEFINE r == [id |-> c.policy, status |-> "published", text |-> text[c.policy]]
  <2>1. /\ Answer(c, r) /\ UNCHANGED <<deleted, text, history>>
        /\ status' = [status EXCEPT ![c.policy] = "published"]
    BY <1>2 DEF Publish, Copy
  <2>2. r \in Replies /\ Fits(c.kind, r)
    BY <1>1, ServerFacts, CopyOK
  <2> HIDE DEF r
  <2>3. ServerOK'
    BY <2>1 DEF IInv, ServerOK, TextStaysHome
  <2>4. QED
    BY <1>1, <2>1, <2>2, <2>3, AnswerOK DEF ServedOK
<1>3. CASE ~Editable(c.policy)
  <2>1. Answer(c, Failure) /\ UNCHANGED server
    BY <1>3 DEF Publish
  <2>2. ServerOK'
    BY <2>1 DEF IInv, ServerOK, TextStaysHome, server
  <2>3. QED
    BY <1>1, <2>1, <2>2, FailureOK, AnswerOK DEF ServedOK
<1>4. QED
  BY <1>2, <1>3

\* Nor does a deletion.
LEMMA DeleteOK ==
    ASSUME IInv, NEW c \in calls, c.reply = None, Delete(c)
    PROVE  ServedOK
<1>1. c.policy \in Policies /\ c.kind = "delete"
  BY CallFacts DEF Delete
<1>2. ASSUME status[c.policy] # "none", deleted' = deleted \cup {c.policy},
             Answer(c, Copy(c.policy)), UNCHANGED <<status, text, history>>
      PROVE  ServedOK
  <2>1. Copy(c.policy) \in Replies /\ Fits(c.kind, Copy(c.policy))
    BY <1>1, <1>2, ServerFacts, CopyOK DEF Copy
  <2>2. ServerOK'
    BY <1>1, <1>2 DEF IInv, ServerOK, TextStaysHome
  <2>3. QED
    BY <1>1, <1>2, <2>1, <2>2, AnswerOK DEF ServedOK
<1>3. ASSUME Answer(c, Failure), UNCHANGED server
      PROVE  ServedOK
  <2>1. ServerOK'
    BY <1>3 DEF IInv, ServerOK, TextStaysHome, server
  <2>2. QED
    BY <1>1, <1>3, <2>1, FailureOK, AnswerOK DEF ServedOK
<1>4. QED
  BY <1>2, <1>3 DEF Delete

\* The fork is made for the new policy.
LEMMA ForkOK ==
    ASSUME IInv, NEW c \in calls, c.reply = None, Fork(c)
    PROVE  ServedOK
<1>1. c.policy \in Policies /\ c.kind = "fork"
  BY CallFacts DEF Fork
<1>2. CASE status[c.policy] # "none"
  <2> DEFINE t(q) == [of |-> q, v |-> text[c.policy].v]
             r(q) == [id |-> q, status |-> "draft", text |-> t(q)]
  <2>1. PICK q \in Policies :
            /\ status' = [status EXCEPT ![q] = "draft"]
            /\ text' = [text EXCEPT ![q] = t(q)]
            /\ Answer(c, r(q)) /\ UNCHANGED <<deleted, history>>
    BY <1>2 DEF Fork
  <2>2. t(q) \in Text /\ t(q).of = q
    BY <1>1, ServerFacts DEF AtHome, Text
  <2>3. ServerOK'
    BY <2>1, <2>2 DEF IInv, ServerOK, TextStaysHome
  <2>4. r(q) \in Replies /\ Fits(c.kind, r(q))
    BY <1>1, <2>2, CopyOK DEF AtHome
  <2> HIDE DEF r
  <2>5. QED
    BY <1>1, <2>1, <2>3, <2>4, AnswerOK DEF ServedOK
<1>3. CASE status[c.policy] = "none"
  <2>1. Answer(c, Failure) /\ UNCHANGED server
    BY <1>3 DEF Fork
  <2>2. ServerOK'
    BY <2>1 DEF IInv, ServerOK, TextStaysHome, server
  <2>3. QED
    BY <1>1, <2>1, <2>2, FailureOK, AnswerOK DEF ServedOK
<1>4. QED
  BY <1>2, <1>3

\* A draft that is made for a suggestion has a text of its own.
LEMMA CreateOK ==
    ASSUME IInv, NEW c \in calls, c.reply = None, Create(c)
    PROVE  ServedOK
<1>1. c.policy \in Policies /\ c.kind = "create"
  BY CallFacts DEF Create
<1>2. CASE status[c.policy] = "none"
  <2> DEFINE r == [id |-> c.policy, status |-> "draft", text |-> text[c.policy]]
  <2>1. /\ Answer(c, r) /\ UNCHANGED <<deleted, text, history>>
        /\ status' = [status EXCEPT ![c.policy] = "draft"]
    BY <1>2 DEF Create, Copy
  <2>2. r \in Replies /\ Fits(c.kind, r)
    BY <1>1, ServerFacts, CopyOK
  <2> HIDE DEF r
  <2>3. ServerOK'
    BY <2>1 DEF IInv, ServerOK, TextStaysHome
  <2>4. QED
    BY <1>1, <2>1, <2>2, <2>3, AnswerOK DEF ServedOK
<1>3. CASE status[c.policy] # "none"
  <2>1. Answer(c, Failure) /\ UNCHANGED server
    BY <1>3 DEF Create
  <2>2. ServerOK'
    BY <2>1 DEF IInv, ServerOK, TextStaysHome, server
  <2>3. QED
    BY <1>1, <2>1, <2>2, FailureOK, AnswerOK DEF ServedOK
<1>4. QED
  BY <1>2, <1>3

\* The server keeps the policies apart.
LEMMA ServeInv ==
    ASSUME IInv, NEW c \in calls, Serve(c)
    PROVE  IInv'
<1>1. c.reply = None /\ UNCHANGED uiVars /\ edits' = edits
  BY DEF Serve, counters
<1>2. ServedOK
  BY <1>1, ReadOK, SaveOK, PublishOK, DeleteOK, ForkOK, CreateOK DEF Serve
<1>3. QED
  BY <1>1, <1>2, PageKept DEF IInv, ServedOK

\* A lost call stores nothing.
LEMMA LoseInv ==
    ASSUME IInv, NEW c \in calls, Lose(c)
    PROVE  IInv'
<1>1. /\ Answer(c, Failure) /\ c.kind # "deferred"
      /\ UNCHANGED <<server, uiVars, edits, clicks>>
  BY DEF Lose
<1>2. CallsOK(calls') /\ ViewOwns(view, calls')
  BY <1>1, FailureOK, AnswerOK
<1>3. ServerOK'
  BY <1>1 DEF IInv, ServerOK, TextStaysHome, server
<1>4. QED
  BY <1>1, <1>2, <1>3, PageKept DEF IInv

-----------------------------------------------------------------------------
\* The agent's turn.

\* A turn begins without a text.
LEMMA AgentStartsInv ==
    ASSUME IInv, NEW c \in calls, AgentStarts(c)
    PROVE  IInv'
<1>1. /\ c.kind = "agent" /\ c.reply = None
      /\ UNCHANGED <<server, uiVars, counters>>
  BY DEF AgentStarts
<1>2. ServerOK' /\ edits' = edits
  BY <1>1 DEF IInv, ServerOK, TextStaysHome, server, counters
<1>3. CASE status[c.policy] = "draft"
  <2> DEFINE d == [c EXCEPT !.kind = "turn"]
  <2>1. calls' = (calls \ {c}) \cup {d}
    BY <1>3 DEF AgentStarts
  <2>2. /\ d \in CallSet /\ d.kind = "turn" /\ d.policy = c.policy
        /\ d.owner = c.owner /\ d.text = c.text /\ d.reply = c.reply
    BY CallFacts DEF CallSet, Kinds
  <2> HIDE DEF d
  <2>3. Good(d)
    BY <1>1, <2>2, CallFacts DEF Good, Carries, Fits
  <2>4. CallsOK(calls') /\ ViewOwns(view, calls')
    BY <1>1, <2>1, <2>2, <2>3, PageFacts DEF CallsOK, ViewOwns, Attached
  <2>5. QED
    BY <1>1, <1>2, <2>4, PageKept DEF IInv
<1>4. CASE status[c.policy] # "draft"
  <2>1. Answer(c, Failure)
    BY <1>4 DEF AgentStarts
  <2>2. CallsOK(calls') /\ ViewOwns(view, calls')
    BY <1>1, <2>1, FailureOK, AnswerOK
  <2>3. QED
    BY <1>1, <1>2, <2>2, PageKept DEF IInv
<1>5. QED
  BY <1>3, <1>4

\* A text is a new one of its policy.
LEMMA NewText ==
    ASSUME IInv, edits < MaxEdits, NEW p \in Policies
    PROVE  AtHome(p, [of |-> p, v |-> edits + 1]) /\ edits + 1 \in 0..MaxEdits
<1>1. MaxEdits \in Nat /\ edits \in 0..MaxEdits
  BY PolicyPageAssumption DEF IInv
<1>2. edits + 1 \in 0..MaxEdits
  BY <1>1
<1>3. QED
  BY <1>2 DEF AtHome, Text

\* What the stream shows goes to the draft that it is about.
LEMMA AgentUpdatesInv ==
    ASSUME IInv, NEW c \in calls, AgentUpdates(c)
    PROVE  IInv'
<1> DEFINE t == [of |-> c.policy, v |-> edits + 1]
           d == [c EXCEPT !.text = t]
<1>1. /\ c.kind = "turn" /\ c.reply = None /\ edits < MaxEdits
      /\ edits' = edits + 1 /\ calls' = (calls \ {c}) \cup {d}
      /\ view' = IF c.owner = "view" THEN [view EXCEPT !.text = t] ELSE view
      /\ UNCHANGED <<server, url, message, shown, metadata, loading, failed, turns>>
  BY DEF AgentUpdates
<1>2. AtHome(c.policy, t) /\ edits' \in 0..MaxEdits
  BY <1>1, CallFacts, NewText
<1> HIDE DEF t
<1>3. /\ d \in CallSet /\ d.kind = "turn" /\ d.policy = c.policy
      /\ d.owner = c.owner /\ d.text = t /\ d.reply = None
  BY <1>1, <1>2, CallFacts DEF CallSet, AtHome
<1> HIDE DEF d
<1>4. Good(d)
  BY <1>2, <1>3 DEF Good, Carries, Fits
<1>5. CallsOK(calls') /\ ViewOwns(view, calls')
  BY <1>1, <1>3, <1>4, PageFacts DEF CallsOK, ViewOwns, Attached
<1>6. ViewOK(view') /\ ViewOwns(view', calls')
  <2>1. CASE c.owner = "view"
    <3>1. Attached(view, c)
      BY <1>1, <2>1, CallFacts
    <3>2. /\ view' \in ViewSet /\ view'.kind = view.kind
          /\ view'.policy = view.policy /\ view'.text = t
      BY <1>1, <1>2, <2>1, <3>1 DEF Attached, ViewSet, AtHome
    <3>3. ViewOK(view')
      BY <1>2, <3>1, <3>2 DEF ViewOK, Attached
    <3>4. ViewOwns(view', calls')
      BY <1>2, <1>5, <3>1, <3>2 DEF ViewOwns, Attached
    <3>5. QED
      BY <3>3, <3>4
  <2>2. CASE c.owner # "view"
    BY <1>1, <1>5, <2>2, PageFacts
  <2>3. QED
    BY <2>1, <2>2
<1>7. ServerOK' /\ turns' \in Nat
  BY <1>1 DEF IInv, ServerOK, TextStaysHome, server
<1>8. PageOK'
  BY <1>1, <1>6 DEF IInv, PageOK
<1>9. QED
  BY <1>2, <1>5, <1>6, <1>7, <1>8 DEF IInv

\* What the agent wrote is stored for the policy it wrote it for.
LEMMA AgentEndsInv ==
    ASSUME IInv, NEW c \in calls, AgentEnds(c)
    PROVE  IInv'
<1> DEFINE r == [id |-> c.policy, status |-> "result", text |-> None]
<1>1. /\ c.kind = "turn" /\ c.reply = None
      /\ history' = [history EXCEPT ![c.policy] = Append(c.history, c.turn)]
      /\ UNCHANGED <<status, deleted, uiVars, counters>>
  BY DEF AgentEnds
<1>2. r \in Replies /\ Fits(c.kind, r)
  <2>1. r \in Result
    BY CallFacts DEF Result
  <2> HIDE DEF r
  <2>2. QED
    BY <1>1, <2>1 DEF Replies, Fits
<1>3. history' \in [Policies -> Seq(Nat)]
  <2>1. Append(c.history, c.turn) \in Seq(Nat)
    BY CallFacts
  <2>2. QED
    BY <1>1, <2>1 DEF IInv, ServerOK
<1>4. /\ CallsOK(calls') /\ ViewOwns(view, calls')
      /\ text' \in [Policies -> Text] /\ \A p \in Policies : text'[p].of = p
  <2>1. CASE c.text # None /\ Editable(c.policy)
    <3>1. Write(c, r)
      BY <2>1 DEF AgentEnds
    <3>2. AtHome(c.policy, c.text)
      BY <1>1, <2>1, CallFacts DEF Good, Carries
    <3> HIDE DEF r
    <3>3. QED
      BY <1>1, <1>2, <3>1, <3>2, WriteOK
  <2>2. CASE ~(c.text # None /\ Editable(c.policy))
    <3>1. Answer(c, r) /\ text' = text
      BY <2>2 DEF AgentEnds
    <3> HIDE DEF r
    <3>2. CallsOK(calls') /\ ViewOwns(view, calls')
      BY <1>1, <1>2, <3>1, AnswerOK
    <3>3. QED
      BY <3>1, <3>2 DEF IInv, ServerOK, TextStaysHome
  <2>3. QED
    BY <2>1, <2>2
<1>5. ServerOK'
  BY <1>1, <1>3, <1>4 DEF IInv, ServerOK, TextStaysHome
<1>6. edits' = edits
  BY <1>1 DEF counters
<1>7. QED
  BY <1>1, <1>4, <1>5, <1>6, PageKept DEF IInv

-----------------------------------------------------------------------------
\* The user.

\* A step that only moves to another page.
LEMMA MovedInv ==
    ASSUME IInv, PageStep, UNCHANGED <<server, edits, faults>>
    PROVE  IInv'
<1>1. ServerOK' /\ edits' \in 0..MaxEdits
  BY DEF IInv, ServerOK, TextStaysHome, server
<1>2. QED
  BY <1>1 DEF IInv, PageStep

\* Opening a policy keeps the texts apart.
LEMMA OpenInv ==
    ASSUME IInv, NEW p \in Policies, Open(p)
    PROVE  IInv'
<1>1. Go(p, None, calls) /\ UNCHANGED <<server, edits, faults>>
  BY DEF Open
<1>2. PageStep
  BY <1>1, PageFacts, GoOK DEF IInv
<1>3. QED
  BY <1>1, <1>2, MovedInv

\* A suggestion asks for a draft.
LEMMA SuggestInv ==
    ASSUME IInv, NEW p \in Policies, SuggestClicked(p)
    PROVE  IInv'
<1> DEFINE c == Call("create", p, "script", None, <<>>, 0)
<1>1. calls' = calls \cup {c} /\ UNCHANGED <<server, uiVars, edits, faults>>
  BY DEF SuggestClicked
<1>2. /\ "create" \in Kinds /\ "script" \in Owners /\ None \in Text \cup {None}
      /\ <<>> \in Seq(Nat) /\ 0 \in Nat
      /\ "create" \notin {"save", "publish", "agent", "turn"}
  BY DEF Kinds, Owners
<1>3. Good(c)
  BY <1>2, NewCall
<1>4. c.owner = "script"
  BY DEF Call
<1> HIDE DEF c
<1>5. CallsOK(calls') /\ ViewOwns(view, calls')
  BY <1>1, <1>3, <1>4, PageFacts DEF CallsOK, ViewOwns
<1>6. ServerOK' /\ edits' = edits
  BY <1>1 DEF IInv, ServerOK, TextStaysHome, server
<1>7. QED
  BY <1>1, <1>5, <1>6, PageKept DEF IInv

\* Leaving the page keeps them apart,
LEMMA LeaveInv ==
    ASSUME IInv, Leave
    PROVE  IInv'
<1>1. Unmount(calls) /\ UNCHANGED <<server, edits, faults>>
  BY DEF Leave
<1>2. PageStep
  BY <1>1, PageFacts, UnmountOK
<1>3. QED
  BY <1>1, <1>2, MovedInv

\* and so does loading it again.
LEMMA ReloadInv ==
    ASSUME IInv, Reload
    PROVE  IInv'
<1>1. /\ url \in Policies /\ Mount(url, message, Unscripted(calls))
      /\ UNCHANGED <<server, edits, faults>>
  BY DEF Reload, IInv, PageOK
<1>2. CallsOK(Unscripted(calls))
  BY PageFacts, UnscriptedOK
<1>3. PageStep
  BY <1>1, <1>2, PageFacts, MountOK
<1>4. QED
  BY <1>1, <1>3, MovedInv

\* An edit writes a text for the policy of its editor.
LEMMA EditInv ==
    ASSUME IInv, Edit
    PROVE  IInv'
<1> DEFINE t == [of |-> view.policy, v |-> edits + 1]
<1>1. /\ view # None /\ view.kind = "draft" /\ edits < MaxEdits
      /\ edits' = edits + 1 /\ view' = [view EXCEPT !.text = t]
      /\ UNCHANGED <<server, url, message, shown, metadata, loading, failed, calls,
                     turns>>
  BY DEF Edit
<1>2. view \in ViewSet /\ view.policy \in Policies
  BY <1>1, PageFacts DEF ViewOK, ViewSet
<1>3. AtHome(view.policy, t) /\ edits' \in 0..MaxEdits
  BY <1>1, <1>2, NewText
<1> HIDE DEF t
<1>4. /\ view' \in ViewSet /\ view'.kind = view.kind
      /\ view'.policy = view.policy /\ view'.text = t
  BY <1>1, <1>2, <1>3 DEF ViewSet, AtHome
<1>5. ViewOK(view')
  BY <1>3, <1>4 DEF ViewOK
<1>6. ViewOwns(view', calls')
  BY <1>1, <1>3, <1>4, PageFacts DEF ViewOwns, Attached
<1>7. ServerOK' /\ turns' \in Nat /\ CallsOK(calls')
  BY <1>1, PageFacts DEF IInv, ServerOK, TextStaysHome, server, CallsOK
<1>8. PageOK'
  BY <1>1, <1>5 DEF IInv, PageOK
<1>9. QED
  BY <1>3, <1>6, <1>7, <1>8 DEF IInv

\* A handler starts: its view is busy and its call is in flight.
LEMMA StartedInv ==
    ASSUME IInv, view # None,
           NEW flag \in SUBSET {"save", "publish", "delete", "fork", "agent"},
           NEW k \in Kinds, NEW t \in Text \cup {None}, NEW h \in Seq(Nat), NEW n \in Nat,
           k \in {"save", "publish"} => AtHome(view.policy, t),
           k \in {"agent", "turn"} => t = None /\ view.kind = "draft",
           view' = [view EXCEPT !.busy = @ \cup flag],
           calls' = calls \cup {Call(k, view.policy, "view", t, h, n)},
           UNCHANGED <<server, url, message, shown, metadata, loading, failed, edits>>,
           turns' \in Nat
    PROVE  IInv'
<1> DEFINE c == Call(k, view.policy, "view", t, h, n)
<1>1. view \in ViewSet /\ view.policy \in Policies
      /\ (view.kind = "draft" => AtHome(view.policy, view.text))
  BY PageFacts DEF ViewOK, ViewSet
<1>2. "view" \in Owners
  BY DEF Owners
<1>3. Good(c)
  BY <1>1, <1>2, NewCall
<1>4. c.kind = k /\ c.policy = view.policy /\ k # "deferred"
  BY DEF Call, Kinds
<1> HIDE DEF c
<1>4a. view.busy \cup flag \in SUBSET {"save", "publish", "delete", "fork", "agent"}
  BY <1>1 DEF ViewSet
<1>5. /\ view' \in ViewSet /\ view'.kind = view.kind
      /\ view'.policy = view.policy /\ view'.text = view.text
  BY <1>1, <1>4a DEF ViewSet
<1>6. ViewOK(view')
  BY <1>1, <1>5 DEF ViewOK
<1>7. calls' = calls \cup {c}
  BY DEF c
<1>8. CallsOK(calls')
  BY <1>3, <1>7, PageFacts DEF CallsOK
<1>9. ViewOwns(view', calls')
  BY <1>1, <1>4, <1>5, <1>7, PageFacts DEF ViewOwns, Attached
<1>10. ServerOK'
  BY DEF IInv, ServerOK, TextStaysHome, server
<1>11. PageOK'
  BY <1>6 DEF IInv, PageOK
<1>12. edits' \in 0..MaxEdits
  BY DEF IInv
<1>13. QED
  BY <1>8, <1>9, <1>10, <1>11, <1>12 DEF IInv

\* The text of a draft that is shown.
LEMMA ViewFacts ==
    ASSUME IInv, view # None
    PROVE  /\ view.policy \in Policies /\ view.text \in Text \cup {None}
           /\ view.history \in Seq(Nat)
           /\ view.kind = "draft" => AtHome(view.policy, view.text)
BY PageFacts DEF ViewOK, ViewSet

\* The buttons that send one call.
LEMMA HandleInv ==
    ASSUME IInv, view # None,
           NEW flag \in SUBSET {"save", "publish", "delete", "fork", "agent"},
           NEW k \in Kinds \ {"agent", "turn"}, NEW t \in Text \cup {None},
           k \in {"save", "publish"} => AtHome(view.policy, t),
           Handle(k, flag, t)
    PROVE  IInv'
<1>1. /\ view' = [view EXCEPT !.busy = @ \cup flag]
      /\ calls' = calls \cup {Call(k, view.policy, "view", t, <<>>, 0)}
      /\ UNCHANGED <<server, url, message, shown, metadata, loading, failed, edits>>
      /\ turns' = turns
  BY DEF Handle
<1>2. <<>> \in Seq(Nat) /\ 0 \in Nat /\ turns' \in Nat
  BY <1>1, PageFacts
<1>3. QED
  BY <1>1, <1>2, StartedInv

\* The four buttons.
LEMMA ClickInv ==
    ASSUME IInv, SaveClicked \/ PublishClicked \/ DeleteClicked \/ ForkClicked
    PROVE  IInv'
<1>1. CASE SaveClicked
  <2>1. view # None /\ view.kind = "draft" /\ Handle("save", {"save"}, view.text)
    BY <1>1 DEF SaveClicked
  <2>2. "save" \in Kinds \ {"agent", "turn"}
    BY DEF Kinds
  <2>3. QED
    BY <2>1, <2>2, ViewFacts, HandleInv
<1>2. CASE PublishClicked
  <2>1. view # None /\ view.kind = "draft" /\ Handle("publish", {"publish"}, view.text)
    BY <1>2 DEF PublishClicked
  <2>2. "publish" \in Kinds \ {"agent", "turn"}
    BY DEF Kinds
  <2>3. QED
    BY <2>1, <2>2, ViewFacts, HandleInv
<1>3. CASE DeleteClicked
  <2>1. /\ view # None
        /\ Handle("delete", {"delete"}, None) \/ Handle("delete", {}, None)
    BY <1>3 DEF DeleteClicked
  <2>2. "delete" \in Kinds \ {"agent", "turn"} /\ None \in Text \cup {None}
    BY DEF Kinds
  <2>3. QED
    BY <2>1, <2>2, HandleInv
<1>4. CASE ForkClicked
  <2>1. view # None /\ Handle("fork", {"fork"}, None)
    BY <1>4 DEF ForkClicked
  <2>2. "fork" \in Kinds \ {"agent", "turn"} /\ None \in Text \cup {None}
    BY DEF Kinds
  <2>3. QED
    BY <2>1, <2>2, HandleInv
<1>5. QED
  BY <1>1, <1>2, <1>3, <1>4

\* A message to the agent.
LEMMA AgentSendInv ==
    ASSUME IInv, AgentSend
    PROVE  IInv'
<1>1. /\ view # None /\ view.kind = "draft" /\ turns' = turns + 1
      /\ view' = [view EXCEPT !.busy = @ \cup {"agent"}]
      /\ calls' = calls \cup {Call("agent", view.policy, "view", None, view.history,
                                   turns + 1)}
      /\ UNCHANGED <<server, url, message, shown, metadata, loading, failed, edits>>
  BY DEF AgentSend, counters
<1>2. "agent" \in Kinds /\ None \in Text \cup {None}
  BY DEF Kinds
<1>3. turns + 1 \in Nat
  BY PageFacts
<1>4. turns' \in Nat
  BY <1>1, <1>3
<1>5. QED
  BY <1>1, <1>2, <1>3, <1>4, ViewFacts, StartedInv

-----------------------------------------------------------------------------
\* The second invariant: its parts.

\* The calls f[c] lead to no message that the calls c do not lead to.
NoMore(f, cs) ==
    \A c \in cs : Carrying(f[c]) => Carrying(c) /\ Subject(f[c]) = Subject(c)

\* Calls are renamed, or answered with nothing that is made for a suggestion.
LEMMA CleanStep ==
    ASSUME NEW st, NEW tx, NEW cs, NEW m, NEW sn, Clean(st, tx, cs, m, sn),
           \A c \in cs : Subject(c) \in Policies, m \in Policies \cup {None},
           NEW st2, NEW tx2, \A p \in Policies : st[p] # "none" => st2[p] # "none",
           NEW f, NEW ds, \A d \in ds : \E c \in cs : d = f[c],
           NoMore(f, cs),
           VouchOK(st2, tx2, ds)
    PROVE  Clean(st2, tx2, ds, m, sn)
<1>1. Sole(ds)
  <2>1. SUFFICES ASSUME NEW d \in ds, NEW e \in ds, Carrying(d), Carrying(e),
                        Subject(d) = Subject(e)
                 PROVE  d = e
    BY DEF Sole
  <2>2. PICK c \in cs : d = f[c]
    OBVIOUS
  <2>3. PICK b \in cs : e = f[b]
    OBVIOUS
  <2>4. Carrying(c) /\ Carrying(b) /\ Subject(c) = Subject(b)
    BY <2>1, <2>2, <2>3 DEF NoMore
  <2>5. c = b
    BY <2>4 DEF Clean, Sole
  <2>6. QED
    BY <2>2, <2>3, <2>5
<1>2. Waiting(st2, ds, m, sn)
  <2>1. ASSUME NEW d \in ds, Carrying(d)
        PROVE  m # Subject(d) /\ Unsent(st2, sn, Subject(d))
    <3>1. PICK c \in cs : d = f[c]
      OBVIOUS
    <3>2. Carrying(c) /\ Subject(c) = Subject(d) /\ Subject(d) \in Policies
      BY <2>1, <3>1 DEF NoMore
    <3>3. m # Subject(d) /\ Unsent(st, sn, Subject(d))
      BY <3>2 DEF Clean, Waiting
    <3>4. QED
      BY <3>2, <3>3 DEF Unsent
  <2>2. ASSUME m # None
        PROVE  Unsent(st2, sn, m)
    BY <2>2 DEF Clean, Waiting, Unsent
  <2>3. QED
    BY <2>1, <2>2 DEF Waiting
<1>3. SentOK(st2, sn)
  <2>1. sn \in Seq(SendSet)
    BY DEF Clean, SentOK
  <2>2. \A i \in DOMAIN sn : sn[i] \in SendSet
    BY <2>1
  <2>3. \A i \in DOMAIN sn : sn[i].of \in Policies
    BY <2>2 DEF SendSet
  <2>4. QED
    BY <2>3 DEF Clean, SentOK
<1>4. QED
  BY <1>1, <1>2, <1>3 DEF Clean

\* Renamed calls vouch for the same text.
LEMMA CleanRenamed ==
    ASSUME NEW st, NEW tx, NEW cs, NEW m, NEW sn, Clean(st, tx, cs, m, sn),
           \A c \in cs : Subject(c) \in Policies, m \in Policies \cup {None},
           NEW f, NEW ds, \A d \in ds : \E c \in cs : d = f[c],
           NoMore(f, cs),
           \A c \in cs : /\ f[c].policy = c.policy /\ f[c].text = c.text
                         /\ Vouching(f[c]) => Vouching(c)
    PROVE  Clean(st, tx, ds, m, sn)
<1>1. VouchOK(st, tx, ds)
  <2>1. SUFFICES ASSUME NEW d \in ds, Vouching(d)
                 PROVE  st[d.policy] # "none" /\ d.text \in {None, tx[d.policy]}
    BY DEF VouchOK
  <2>2. PICK c \in cs : d = f[c]
    OBVIOUS
  <2>3. Vouching(c) /\ d.policy = c.policy /\ d.text = c.text
    BY <2>1, <2>2
  <2>4. QED
    BY <2>3 DEF Clean, VouchOK
<1>2. \A p \in Policies : st[p] # "none" => st[p] # "none"
  OBVIOUS
<1>3. QED
  BY <1>1, <1>2, CleanStep

\* Some calls are gone, and new ones ask for nothing that has been made.
LEMMA CleanKept ==
    ASSUME NEW st, NEW tx, NEW cs, NEW m, NEW sn, Clean(st, tx, cs, m, sn),
           NEW ds, \A d \in ds : d \in cs \/ (~Carrying(d) /\ ~Vouching(d))
    PROVE  Clean(st, tx, ds, m, sn)
<1>1. Sole(ds) /\ Waiting(st, ds, m, sn)
  BY DEF Clean, Sole, Waiting
<1>2. VouchOK(st, tx, ds) /\ SentOK(st, sn)
  BY DEF Clean, VouchOK
<1>3. QED
  BY <1>1, <1>2 DEF Clean

\* No message waits.
LEMMA CleanForgotten ==
    ASSUME NEW st, NEW tx, NEW cs, NEW m, NEW sn, Clean(st, tx, cs, m, sn),
           \A c \in cs : Subject(c) \in Policies
    PROVE  Clean(st, tx, cs, None, sn)
<1>1. \A c \in cs : Subject(c) # None
  BY PolicyPageAssumption
<1>2. QED
  BY <1>1 DEF Clean, Waiting

\* What CallsOK says of a call.
LEMMA GoodCall ==
    ASSUME NEW cs, CallsOK(cs)
    PROVE  \A c \in cs : c \in CallSet /\ c.policy \in Policies /\ Subject(c) \in Policies
BY DEF CallsOK, Good, CallSet, Fits, Subject

\* A call that loses its owner, or its continuation, is the same call otherwise.
LEMMA OrphansClean ==
    ASSUME NEW st, NEW tx, NEW cs, NEW m, NEW sn, Clean(st, tx, cs, m, sn),
           CallsOK(cs), m \in Policies \cup {None}
    PROVE  Clean(st, tx, Orphans(cs), m, sn)
<1> DEFINE f == [c \in cs |-> [c EXCEPT !.owner = IF @ = "view" THEN "page" ELSE @]]
<1>1. \A d \in Orphans(cs) : \E c \in cs : d = f[c]
  BY DEF Orphans
<1>2. ASSUME NEW c \in cs
      PROVE  /\ f[c].policy = c.policy /\ f[c].text = c.text
             /\ f[c].kind = c.kind /\ f[c].reply = c.reply
  <2>1. c \in CallSet
    BY GoodCall
  <2>2. QED
    BY <2>1 DEF CallSet
<1> HIDE DEF f
<1>3. NoMore(f, cs) /\ \A c \in cs : Vouching(f[c]) => Vouching(c)
  BY <1>2 DEF NoMore, Carrying, Subject, Vouching
<1>4. QED
  BY <1>1, <1>2, <1>3, GoodCall, CleanRenamed

\* The calls of a page that has been left.
LEMMA LeftClean ==
    ASSUME NEW st, NEW tx, NEW cs, NEW m, NEW sn, Clean(st, tx, cs, m, sn),
           CallsOK(cs), m \in Policies \cup {None}
    PROVE  Clean(st, tx, Left(cs), m, sn)
<1> DEFINE f == [c \in cs |-> [c EXCEPT !.owner = IF @ = "nobody" THEN @ ELSE "script"]]
<1>1. \A d \in Left(cs) : \E c \in cs : d = f[c]
  BY DEF Left
<1>2. ASSUME NEW c \in cs
      PROVE  /\ f[c].policy = c.policy /\ f[c].text = c.text
             /\ f[c].kind = c.kind /\ f[c].reply = c.reply
  <2>1. c \in CallSet
    BY GoodCall
  <2>2. QED
    BY <2>1 DEF CallSet
<1> HIDE DEF f
<1>3. NoMore(f, cs) /\ \A c \in cs : Vouching(f[c]) => Vouching(c)
  BY <1>2 DEF NoMore, Carrying, Subject, Vouching
<1>4. QED
  BY <1>1, <1>2, <1>3, GoodCall, CleanRenamed

\* The calls of an application that has been loaded anew.
LEMMA UnscriptedClean ==
    ASSUME NEW st, NEW tx, NEW cs, NEW m, NEW sn, Clean(st, tx, cs, m, sn),
           CallsOK(cs), m \in Policies \cup {None}
    PROVE  Clean(st, tx, Unscripted(cs), m, sn)
<1> DEFINE ls == {c \in Left(cs) : c.kind # "deferred"}
           f == [c \in ls |-> [c EXCEPT !.owner = "nobody",
                                        !.kind = IF @ = "publish" THEN "save" ELSE @]]
<1>1. Clean(st, tx, ls, m, sn) /\ CallsOK(ls)
  <2>1. Clean(st, tx, Left(cs), m, sn) /\ CallsOK(Left(cs))
    BY LeftClean, LeftOK
  <2>2. QED
    BY <2>1, CleanKept DEF CallsOK
<1>2. \A d \in Unscripted(cs) : \E c \in ls : d = f[c]
  BY DEF Unscripted
<1> HIDE DEF ls
<1>3. ASSUME NEW c \in ls
      PROVE  /\ f[c].policy = c.policy /\ f[c].text = c.text /\ f[c].reply = c.reply
             /\ f[c].kind = IF c.kind = "publish" THEN "save" ELSE c.kind
  <2>1. c \in CallSet
    BY <1>1, GoodCall
  <2>2. QED
    BY <2>1 DEF CallSet
<1> HIDE DEF f
<1>4. NoMore(f, ls) /\ \A c \in ls : Vouching(f[c]) => Vouching(c)
  BY <1>3 DEF NoMore, Carrying, Subject, Vouching
<1>5. QED
  BY <1>1, <1>2, <1>3, <1>4, GoodCall, CleanRenamed

\* Conversations that are renamed stay those of the view.
LEMMA TalkStep ==
    ASSUME NEW w, NEW cs, NEW sn, TalkOK(w, cs, sn),
           NEW v, v.history = w.history, "agent" \in w.busy => "agent" \in v.busy,
           ~v.crossed => ~w.crossed,
           NEW f, NEW ds, \A d \in ds : \E c \in cs : d = f[c],
           \A c \in cs : Talk(f[c]) => /\ Talk(c) /\ f[c].turn = c.turn
                                       /\ f[c].history = c.history
    PROVE  TalkOK(v, ds, sn)
<1> SUFFICES ASSUME ~v.crossed
             PROVE  /\ \A d, e \in ds : Talk(d) /\ Talk(e) => d = e
                    /\ \A d \in ds : Talk(d) => "agent" \in v.busy /\ Kept(v, d, sn)
  BY DEF TalkOK
<1>1. ASSUME NEW d \in ds, NEW e \in ds, Talk(d), Talk(e)
      PROVE  d = e
  <2>1. PICK c \in cs : d = f[c]
    OBVIOUS
  <2>2. PICK b \in cs : e = f[b]
    OBVIOUS
  <2>3. Talk(c) /\ Talk(b)
    BY <1>1, <2>1, <2>2
  <2>4. QED
    BY <2>1, <2>2, <2>3 DEF TalkOK
<1>2. ASSUME NEW d \in ds, Talk(d)
      PROVE  "agent" \in v.busy /\ Kept(v, d, sn)
  <2>1. PICK c \in cs : d = f[c]
    OBVIOUS
  <2>2. Talk(c) /\ d.turn = c.turn /\ d.history = c.history
    BY <1>2, <2>1
  <2>3. "agent" \in w.busy /\ Kept(w, c, sn)
    BY <2>2 DEF TalkOK
  <2>4. QED
    BY <2>2, <2>3 DEF Kept
<1>3. QED
  BY <1>1, <1>2

\* New calls that are no conversations of the view do not disturb it.
LEMMA TalkKept ==
    ASSUME NEW w, NEW cs, NEW sn, TalkOK(w, cs, sn),
           NEW v, v.history = w.history, "agent" \in w.busy => "agent" \in v.busy,
           ~v.crossed => ~w.crossed,
           NEW ds, \A d \in ds : d \in cs \/ ~Talk(d)
    PROVE  TalkOK(v, ds, sn)
BY DEF TalkOK, Kept

\* Without a conversation of the view there is nothing to keep.
LEMMA TalkNone ==
    ASSUME NEW cs, \A c \in cs : c.owner # "view", NEW w, NEW sn
    PROVE  TalkOK(w, cs, sn)
BY DEF TalkOK, Talk

-----------------------------------------------------------------------------
\* What is mounted after a step.

\* A message is sent once: the next one is for another draft.
LEMMA SentNext ==
    ASSUME NEW st, NEW sn, SentOK(st, sn), NEW e \in SendSet, Unsent(st, sn, e.of)
    PROVE  /\ SentOK(st, Append(sn, e))
           /\ \A p : Unsent(st, sn, p) /\ p # e.of => Unsent(st, Append(sn, e), p)
           /\ \E i \in DOMAIN Append(sn, e) : Append(sn, e)[i] = e
<1> DEFINE s == Append(sn, e)
<1>1. sn \in Seq(SendSet) /\ Len(sn) \in Nat /\ DOMAIN sn = 1..Len(sn)
  BY DEF SentOK
<1>2. /\ s \in Seq(SendSet) /\ DOMAIN s = 1..(Len(sn) + 1)
      /\ \A i \in 1..Len(sn) : s[i] = sn[i]
      /\ s[Len(sn) + 1] = e
  BY <1>1
<1> HIDE DEF s
<1>3. \A i \in DOMAIN s : i \in DOMAIN sn \/ i = Len(sn) + 1
  BY <1>1, <1>2
<1>4. Len(sn) + 1 \in DOMAIN s
  BY <1>1, <1>2
<1>5. \A i \in DOMAIN s : st[s[i].of] # "none"
  BY <1>1, <1>2, <1>3 DEF SentOK, Unsent
<1>6. \A i, j \in DOMAIN s : s[i].of = s[j].of => i = j
  <2>1. SUFFICES ASSUME NEW i \in DOMAIN s, NEW j \in DOMAIN s, s[i].of = s[j].of
                 PROVE  i = j
    OBVIOUS
  <2>2. CASE i \in DOMAIN sn /\ j \in DOMAIN sn
    BY <1>1, <1>2, <2>1, <2>2 DEF SentOK
  <2>3. CASE i = Len(sn) + 1 /\ j \in DOMAIN sn
    BY <1>1, <1>2, <2>1, <2>3 DEF Unsent
  <2>4. CASE j = Len(sn) + 1 /\ i \in DOMAIN sn
    BY <1>1, <1>2, <2>1, <2>4 DEF Unsent
  <2>5. QED
    BY <1>3, <2>2, <2>3, <2>4
<1>7. SentOK(st, s)
  BY <1>2, <1>5, <1>6 DEF SentOK
<1>8. \A p : Unsent(st, sn, p) /\ p # e.of => Unsent(st, s, p)
  BY <1>1, <1>2, <1>3 DEF Unsent
<1>9. QED
  BY <1>2, <1>4, <1>7, <1>8 DEF s

\* The message of the router's state begins to wait, and leaves that state.
LEMMA AutoSendSound ==
    ASSUME NEW w \in ViewSet, NEW m \in Policies, NEW cs, CallsOK(cs),
           \A c \in cs : c.owner # "view",
           Clean(status, text, cs, m, sends), UNCHANGED <<status, text, sends>>,
           AutoSend(w, m, cs)
    PROVE  Sound'
<1> DEFINE c == Deferred(w.policy, m)
<1>1. message' = None /\ view' = w /\ calls' = cs \cup {c} /\ sends' = sends
  BY DEF AutoSend
<1>2. c.kind = "deferred" /\ c.reply = m
  BY DEF Deferred, Call
<1> HIDE DEF c
<1>3. Carrying(c) /\ Subject(c) = m /\ ~Vouching(c) /\ ~Talk(c)
  BY <1>2 DEF Carrying, Subject, Vouching, Talk
<1>4. /\ \A d \in cs : Carrying(d) => Subject(d) # m /\ Unsent(status, sends, Subject(d))
      /\ Unsent(status, sends, m) /\ SentOK(status, sends)
  BY PolicyPageAssumption DEF Clean, Waiting
<1>5. Sole(calls') /\ VouchOK(status, text, calls')
  BY <1>1, <1>3, <1>4 DEF Clean, Sole, VouchOK
<1>6. Waiting(status, calls', message', sends')
  <2>1. \A d \in calls' : Subject(d) # None
    BY <1>1, <1>3, GoodCall, PolicyPageAssumption
  <2>2. QED
    BY <1>1, <1>3, <1>4, <2>1 DEF Waiting
<1>7. TalkOK(view', calls', sends')
  BY <1>1, <1>3 DEF TalkOK, Talk
<1>8. QED
  BY <1>1, <1>4, <1>5, <1>6, <1>7 DEF Sound, Clean

\* Whatever is mounted next.
LEMMA RenderSound ==
    ASSUME NEW sh, ShownOK(sh), NEW md \in Metadata \cup {None},
           NEW ld \in BOOLEAN, NEW fl \in BOOLEAN,
           NEW w, ViewOK(w), NEW m \in Policies \cup {None},
           NEW cs, CallsOK(cs), turns \in Nat,
           Clean(status, text, cs, m, sends), TalkOK(w, cs, sends),
           UNCHANGED <<status, text>>,
           Render(sh, md, ld, fl, w, m, cs)
    PROVE  Sound'
<1>1. CASE Kind(sh, ld, fl) # "none" /\ w # None /\ Keeps(w, sh)
  <2>1. /\ view' = [w EXCEPT !.policy = sh.id]
        /\ message' = m /\ calls' = cs /\ sends' = sends
    BY <1>1 DEF Render
  <2>2. w \in ViewSet
    BY <1>1 DEF ViewOK
  <2>3. /\ view'.history = w.history /\ view'.busy = w.busy
        /\ view'.crossed = w.crossed
    BY <2>1, <2>2 DEF ViewSet
  <2>4. TalkOK(view', calls', sends')
    BY <2>1, <2>3, TalkKept
  <2>5. QED
    BY <2>1, <2>4 DEF Sound
<1>2. CASE /\ ~(Kind(sh, ld, fl) # "none" /\ w # None /\ Keeps(w, sh))
           /\ Kind(sh, ld, fl) = "draft" /\ m # None
  <2>1. /\ AutoSend(Fresh(sh, md), m, Orphans(cs)) /\ m \in Policies
        /\ UNCHANGED <<status, text, sends>>
    BY <1>2 DEF Render
  <2>2. Fresh(sh, md) \in ViewSet
    BY <1>2, FreshOK
  <2>3. /\ CallsOK(Orphans(cs)) /\ \A c \in Orphans(cs) : c.owner # "view"
        /\ Clean(status, text, Orphans(cs), m, sends)
    BY OrphansOK, OrphansClean
  <2>4. QED
    BY <2>1, <2>2, <2>3, AutoSendSound
<1>3. CASE /\ ~(Kind(sh, ld, fl) # "none" /\ w # None /\ Keeps(w, sh))
           /\ ~(Kind(sh, ld, fl) = "draft" /\ m # None)
  <2>1. message' = m /\ calls' = Orphans(cs) /\ sends' = sends
    BY <1>3 DEF Render
  <2>2. Clean(status, text, Orphans(cs), m, sends)
    BY OrphansClean
  <2>3. TalkOK(view', Orphans(cs), sends)
    BY OrphansOK, TalkNone
  <2>4. QED
    BY <2>1, <2>2, <2>3 DEF Sound
<1>4. QED
  BY <1>1, <1>2, <1>3

\* A page that is loading shows nothing.
LEMMA BlankSound ==
    ASSUME NEW m \in Policies \cup {None}, NEW cs, CallsOK(cs),
           Clean(status, text, cs, m, sends), UNCHANGED <<status, text>>,
           Render(None, None, TRUE, FALSE, None, m, cs)
    PROVE  Sound'
<1>1. Kind(None, TRUE, FALSE) = "none"
  BY DEF Kind
<1>2. message' = m /\ calls' = Orphans(cs) /\ sends' = sends
  BY <1>1 DEF Render
<1>3. Clean(status, text, Orphans(cs), m, sends)
  BY OrphansClean
<1>4. TalkOK(view', Orphans(cs), sends)
  BY OrphansOK, TalkNone
<1>5. QED
  BY <1>2, <1>3, <1>4 DEF Sound

\* A load that is sent.
LEMMA SentClean ==
    ASSUME NEW cs, NEW m, Clean(status, text, cs, m, sends),
           NEW k \in {"policy", "metadata"}, NEW p
    PROVE  /\ Clean(status, text, cs \cup {Call(k, p, "page", None, <<>>, 0)}, m, sends)
           /\ \A w : TalkOK(w, cs, sends) =>
                  TalkOK(w, cs \cup {Call(k, p, "page", None, <<>>, 0)}, sends)
<1> DEFINE c == Call(k, p, "page", None, <<>>, 0)
<1>1. c.kind = k /\ c.owner = "page"
  BY DEF Call
<1> HIDE DEF c
<1>2. ~Carrying(c) /\ ~Vouching(c) /\ ~Talk(c)
  BY <1>1 DEF Carrying, Vouching, Talk
<1>3. Clean(status, text, cs \cup {c}, m, sends)
  BY <1>2, CleanKept
<1>4. \A w : TalkOK(w, cs, sends) => TalkOK(w, cs \cup {c}, sends)
  BY <1>2, TalkKept
<1>5. QED
  BY <1>3, <1>4 DEF c

\* A page is opened,
LEMMA MountSound ==
    ASSUME NEW p \in Policies, NEW m \in Policies \cup {None}, NEW cs, CallsOK(cs),
           Clean(status, text, cs, m, sends), UNCHANGED <<status, text>>,
           Mount(p, m, cs)
    PROVE  Sound'
<1> DEFINE ds == cs \cup {Call("policy", p, "page", None, <<>>, 0)}
<1>1. CallsOK(ds) /\ Clean(status, text, ds, m, sends)
  BY Sent, SentClean
<1>2. Render(None, None, TRUE, FALSE, None, m, ds)
  BY DEF Mount
<1> HIDE DEF ds
<1>3. QED
  BY <1>1, <1>2, BlankSound

\* or left,
LEMMA UnmountSound ==
    ASSUME NEW cs, CallsOK(cs), NEW m \in Policies \cup {None},
           Clean(status, text, cs, m, sends), UNCHANGED <<status, text>>,
           Unmount(cs)
    PROVE  Sound'
<1>1. CallsOK(Left(cs)) /\ Clean(status, text, Left(cs), m, sends)
  BY LeftOK, LeftClean
<1>2. Clean(status, text, Left(cs), None, sends)
  BY <1>1, GoodCall, CleanForgotten
<1>3. Render(None, None, TRUE, FALSE, None, None, Left(cs)) /\ None \in Policies \cup {None}
  BY DEF Unmount
<1>4. QED
  BY <1>1, <1>2, <1>3, BlankSound

\* or its URL changes.
LEMMA GoSound ==
    ASSUME PageOK, turns \in Nat, NEW p \in Policies, NEW m \in Policies \cup {None},
           NEW cs, CallsOK(cs), Clean(status, text, cs, m, sends),
           TalkOK(view, cs, sends), UNCHANGED <<status, text>>, Go(p, m, cs)
    PROVE  Sound'
<1> DEFINE c == Call("policy", p, "page", None, <<>>, 0)
<1>1. /\ CallsOK(cs \cup {c}) /\ Clean(status, text, cs \cup {c}, m, sends)
      /\ TalkOK(view, cs \cup {c}, sends)
  BY Sent, SentClean
<1>2. /\ ShownOK(shown) /\ metadata \in Metadata \cup {None}
      /\ loading \in BOOLEAN /\ failed \in BOOLEAN /\ ViewOK(view)
      /\ TRUE \in BOOLEAN
  BY DEF PageOK
<1>3. CASE url = None
  BY <1>3, MountSound DEF Go
<1>4. CASE url # None /\ p = url
  <2>1. Render(shown, metadata, loading, failed, view, m, cs)
    BY <1>4 DEF Go
  <2>2. QED
    BY <1>2, <2>1, RenderSound
<1>5. CASE url # None /\ p # url
  <2>1. Render(shown, metadata, TRUE, failed, view, m, cs \cup {c})
    BY <1>5 DEF Go
  <2> HIDE DEF c
  <2>2. QED
    BY <1>1, <1>2, <2>1, RenderSound
<1>6. QED
  BY <1>3, <1>4, <1>5

\* A continuation ends with the page rendered again.
LEMMA ContinueSound ==
    ASSUME IInv, Sound, NEW c \in calls, NEW sh, ShownOK(sh),
           NEW md \in Metadata \cup {None}, NEW ld \in BOOLEAN, NEW fl \in BOOLEAN,
           NEW w, ViewOK(w), TalkOK(w, calls \ {c}, sends),
           UNCHANGED <<status, text>>, Continue(c, sh, md, ld, fl, w)
    PROVE  Sound'
<1>1. CallsOK(calls \ {c})
  BY DEF IInv, CallsOK
<1>2. Clean(status, text, calls \ {c}, message, sends)
  BY CleanKept DEF Sound
<1>3. /\ message \in Policies \cup {None} /\ turns \in Nat
      /\ Render(sh, md, ld, fl, w, message, calls \ {c})
  BY DEF Continue, IInv, PageOK
<1>4. QED
  BY <1>1, <1>2, <1>3, RenderSound

-----------------------------------------------------------------------------
\* The continuations.

\* The calls that remain when one is done.
LEMMA RestSound ==
    ASSUME IInv, Sound, NEW c
    PROVE  /\ Clean(status, text, calls \ {c}, message, sends)
           /\ TalkOK(view, calls \ {c}, sends) /\ CallsOK(calls \ {c})
<1>1. Clean(status, text, calls \ {c}, message, sends)
  BY CleanKept DEF Sound
<1>2. TalkOK(view, calls \ {c}, sends)
  BY TalkKept DEF Sound
<1>3. QED
  BY <1>1, <1>2, RestOK

\* A handler that is done, and is not the conversation, leaves it in place.
LEMMA IdleSound ==
    ASSUME IInv, Sound, NEW c, NEW done, done # "agent"
    PROVE  /\ TalkOK(Idle(c, done), calls \ {c}, sends)
           /\ ViewOK(Idle(c, done))
<1>1. CASE c.owner = "view" /\ view # None
  <2> DEFINE w == [view EXCEPT !.busy = @ \ {done}]
  <2>1. Idle(c, done) = w
    BY <1>1 DEF Idle
  <2>2. view \in ViewSet
    BY <1>1, PageFacts DEF ViewOK
  <2>3. /\ w.history = view.history /\ w.crossed = view.crossed
        /\ "agent" \in view.busy => "agent" \in w.busy
    BY <2>2 DEF ViewSet
  <2> HIDE DEF w
  <2>4. TalkOK(w, calls \ {c}, sends)
    BY <2>3, RestSound, TalkKept
  <2>5. QED
    BY <2>1, <2>4, IdleOK
<1>2. CASE ~(c.owner = "view" /\ view # None)
  <2>1. Idle(c, done) = view
    BY <1>2 DEF Idle
  <2>2. QED
    BY <2>1, RestSound, PageFacts
<1>3. QED
  BY <1>1, <1>2

\* What a step that leaves the server alone leaves alone.
Untouched == UNCHANGED <<status, text>>

\* The answers of the loads.
LEMMA LoadedSound ==
    ASSUME IInv, Sound, NEW c \in calls, c.reply # None, Loaded(c), Untouched
    PROVE  Sound'
<1>0. c.kind = "policy" /\ UNCHANGED <<status, text>>
  BY DEF Loaded, Untouched
<1>1. TalkOK(view, calls \ {c}, sends)
  BY RestSound
<1>2. CASE c.reply = Failure
  BY <1>0, <1>1, <1>2, PageFacts, ContinueSound DEF Loaded
<1>3. CASE c.reply # Failure
  <2>1. ShownOK(c.reply)
    BY <1>0, <1>3, CallFacts DEF Good, Fits
  <2>2. CASE c.reply.status = "draft"
    <3> DEFINE cs == calls \ {c}
               n == Call("metadata", c.policy, "page", None, <<>>, 0)
    <3>1. /\ CallsOK(cs) /\ Clean(status, text, cs, message, sends)
          /\ TalkOK(view, cs, sends)
      BY RestSound
    <3>2. Render(c.reply, metadata, loading, failed, view, message, cs \cup {n})
      BY <1>3, <2>2 DEF Loaded
    <3> HIDE DEF cs
    <3>3. CallsOK(cs \cup {n})
      BY <3>1, CallFacts, Sent
    <3>4. /\ Clean(status, text, cs \cup {n}, message, sends)
          /\ TalkOK(view, cs \cup {n}, sends)
      BY <3>1, SentClean
    <3> HIDE DEF n
    <3>5. QED
      BY <1>0, <2>1, <3>2, <3>3, <3>4, PageFacts, RenderSound
  <2>3. CASE c.reply.status # "draft"
    <3>1. Continue(c, c.reply, metadata, FALSE, failed, view)
      BY <1>3, <2>3 DEF Loaded
    <3>2. QED
      BY <1>0, <1>1, <2>1, <3>1, PageFacts, ContinueSound
  <2>4. QED
    BY <2>2, <2>3
<1>4. QED
  BY <1>2, <1>3

\* The metadata that arrives.
LEMMA MetadataLoadedSound ==
    ASSUME IInv, Sound, NEW c \in calls, c.reply # None, MetadataLoaded(c), Untouched
    PROVE  Sound'
<1> DEFINE md == IF c.reply = Failure THEN metadata ELSE c.reply
<1>1. md \in Metadata \cup {None}
  BY CallFacts, PageFacts DEF MetadataLoaded, Good, Fits
<1>2. Continue(c, shown, md, FALSE, failed, view) /\ UNCHANGED <<status, text>>
  BY DEF MetadataLoaded, Untouched
<1> HIDE DEF md
<1>3. QED
  BY <1>1, <1>2, RestSound, PageFacts, ContinueSound

\* The answer of a save or a publication.
LEMMA SavedSound ==
    ASSUME IInv, Sound, NEW c \in calls, c.reply # None, Saved(c), Untouched
    PROVE  Sound'
<1> DEFINE sh == IF c.reply # Failure /\ c.owner \in {"view", "page"}
                 THEN c.reply ELSE shown
           done == IF c.kind = "save" THEN "save" ELSE "publish"
           w == Idle(c, done)
<1>1. ShownOK(sh)
  BY CallFacts, PageFacts DEF Saved, Good, Fits
<1>2. Continue(c, sh, metadata, loading, failed, w) /\ UNCHANGED <<status, text>>
  BY DEF Saved, Untouched
<1>3. done # "agent"
  OBVIOUS
<1> HIDE DEF done
<1>4. ViewOK(w) /\ TalkOK(w, calls \ {c}, sends)
  BY <1>3, IdleSound
<1> HIDE DEF sh, w
<1>5. QED
  BY <1>1, <1>2, <1>4, PageFacts, ContinueSound

\* A handler that gives up, or has nothing left to do.
LEMMA ContinueIdle ==
    ASSUME IInv, Sound, NEW c \in calls, NEW done, done # "agent",
           Continue(c, shown, metadata, loading, failed, Idle(c, done)), Untouched
    PROVE  Sound'
<1>1. ViewOK(Idle(c, done)) /\ TalkOK(Idle(c, done), calls \ {c}, sends)
  BY IdleSound
<1>2. UNCHANGED <<status, text>>
  BY DEF Untouched
<1>3. QED
  BY <1>1, <1>2, PageFacts, ContinueSound

\* A call is replaced by what becomes of it.
LEMMA ReplaceSound ==
    ASSUME IInv, Sound, NEW c \in calls, NEW d, calls' = (calls \ {c}) \cup {d},
           d.policy = c.policy, d.turn = c.turn, d.history = c.history,
           ~Carrying(d), Talk(d) => Talk(c),
           Vouching(d) => /\ status'[d.policy] # "none"
                          /\ d.text \in {None, text'[d.policy]},
           \A p \in Policies : status[p] # "none" =>
               status'[p] # "none" /\ text'[p] = text[p],
           UNCHANGED <<message, sends>>,
           view'.history = view.history,
           "agent" \in view.busy => "agent" \in view'.busy,
           ~view'.crossed => ~view.crossed
    PROVE  Sound'
<1> DEFINE f == [x \in calls |-> IF x = c THEN d ELSE x]
<1>1. \A e \in calls' : \E x \in calls : e = f[x]
  OBVIOUS
<1>2. \A x \in calls : (f[x] = d /\ x = c) \/ f[x] = x
  OBVIOUS
<1> HIDE DEF f
<1>3. \A x \in calls : x.policy \in Policies
  BY PageFacts, GoodCall
<1>4. VouchOK(status', text', calls')
  <2>1. SUFFICES ASSUME NEW e \in calls', Vouching(e)
                 PROVE  status'[e.policy] # "none" /\ e.text \in {None, text'[e.policy]}
    BY DEF VouchOK
  <2>2. CASE e = d
    BY <2>1, <2>2
  <2>3. CASE e \in calls
    <3>1. status[e.policy] # "none" /\ e.text \in {None, text[e.policy]}
      BY <2>1, <2>3 DEF Sound, Clean, VouchOK
    <3>2. QED
      BY <1>3, <2>3, <3>1
  <2>4. QED
    BY <2>2, <2>3
<1>5. NoMore(f, calls)
  BY <1>2 DEF NoMore
<1>6. \A x \in calls : Talk(f[x]) => /\ Talk(x) /\ f[x].turn = x.turn
                                     /\ f[x].history = x.history
  BY <1>2
<1>7. \A p \in Policies : status[p] # "none" => status'[p] # "none"
  OBVIOUS
<1>8. Clean(status, text, calls, message, sends) /\ TalkOK(view, calls, sends)
      /\ message \in Policies \cup {None}
  BY PageFacts DEF Sound
<1>9. Clean(status', text', calls', message, sends)
  <2>1. \A x \in calls : Subject(x) \in Policies
    BY PageFacts, GoodCall
  <2>2. QED
    BY <1>1, <1>4, <1>5, <1>7, <1>8, <2>1, CleanStep
<1>10. TalkOK(view', calls', sends)
  BY <1>1, <1>6, <1>8, TalkStep
<1>11. QED
  BY <1>9, <1>10 DEF Sound

\* A draft that has been saved goes on to be published: what was saved is stored.
LEMMA DraftSavedSound ==
    ASSUME IInv, Sound, NEW c \in calls, c.reply # None, DraftSaved(c), Untouched
    PROVE  Sound'
<1>1. CASE c.reply = Failure
  <2>1. Continue(c, shown, metadata, loading, failed, Idle(c, "publish"))
    BY <1>1 DEF DraftSaved
  <2>2. QED
    BY <2>1, ContinueIdle
<1>2. CASE c.reply # Failure
  <2> DEFINE d == [c EXCEPT !.kind = "confirm", !.reply = None]
  <2>1. calls' = (calls \ {c}) \cup {d} /\ UNCHANGED uiVars /\ c.kind = "publish"
    BY <1>2 DEF DraftSaved
  <2>2. /\ d.kind = "confirm" /\ d.policy = c.policy /\ d.turn = c.turn
        /\ d.history = c.history /\ d.text = c.text
    BY CallFacts DEF CallSet
  <2> HIDE DEF d
  <2>3. ~Carrying(d) /\ ~Talk(d)
    BY <2>2 DEF Carrying, Talk
  <2>4. status[c.policy] # "none" /\ c.text \in {None, text[c.policy]}
    BY <1>2, <2>1 DEF Sound, Clean, VouchOK, Vouching
  <2>5. /\ status' = status /\ text' = text /\ view' = view
        /\ UNCHANGED <<message, sends>>
    BY <2>1 DEF Untouched, uiVars
  <2>6. QED
    BY <2>1, <2>2, <2>3, <2>4, <2>5, ReplaceSound
<1>3. QED
  BY <1>1, <1>2

\* The page of a deleted policy is left.
LEMMA DeletedSound ==
    ASSUME IInv, Sound, NEW c \in calls, c.reply # None, Deleted(c), Untouched
    PROVE  Sound'
<1>1. CASE c.reply = Failure \/ c.owner = "nobody"
  <2>1. Continue(c, shown, metadata, loading, failed, Idle(c, "delete"))
    BY <1>1 DEF Deleted
  <2>2. QED
    BY <2>1, ContinueIdle
<1>2. CASE ~(c.reply = Failure \/ c.owner = "nobody")
  <2>1. Unmount(calls \ {c}) /\ UNCHANGED <<status, text>>
    BY <1>2 DEF Deleted, Untouched
  <2>2. QED
    BY <2>1, RestSound, PageFacts, UnmountSound
<1>3. QED
  BY <1>1, <1>2

\* The fork is opened.
LEMMA ForkedSound ==
    ASSUME IInv, Sound, NEW c \in calls, c.reply # None, Forked(c), Untouched
    PROVE  Sound'
<1>1. CASE c.reply = Failure \/ c.owner = "nobody"
  <2>1. Continue(c, shown, metadata, loading, failed, Idle(c, "fork"))
    BY <1>1 DEF Forked
  <2>2. QED
    BY <2>1, ContinueIdle
<1>2. CASE ~(c.reply = Failure \/ c.owner = "nobody")
  <2>1. /\ Go(c.reply.id, None, calls \ {c}) /\ c.kind = "fork"
        /\ UNCHANGED <<status, text>>
    BY <1>2 DEF Forked, Untouched
  <2>2. c.reply.id \in Policies
    BY <1>2, <2>1, CallFacts DEF Good, Fits
  <2>3. Clean(status, text, calls \ {c}, None, sends)
    BY RestSound, GoodCall, CleanForgotten
  <2>4. PageOK
    BY DEF IInv
  <2>5. QED
    BY <2>1, <2>2, <2>3, <2>4, RestSound, PageFacts, GoSound
<1>3. QED
  BY <1>1, <1>2

\* The draft of a suggestion is opened, with a message that has not been sent.
LEMMA SuggestedSound ==
    ASSUME IInv, Sound, NEW c \in calls, c.reply # None, Suggested(c), Untouched
    PROVE  Sound'
<1>0. UNCHANGED <<status, text>>
  BY DEF Untouched
<1>1. CASE c.owner = "nobody"
  <2>1. Continue(c, shown, metadata, loading, failed, view)
    BY <1>1 DEF Suggested
  <2>2. QED
    BY <1>0, <2>1, RestSound, PageFacts, ContinueSound
<1>2. CASE c.owner # "nobody" /\ c.reply = Failure
  <2>1. Unmount(calls \ {c})
    BY <1>2 DEF Suggested
  <2>2. QED
    BY <1>0, <2>1, RestSound, PageFacts, UnmountSound
<1>3. CASE c.owner # "nobody" /\ c.reply # Failure
  <2> DEFINE cs == calls \ {c}
  <2>1. Go(c.policy, c.policy, cs) /\ Carrying(c) /\ Subject(c) = c.policy
    BY <1>3 DEF Suggested, Carrying, Subject
  <2>2. c.policy \in Policies /\ c.policy \in Policies \cup {None} /\ PageOK
    BY CallFacts DEF IInv
  <2>3. \A d \in cs : Carrying(d) => Subject(d) # c.policy
    BY <2>1 DEF Sound, Clean, Sole
  <2>4. Unsent(status, sends, c.policy)
    BY <2>1 DEF Sound, Clean, Waiting
  <2>5. /\ Clean(status, text, cs, message, sends) /\ TalkOK(view, cs, sends)
        /\ CallsOK(cs)
    BY RestSound
  <2> HIDE DEF cs
  <2>6. Clean(status, text, cs, c.policy, sends)
    <3>1. Waiting(status, cs, c.policy, sends)
      BY <2>3, <2>4, <2>5 DEF Clean, Waiting
    <3>2. QED
      BY <2>5, <3>1 DEF Clean
  <2>7. QED
    BY <1>0, <2>1, <2>2, <2>5, <2>6, PageFacts, GoSound
<1>4. QED
  BY <1>1, <1>2, <1>3

\* When the conversation of the view ends there is none.
LEMMA AgentDoneSound ==
    ASSUME IInv, Sound, NEW c \in calls, c.reply # None, AgentDone(c), Untouched
    PROVE  Sound'
<1> DEFINE i == Idle(c, "agent")
           w == IF c.owner = "view" /\ c.reply # Failure
                THEN [i EXCEPT !.history = Append(@, c.turn)] ELSE i
<1>1. /\ c.kind \in {"agent", "turn"} /\ Continue(c, shown, metadata, loading, failed, w)
      /\ UNCHANGED <<status, text>>
  BY DEF AgentDone, Untouched
<1>2. ViewOK(i) /\ ViewOwns(i, calls)
  BY IdleOK
<1>3. TalkOK(w, calls \ {c}, sends)
  <2>1. CASE c.owner = "view"
    <3>1. ~view.crossed => \A d \in calls \ {c} : ~Talk(d)
      BY <1>1, <2>1 DEF Sound, TalkOK, Talk
    <3>2. w.crossed = view.crossed
      <4>1. view \in ViewSet
        BY <1>1, <2>1, CallFacts DEF Attached
      <4>2. i \in ViewSet /\ i.crossed = view.crossed
        BY <2>1, <4>1, IdleOK DEF Idle, ViewSet
      <4> HIDE DEF i
      <4>3. [i EXCEPT !.history = Append(@, c.turn)].crossed = i.crossed
        BY <4>2 DEF ViewSet
      <4>4. QED
        BY <4>2, <4>3
    <3> HIDE DEF w
    <3>3. QED
      BY <3>1, <3>2 DEF TalkOK
  <2>2. CASE c.owner # "view"
    <3>1. w = view
      BY <2>2 DEF Idle
    <3>2. QED
      BY <3>1, RestSound
  <2>3. QED
    BY <2>1, <2>2
<1>4. ViewOK(w)
  <2> HIDE DEF i
  <2>1. CASE c.owner = "view" /\ c.reply # Failure
    <3>1. i \in ViewSet /\ AtHome(i.policy, i.text) /\ c.turn \in Nat
      BY <1>1, <1>2, <2>1, CallFacts DEF ViewOwns, Attached
    <3> DEFINE h == Append(i.history, c.turn)
    <3>2. h \in Seq(Nat)
      BY <3>1 DEF ViewSet
    <3>3. w = [i EXCEPT !.history = h]
      BY <2>1
    <3> HIDE DEF h, w
    <3>4. w \in ViewSet /\ w.kind = i.kind /\ w.policy = i.policy /\ w.text = i.text
      BY <3>1, <3>2, <3>3 DEF ViewSet
    <3>5. QED
      BY <3>1, <3>4 DEF ViewOK
  <2>2. CASE ~(c.owner = "view" /\ c.reply # Failure)
    BY <1>2, <2>2
  <2>3. QED
    BY <2>1, <2>2
<1> HIDE DEF w
<1>5. QED
  BY <1>1, <1>3, <1>4, PageFacts, ContinueSound

\* A message that has waited goes out: what waits beside it is about other drafts.
LEMMA AutoSentSound ==
    ASSUME IInv, Sound, NEW c \in calls, c.reply # None, AutoSent(c), Untouched
    PROVE  Sound'
<1> DEFINE n == Call("agent", c.policy, c.owner, None, <<>>, turns + 1)
           e == [of |-> c.reply, to |-> c.policy, turn |-> turns + 1]
<1>1. /\ c.kind = "deferred" /\ calls' = (calls \ {c}) \cup {n}
      /\ sends' = Append(sends, e) /\ message' = message
      /\ status' = status /\ text' = text
      /\ view' = IF c.owner = "view"
                 THEN [view EXCEPT !.busy = @ \cup {"agent"},
                                   !.crossed = @ \/ "agent" \in view.busy]
                 ELSE view
  BY DEF AutoSent, Untouched
<1>2. n.kind = "agent" /\ n.owner = c.owner /\ n.turn = turns + 1
  BY DEF Call
<1>3. e \in SendSet /\ e.of = c.reply /\ e.turn = turns + 1
  BY <1>1, CallFacts, PageFacts DEF SendSet, Good, Fits
<1> HIDE DEF n, e
<1>4. ~Carrying(n) /\ ~Vouching(n)
  BY <1>2 DEF Carrying, Vouching
<1>5. Carrying(c) /\ Subject(c) = e.of
  BY <1>1, <1>3 DEF Carrying, Subject
<1>6. /\ \A d \in calls \ {c} : Carrying(d) => Subject(d) # e.of
      /\ message # e.of /\ Unsent(status, sends, e.of) /\ SentOK(status, sends)
  BY <1>5 DEF Sound, Clean, Sole, Waiting
<1>7. /\ SentOK(status, sends')
      /\ \A p : Unsent(status, sends, p) /\ p # e.of => Unsent(status, sends', p)
      /\ \E i \in DOMAIN sends' : sends'[i] = e
  BY <1>1, <1>3, <1>6, SentNext
<1>8. \A d \in calls' : d = n \/ d \in calls \ {c}
  BY <1>1
<1>9. Sole(calls') /\ VouchOK(status, text, calls')
  BY <1>4, <1>8 DEF Sound, Clean, Sole, VouchOK
<1>10. Waiting(status, calls', message, sends')
  BY <1>4, <1>6, <1>7, <1>8 DEF Sound, Clean, Waiting
<1>11. TalkOK(view', calls', sends')
  <2>1. CASE c.owner = "view"
    <3>1. view \in ViewSet
      BY <1>1, <2>1, CallFacts DEF Attached
    <3>2. /\ "agent" \in view'.busy
          /\ ~view'.crossed => ~view.crossed /\ "agent" \notin view.busy
      BY <1>1, <2>1, <3>1 DEF ViewSet
    <3>3. ~view'.crossed => \A d \in calls' : Talk(d) => d = n
      BY <1>8, <3>2 DEF Sound, TalkOK
    <3>4. Kept(view', n, sends')
      BY <1>2, <1>3, <1>7 DEF Kept
    <3>5. QED
      BY <3>2, <3>3, <3>4 DEF TalkOK
  <2>2. CASE c.owner # "view"
    <3>1. view' = view /\ \A d \in calls' : Talk(d) => d \in calls
      BY <1>1, <1>2, <1>8, <2>2 DEF Talk
    <3>2. \A d : Kept(view, d, sends) => Kept(view, d, sends')
      <4>1. sends \in Seq(SendSet)
        BY <1>6 DEF SentOK
      <4>2. \A i \in DOMAIN sends : i \in DOMAIN sends' /\ sends'[i] = sends[i]
        BY <1>1, <1>3, <4>1
      <4>3. QED
        BY <4>2 DEF Kept
    <3>3. QED
      BY <3>1, <3>2 DEF Sound, TalkOK
  <2>3. QED
    BY <2>1, <2>2
<1>12. QED
  BY <1>1, <1>7, <1>9, <1>10, <1>11 DEF Sound, Clean

\* No continuation sends a message twice, or crosses two conversations.
LEMMA ResumeSound ==
    ASSUME IInv, Sound, NEW c \in calls, Resume(c)
    PROVE  Sound'
<1>1. c.reply # None /\ Untouched
  BY DEF Resume, server, Untouched
<1>2. QED
  BY <1>1, LoadedSound, MetadataLoadedSound, SavedSound, DraftSavedSound, DeletedSound,
     ForkedSound, SuggestedSound, AutoSentSound, AgentDoneSound DEF Resume

-----------------------------------------------------------------------------
\* The server.

\* What a step of the server may do to the policies that exist.
Forward ==
    \A p \in Policies : status[p] # "none" =>
        status'[p] # "none" /\ text'[p] = text[p]

\* An answer that makes nothing, and saves nothing.
LEMMA AnswerSound ==
    ASSUME IInv, Sound, NEW c \in calls, NEW r,
           c.kind # "deferred", c.kind = "create" => r = Failure,
           c.kind = "publish" => r = Failure,
           Answer(c, r), Forward, UNCHANGED uiVars
    PROVE  Sound'
<1> DEFINE d == [c EXCEPT !.reply = r]
<1>1. calls' = (calls \ {c}) \cup {d}
  BY DEF Answer
<1>2. /\ d.kind = c.kind /\ d.policy = c.policy /\ d.turn = c.turn /\ d.owner = c.owner
      /\ d.history = c.history /\ d.text = c.text /\ d.reply = r
  BY CallFacts DEF CallSet
<1> HIDE DEF d
<1>3. ~Carrying(d) /\ (Talk(d) => Talk(c)) /\ (Vouching(d) => Vouching(c))
  BY <1>2 DEF Carrying, Talk, Vouching
<1>4. Vouching(d) => status[c.policy] # "none" /\ c.text \in {None, text[c.policy]}
  BY <1>3 DEF Sound, Clean, VouchOK
<1>5. Vouching(d) => status'[d.policy] # "none" /\ d.text \in {None, text'[d.policy]}
  BY <1>2, <1>4, CallFacts DEF Forward
<1>6. UNCHANGED <<message, sends, view>>
  BY DEF uiVars
<1>7. \A p \in Policies : status[p] # "none" =>
          status'[p] # "none" /\ text'[p] = text[p]
  BY DEF Forward
<1>8. QED
  BY <1>1, <1>2, <1>3, <1>5, <1>6, <1>7, ReplaceSound

\* Nothing happens to the policies.
LEMMA StillForward ==
    ASSUME UNCHANGED <<status, text>>
    PROVE  Forward
BY DEF Forward

\* A failure.
LEMMA FailureSound ==
    ASSUME IInv, Sound, NEW c \in calls, c.kind # "deferred", Answer(c, Failure),
           UNCHANGED <<status, text>>, UNCHANGED uiVars
    PROVE  Sound'
BY FailureOK, StillForward, AnswerSound

\* After another text has been written no publication vouches for the old one.
LEMMA WriteSound ==
    ASSUME IInv, Sound, NEW c \in calls, NEW r,
           c.kind \in {"save", "publish", "turn"}, status[c.policy] = "draft",
           Write(c, r), status' = status, UNCHANGED uiVars
    PROVE  Sound'
<1> DEFINE e == [c EXCEPT !.reply = r]
           T(d) == IF /\ Publishing(d) /\ d.policy = c.policy /\ d # c
                      /\ d.text # c.text
                   THEN None ELSE d.text
           F(d) == [d EXCEPT !.text = T(d)]
           f == [d \in calls |-> IF d = c THEN e ELSE F(d)]
<1>1. /\ calls' = {F(d) : d \in calls \ {c}} \cup {e}
      /\ text' = [text EXCEPT ![c.policy] = c.text]
  BY DEF Write
<1>2. /\ e.kind = c.kind /\ e.policy = c.policy /\ e.turn = c.turn /\ e.owner = c.owner
      /\ e.history = c.history /\ e.text = c.text /\ e.reply = r
  BY CallFacts DEF CallSet
<1> HIDE DEF e
<1>3. ASSUME NEW d \in calls
      PROVE  /\ F(d).kind = d.kind /\ F(d).policy = d.policy /\ F(d).turn = d.turn
             /\ F(d).owner = d.owner /\ F(d).history = d.history
             /\ F(d).reply = d.reply /\ F(d).text = T(d)
  <2>1. d \in CallSet
    BY CallFacts
  <2> HIDE DEF T
  <2>2. QED
    BY <2>1 DEF CallSet
<1>4. \A d \in calls : (d = c /\ f[d] = e) \/ (d # c /\ f[d] = F(d))
  OBVIOUS
<1> HIDE DEF F
<1>5. \A x \in calls' : \E d \in calls : x = f[d]
  BY <1>1, <1>4
<1> HIDE DEF f
<1>6. ASSUME NEW d \in calls
      PROVE  /\ Carrying(f[d]) => Carrying(d) /\ Subject(f[d]) = Subject(d)
             /\ Talk(f[d]) => Talk(d)
             /\ f[d].turn = d.turn /\ f[d].history = d.history
  <2>1. CASE d = c
    BY <1>2, <1>4, <2>1 DEF Carrying, Talk
  <2>2. CASE d # c
    BY <1>3, <1>4, <2>2 DEF Carrying, Subject, Talk
  <2>3. QED
    BY <2>1, <2>2
<1>7. text \in [Policies -> Text] /\ c.policy \in Policies
  BY CallFacts DEF IInv, ServerOK
<1>8. text'[c.policy] = c.text /\ \A p \in Policies \ {c.policy} : text'[p] = text[p]
  BY <1>1, <1>7
<1>9. VouchOK(status', text', calls')
  <2>1. SUFFICES ASSUME NEW x \in calls', Vouching(x)
                 PROVE  status[x.policy] # "none" /\ x.text \in {None, text'[x.policy]}
    BY DEF VouchOK
  <2>2. PICK d \in calls : x = f[d]
    BY <1>5
  <2>3. CASE d = c
    BY <1>2, <1>4, <1>8, <2>2, <2>3
  <2>4. CASE d # c
    <3>1. x.policy = d.policy /\ x.text = T(d) /\ x.kind = d.kind /\ x.reply = d.reply
      BY <1>3, <1>4, <2>2, <2>4
    <3>2. Vouching(d) /\ Publishing(d) /\ d.policy \in Policies
      BY <2>1, <3>1, CallFacts DEF Vouching, Publishing
    <3>3. status[d.policy] # "none" /\ d.text \in {None, text[d.policy]}
      BY <3>2 DEF Sound, Clean, VouchOK
    <3>4. T(d) \in {None, text'[d.policy]}
      <4>1. CASE d.policy = c.policy
        BY <1>8, <2>4, <3>2, <4>1
      <4>2. CASE d.policy # c.policy
        BY <1>8, <3>2, <3>3, <4>2
      <4>3. QED
        BY <4>1, <4>2
    <3>5. QED
      BY <3>1, <3>3, <3>4
  <2>5. QED
    BY <2>3, <2>4
<1>10. Clean(status, text, calls, message, sends) /\ TalkOK(view, calls, sends)
       /\ message \in Policies \cup {None} /\ \A x \in calls : Subject(x) \in Policies
  BY PageFacts, GoodCall DEF Sound
<1>11. UNCHANGED <<message, sends, view>>
  BY DEF uiVars
<1>12. \A p \in Policies : status[p] # "none" => status'[p] # "none"
  OBVIOUS
<1>13. Clean(status', text', calls', message, sends)
  <2>1. NoMore(f, calls)
    BY <1>6 DEF NoMore
  <2>2. QED
    BY <1>5, <1>9, <1>10, <1>12, <2>1, CleanStep
<1>14. TalkOK(view, calls', sends)
  <2>1. \A d \in calls : Talk(f[d]) => /\ Talk(d) /\ f[d].turn = d.turn
                                       /\ f[d].history = d.history
    BY <1>6
  <2>2. QED
    BY <1>5, <1>10, <2>1, TalkStep
<1>15. QED
  BY <1>11, <1>13, <1>14 DEF Sound

\* A policy that is created, or forked, is another than those that exist.
LEMMA NewForward ==
    ASSUME IInv, NEW q \in Policies, status[q] = "none",
           status' = [status EXCEPT ![q] = "draft"],
           \/ text' = text
           \/ \E t : text' = [text EXCEPT ![q] = t]
    PROVE  Forward
<1>1. /\ status \in [Policies -> {"draft", "published", "none"}]
      /\ text \in [Policies -> Text]
  BY DEF IInv, ServerOK
<1>2. QED
  BY <1>1 DEF Forward

\* A policy that is published keeps its text.
LEMMA OldForward ==
    ASSUME IInv, NEW q \in Policies,
           status' = [status EXCEPT ![q] = "published"], text' = text
    PROVE  Forward
<1>1. status \in [Policies -> {"draft", "published", "none"}]
  BY DEF IInv, ServerOK
<1>2. QED
  BY <1>1 DEF Forward

\* A load,
LEMMA ReadSound ==
    ASSUME IInv, Sound, NEW c \in calls, Read(c), UNCHANGED uiVars
    PROVE  Sound'
<1> DEFINE r == IF status[c.policy] = "none" THEN Failure
                ELSE IF c.kind = "policy" THEN Copy(c.policy)
                ELSE [of |-> c.policy, history |-> history[c.policy]]
<1>1. c.kind \in {"policy", "metadata"} /\ Answer(c, r) /\ UNCHANGED <<status, text>>
  BY DEF Read, server
<1> HIDE DEF r
<1>2. QED
  BY <1>1, StillForward, AnswerSound

\* a save,
LEMMA SaveSound ==
    ASSUME IInv, Sound, NEW c \in calls, Save(c), UNCHANGED uiVars
    PROVE  Sound'
<1>1. CASE Editable(c.policy)
  <2> DEFINE r == [Copy(c.policy) EXCEPT !.text = c.text]
  <2>1. Write(c, r) /\ status' = status /\ c.kind \in {"save", "publish", "turn"}
    BY <1>1 DEF Save
  <2> HIDE DEF r
  <2>2. QED
    BY <1>1, <2>1, WriteSound DEF Editable
<1>2. CASE ~Editable(c.policy)
  <2>1. Answer(c, Failure) /\ c.kind # "deferred" /\ UNCHANGED <<status, text>>
    BY <1>2 DEF Save, server
  <2>2. QED
    BY <2>1, FailureSound
<1>3. QED
  BY <1>1, <1>2

\* a publication,
LEMMA PublishSound ==
    ASSUME IInv, Sound, NEW c \in calls, Publish(c), UNCHANGED uiVars
    PROVE  Sound'
<1>1. CASE Editable(c.policy)
  <2> DEFINE r == [Copy(c.policy) EXCEPT !.status = "published"]
  <2>1. /\ Answer(c, r) /\ text' = text /\ c.kind = "confirm"
        /\ status' = [status EXCEPT ![c.policy] = "published"]
    BY <1>1 DEF Publish
  <2> HIDE DEF r
  <2>2. Forward
    BY <2>1, CallFacts, OldForward
  <2>3. QED
    BY <2>1, <2>2, AnswerSound
<1>2. CASE ~Editable(c.policy)
  <2>1. Answer(c, Failure) /\ c.kind # "deferred" /\ UNCHANGED <<status, text>>
    BY <1>2 DEF Publish, server
  <2>2. QED
    BY <2>1, FailureSound
<1>3. QED
  BY <1>1, <1>2

\* a deletion,
LEMMA DeleteSound ==
    ASSUME IInv, Sound, NEW c \in calls, Delete(c), UNCHANGED uiVars
    PROVE  Sound'
<1>1. c.kind = "delete"
  BY DEF Delete
<1>2. ASSUME UNCHANGED <<status, text>>, Answer(c, Copy(c.policy))
      PROVE  Sound'
  BY <1>1, <1>2, StillForward, AnswerSound
<1>3. ASSUME Answer(c, Failure), UNCHANGED <<status, text>>
      PROVE  Sound'
  BY <1>1, <1>3, FailureSound
<1>4. QED
  BY <1>2, <1>3 DEF Delete, server

\* a fork,
LEMMA ForkSound ==
    ASSUME IInv, Sound, NEW c \in calls, Fork(c), UNCHANGED uiVars
    PROVE  Sound'
<1>1. CASE status[c.policy] # "none"
  <2> DEFINE t(q) == [of |-> q, v |-> text[c.policy].v]
             r(q) == [id |-> q, status |-> "draft", text |-> t(q)]
  <2>1. c.kind = "fork"
    BY DEF Fork
  <2>2. PICK q \in Policies :
            /\ status[q] = "none" /\ status' = [status EXCEPT ![q] = "draft"]
            /\ text' = [text EXCEPT ![q] = t(q)] /\ Answer(c, r(q))
    BY <1>1 DEF Fork
  <2> HIDE DEF r, t
  <2>3. Forward
    BY <2>2, NewForward
  <2>4. QED
    BY <2>1, <2>2, <2>3, AnswerSound
<1>2. CASE status[c.policy] = "none"
  <2>1. Answer(c, Failure) /\ c.kind # "deferred" /\ UNCHANGED <<status, text>>
    BY <1>2 DEF Fork, server
  <2>2. QED
    BY <2>1, FailureSound
<1>3. QED
  BY <1>1, <1>2

\* and a draft that is made for a suggestion: it did not exist, so nothing has
\* been sent for it and nothing waits.
LEMMA CreateSound ==
    ASSUME IInv, Sound, NEW c \in calls, Create(c), UNCHANGED uiVars
    PROVE  Sound'
<1>1. CASE status[c.policy] = "none"
  <2> DEFINE p == c.policy
             r == [Copy(p) EXCEPT !.status = "draft"]
             d == [c EXCEPT !.reply = r]
  <2>1. /\ c.kind = "create" /\ calls' = (calls \ {c}) \cup {d} /\ text' = text
        /\ status' = [status EXCEPT ![p] = "draft"]
    BY <1>1 DEF Create, Answer
  <2>2. d.kind = "create" /\ d.policy = p /\ p \in Policies /\ Subject(d) = p
    BY <2>1, CallFacts DEF CallSet, Subject
  <2> HIDE DEF d, p
  <2>3. Forward
    BY <1>1, <2>1, <2>2, NewForward DEF p
  <2>4. status[p] = "none" /\ status'[p] # "none" /\ p # None
    <3>1. status[p] = "none" /\ p # None
      BY <1>1, <2>2, PolicyPageAssumption DEF p
    <3>2. status \in [Policies -> {"draft", "published", "none"}]
      BY DEF IInv, ServerOK
    <3>3. QED
      BY <2>1, <2>2, <3>1, <3>2
  <2>5. Clean(status, text, calls, message, sends) /\ TalkOK(view, calls, sends)
        /\ UNCHANGED <<message, sends, view>> /\ message \in Policies \cup {None}
        /\ \A x \in calls : x.policy \in Policies /\ Subject(x) \in Policies
    BY PageFacts, GoodCall DEF Sound, uiVars
  <2>6. \A x \in calls' : x = d \/ x \in calls
    BY <2>1
  <2>7. \A x \in calls : Carrying(x) => Subject(x) # p
    BY <2>4, <2>5 DEF Clean, Waiting, Unsent
  <2>8. Sole(calls')
    BY <2>2, <2>5, <2>6, <2>7 DEF Clean, Sole
  <2>9. SentOK(status', sends)
    <3>1. sends \in Seq(SendSet) /\ \A i \in DOMAIN sends : status[sends[i].of] # "none"
      BY <2>5 DEF Clean, SentOK
    <3>2. \A i \in DOMAIN sends : sends[i] \in SendSet
      BY <3>1
    <3>3. \A i \in DOMAIN sends : status'[sends[i].of] # "none"
      BY <2>3, <3>1, <3>2 DEF Forward, SendSet
    <3>4. QED
      BY <2>5, <3>3 DEF Clean, SentOK
  <2>10. Waiting(status', calls', message, sends)
    <3>1. \A q \in Policies : Unsent(status, sends, q) => Unsent(status', sends, q)
      BY <2>3 DEF Forward, Unsent
    <3>2. Unsent(status', sends, p) /\ message # p
      BY <2>4, <2>5 DEF Clean, Waiting, SentOK, Unsent
    <3>3. ASSUME NEW x \in calls', Carrying(x)
          PROVE  message # Subject(x) /\ Unsent(status', sends, Subject(x))
      <4>1. CASE x = d
        BY <2>2, <3>2, <4>1
      <4>2. CASE x \in calls
        BY <2>5, <3>1, <3>3, <4>2 DEF Clean, Waiting
      <4>3. QED
        BY <2>6, <4>1, <4>2
    <3>4. message # None => Unsent(status', sends, message)
      BY <2>5, <3>1 DEF Clean, Waiting
    <3>5. QED
      BY <3>3, <3>4 DEF Waiting
  <2>11. VouchOK(status', text', calls')
    <3>1. ~Vouching(d)
      BY <2>2 DEF Vouching
    <3>2. QED
      BY <2>3, <2>5, <2>6, <3>1 DEF Clean, VouchOK, Forward
  <2>12. TalkOK(view, calls', sends)
    <3>1. ~Talk(d)
      BY <2>2 DEF Talk
    <3>2. QED
      BY <2>5, <2>6, <3>1, TalkKept
  <2>13. QED
    BY <2>5, <2>8, <2>9, <2>10, <2>11, <2>12 DEF Sound, Clean
<1>2. CASE status[c.policy] # "none"
  <2>1. Answer(c, Failure) /\ c.kind # "deferred" /\ UNCHANGED <<status, text>>
    BY <1>2 DEF Create, server
  <2>2. QED
    BY <2>1, FailureSound
<1>3. QED
  BY <1>1, <1>2

\* The server's part.
LEMMA ServeSound ==
    ASSUME IInv, Sound, NEW c \in calls, Serve(c) \/ Lose(c)
    PROVE  Sound'
<1>1. UNCHANGED uiVars
  BY DEF Serve, Lose
<1>2. ASSUME Lose(c)
      PROVE  Sound'
  <2>1. Answer(c, Failure) /\ c.kind # "deferred" /\ UNCHANGED <<status, text>>
    BY <1>2 DEF Lose, server
  <2>2. QED
    BY <1>1, <2>1, FailureSound
<1>3. ASSUME Serve(c)
      PROVE  Sound'
  BY <1>1, <1>3, ReadSound, SaveSound, PublishSound, DeleteSound, ForkSound, CreateSound
     DEF Serve
<1>4. QED
  BY <1>2, <1>3

-----------------------------------------------------------------------------
\* The agent's turn.

\* A turn begins: it is the same conversation.
LEMMA AgentStartsSound ==
    ASSUME IInv, Sound, NEW c \in calls, AgentStarts(c)
    PROVE  Sound'
<1>1. c.kind = "agent" /\ UNCHANGED <<status, text>> /\ UNCHANGED uiVars
  BY DEF AgentStarts, server
<1>2. CASE status[c.policy] = "draft"
  <2> DEFINE d == [c EXCEPT !.kind = "turn"]
  <2>1. calls' = (calls \ {c}) \cup {d}
    BY <1>2 DEF AgentStarts
  <2>2. /\ d.kind = "turn" /\ d.policy = c.policy /\ d.owner = c.owner
        /\ d.turn = c.turn /\ d.history = c.history
    BY CallFacts DEF CallSet
  <2> HIDE DEF d
  <2>3. ~Carrying(d) /\ ~Vouching(d) /\ (Talk(d) => Talk(c))
    BY <1>1, <2>2 DEF Carrying, Vouching, Talk
  <2>4. UNCHANGED <<message, sends, view>>
    BY <1>1 DEF uiVars
  <2>5. QED
    BY <1>1, <2>1, <2>2, <2>3, <2>4, ReplaceSound
<1>3. CASE status[c.policy] # "draft"
  <2>1. Answer(c, Failure)
    BY <1>3 DEF AgentStarts
  <2>2. QED
    BY <1>1, <2>1, FailureSound
<1>4. QED
  BY <1>2, <1>3

\* The text it writes is shown, and stored by no one yet.
LEMMA AgentUpdatesSound ==
    ASSUME IInv, Sound, NEW c \in calls, AgentUpdates(c)
    PROVE  Sound'
<1> DEFINE t == [of |-> c.policy, v |-> edits + 1]
           d == [c EXCEPT !.text = t]
<1>1. /\ c.kind = "turn" /\ calls' = (calls \ {c}) \cup {d}
      /\ view' = IF c.owner = "view" THEN [view EXCEPT !.text = t] ELSE view
      /\ UNCHANGED <<status, text>> /\ UNCHANGED <<message, sends>>
  BY DEF AgentUpdates, server
<1> HIDE DEF t
<1>2. /\ d.kind = "turn" /\ d.policy = c.policy /\ d.owner = c.owner
      /\ d.turn = c.turn /\ d.history = c.history
  BY <1>1, CallFacts DEF CallSet
<1> HIDE DEF d
<1>3. ~Carrying(d) /\ ~Vouching(d) /\ (Talk(d) => Talk(c))
  BY <1>1, <1>2 DEF Carrying, Vouching, Talk
<1>4. /\ view'.history = view.history /\ view'.busy = view.busy
      /\ view'.crossed = view.crossed
  <2>1. CASE c.owner = "view"
    <3>1. view \in ViewSet
      BY <1>1, <2>1, CallFacts DEF Attached
    <3>2. QED
      BY <1>1, <2>1, <3>1 DEF ViewSet
  <2>2. CASE c.owner # "view"
    BY <1>1, <2>2
  <2>3. QED
    BY <2>1, <2>2
<1>5. QED
  BY <1>1, <1>2, <1>3, <1>4, ReplaceSound

\* It is stored when the turn ends.
LEMMA AgentEndsSound ==
    ASSUME IInv, Sound, NEW c \in calls, AgentEnds(c)
    PROVE  Sound'
<1> DEFINE r == [id |-> c.policy, status |-> "result", text |-> None]
<1>1. c.kind = "turn" /\ status' = status /\ UNCHANGED uiVars
  BY DEF AgentEnds
<1>2. CASE c.text # None /\ Editable(c.policy)
  <2>1. Write(c, r)
    BY <1>2 DEF AgentEnds
  <2> HIDE DEF r
  <2>2. QED
    BY <1>1, <1>2, <2>1, WriteSound DEF Editable
<1>3. CASE ~(c.text # None /\ Editable(c.policy))
  <2>1. Answer(c, r) /\ text' = text
    BY <1>3 DEF AgentEnds
  <2> HIDE DEF r
  <2>2. QED
    BY <1>1, <2>1, StillForward, AnswerSound
<1>4. QED
  BY <1>2, <1>3

-----------------------------------------------------------------------------
\* The user.

\* The user goes elsewhere,
LEMMA MovedSound ==
    ASSUME IInv, Sound, Leave \/ Reload \/ \E p \in Policies : Open(p)
    PROVE  Sound'
<1>1. /\ UNCHANGED <<status, text>> /\ CallsOK(calls) /\ message \in Policies \cup {None}
      /\ Clean(status, text, calls, message, sends) /\ TalkOK(view, calls, sends)
  BY PageFacts DEF Leave, Reload, Open, server, Sound
<1>2. CASE Leave
  BY <1>1, <1>2, UnmountSound DEF Leave
<1>3. CASE Reload
  <2>1. url \in Policies /\ Mount(url, message, Unscripted(calls))
    BY <1>3 DEF Reload, IInv, PageOK
  <2>2. /\ CallsOK(Unscripted(calls))
        /\ Clean(status, text, Unscripted(calls), message, sends)
    BY <1>1, UnscriptedOK, UnscriptedClean
  <2>3. QED
    BY <1>1, <2>1, <2>2, MountSound
<1>4. ASSUME NEW p \in Policies, Open(p)
      PROVE  Sound'
  <2>1. Go(p, None, calls) /\ PageOK
    BY <1>4 DEF Open, IInv
  <2>2. Clean(status, text, calls, None, sends)
    BY <1>1, GoodCall, CleanForgotten
  <2>3. QED
    BY <1>1, <2>1, <2>2, PageFacts, GoSound
<1>5. QED
  BY <1>2, <1>3, <1>4

\* or sends a call that makes, vouches for and says nothing yet.
LEMMA QuietSound ==
    ASSUME IInv, Sound, NEW d, calls' = calls \cup {d},
           ~Carrying(d), ~Vouching(d), ~Talk(d),
           UNCHANGED <<status, text>>, UNCHANGED <<message, sends>>,
           view'.history = view.history, "agent" \in view.busy => "agent" \in view'.busy,
           ~view'.crossed => ~view.crossed
    PROVE  Sound'
<1>1. \A x \in calls' : x \in calls \/ x = d
  OBVIOUS
<1>2. Clean(status, text, calls', message, sends)
  BY <1>1, CleanKept DEF Sound
<1>3. TalkOK(view', calls', sends)
  BY <1>1, TalkKept DEF Sound
<1>4. QED
  BY <1>2, <1>3 DEF Sound

\* "Suggest Policy".
LEMMA SuggestSound ==
    ASSUME IInv, Sound, NEW p \in Policies, SuggestClicked(p)
    PROVE  Sound'
<1> DEFINE d == Call("create", p, "script", None, <<>>, 0)
<1>1. calls' = calls \cup {d} /\ UNCHANGED <<status, text>>
      /\ UNCHANGED <<message, sends, view>>
  BY DEF SuggestClicked, server, uiVars
<1>2. d.kind = "create" /\ d.owner = "script" /\ d.reply = None
  BY DEF Call
<1> HIDE DEF d
<1>3. ~Carrying(d) /\ ~Vouching(d) /\ ~Talk(d)
  BY <1>2 DEF Carrying, Vouching, Talk
<1>4. QED
  BY <1>1, <1>3, QuietSound

\* The buttons.
LEMMA HandleSound ==
    ASSUME IInv, Sound, view # None, NEW k \in {"save", "publish", "delete", "fork"},
           NEW flag, NEW t, Handle(k, flag, t)
    PROVE  Sound'
<1> DEFINE d == Call(k, view.policy, "view", t, <<>>, 0)
<1>1. /\ calls' = calls \cup {d} /\ UNCHANGED <<status, text>>
      /\ view' = [view EXCEPT !.busy = @ \cup flag] /\ UNCHANGED <<message, sends>>
  BY DEF Handle, server
<1>2. d.kind = k /\ d.reply = None
  BY DEF Call
<1> HIDE DEF d
<1>3. ~Carrying(d) /\ ~Vouching(d) /\ ~Talk(d)
  BY <1>2 DEF Carrying, Vouching, Talk
<1>4. view \in ViewSet
  BY PageFacts DEF ViewOK
<1>5. /\ view'.history = view.history /\ view'.crossed = view.crossed
      /\ "agent" \in view.busy => "agent" \in view'.busy
  BY <1>1, <1>4 DEF ViewSet
<1>6. QED
  BY <1>1, <1>3, <1>5, QuietSound

\* The four of them.
LEMMA ClickSound ==
    ASSUME IInv, Sound, SaveClicked \/ PublishClicked \/ DeleteClicked \/ ForkClicked
    PROVE  Sound'
BY HandleSound DEF SaveClicked, PublishClicked, DeleteClicked, ForkClicked

\* An edit.
LEMMA EditSound ==
    ASSUME IInv, Sound, Edit
    PROVE  Sound'
<1>1. /\ view # None /\ calls' = calls /\ UNCHANGED <<status, text>>
      /\ view' = [view EXCEPT !.text = [of |-> view.policy, v |-> edits + 1]]
      /\ UNCHANGED <<message, sends>>
  BY DEF Edit, server
<1>2. view \in ViewSet
  BY <1>1, PageFacts DEF ViewOK
<1>3. /\ view'.history = view.history /\ view'.busy = view.busy
      /\ view'.crossed = view.crossed
  BY <1>1, <1>2 DEF ViewSet
<1>4. TalkOK(view', calls', sends)
  BY <1>1, <1>3, TalkKept DEF Sound
<1>5. QED
  BY <1>1, <1>4 DEF Sound

\* A message to the agent carries what the view shows, which has no other
\* conversation.
LEMMA AgentSendSound ==
    ASSUME IInv, Sound, AgentSend
    PROVE  Sound'
<1> DEFINE d == Call("agent", view.policy, "view", None, view.history, turns + 1)
<1>1. /\ view # None /\ "agent" \notin view.busy /\ calls' = calls \cup {d}
      /\ view' = [view EXCEPT !.busy = @ \cup {"agent"}] /\ UNCHANGED <<status, text>>
      /\ UNCHANGED <<message, sends>>
  BY DEF AgentSend, server
<1>2. d.kind = "agent" /\ d.history = view.history
  BY DEF Call
<1> HIDE DEF d
<1>3. view \in ViewSet
  BY <1>1, PageFacts DEF ViewOK
<1>4. /\ view'.history = view.history /\ "agent" \in view'.busy
      /\ view'.crossed = view.crossed
  BY <1>1, <1>3 DEF ViewSet
<1>5. \A x \in calls' : x \in calls \/ x = d
  BY <1>1
<1>6. ~Carrying(d) /\ ~Vouching(d)
  BY <1>2 DEF Carrying, Vouching
<1>7. Clean(status, text, calls', message, sends)
  BY <1>5, <1>6, CleanKept DEF Sound
<1>8. ~view.crossed => \A x \in calls : ~Talk(x)
  BY <1>1 DEF Sound, TalkOK
<1>9. Kept(view', d, sends)
  BY <1>2, <1>4 DEF Kept
<1>10. TalkOK(view', calls', sends)
  BY <1>4, <1>5, <1>8, <1>9 DEF TalkOK
<1>11. QED
  BY <1>1, <1>7, <1>10 DEF Sound

-----------------------------------------------------------------------------
\* The theorems.

\* The invariant holds at first.
LEMMA InitInv == Init => IInv
<1> SUFFICES ASSUME Init PROVE IInv
  OBVIOUS
<1>1. MaxEdits \in Nat
  BY PolicyPageAssumption
<1>2. 0 \in 0..MaxEdits
  BY <1>1
<1>3. \A p \in Policies : [of |-> p, v |-> 0] \in Text
  BY <1>2 DEF Text
<1>4. text \in [Policies -> Text] /\ TextStaysHome
  BY <1>3 DEF Init, TextStaysHome
<1>5. /\ status \in [Policies -> {"draft", "published", "none"}] /\ deleted \in SUBSET Policies
      /\ history \in [Policies -> Seq(Nat)]
  BY DEF Init
<1>6. PageOK
  BY DEF Init, PageOK, ShownOK, ViewOK
<1>7. CallsOK(calls) /\ ViewOwns(view, calls)
  BY DEF Init, CallsOK, ViewOwns
<1>8. edits \in 0..MaxEdits /\ turns \in Nat
  BY <1>2 DEF Init
<1>9. QED
  BY <1>4, <1>5, <1>6, <1>7, <1>8 DEF IInv, ServerOK

\* It holds when nothing changes.
LEMMA StutterInv == IInv /\ UNCHANGED vars => IInv'
BY DEF IInv, vars, server, counters, ServerOK, TextStaysHome, PageOK, CallsOK,
       ViewOwns

\* It is inductive.
LEMMA NextInv == IInv /\ [Next]_vars => IInv'
<1> SUFFICES ASSUME IInv, [Next]_vars PROVE IInv'
  OBVIOUS
<1>1. ASSUME NEW c \in calls, Serve(c) \/ Lose(c) \/ Resume(c)
      PROVE  IInv'
  BY <1>1, ServeInv, LoseInv, ResumeInv
<1>2. ASSUME NEW c \in calls, AgentStarts(c) \/ AgentUpdates(c) \/ AgentEnds(c)
      PROVE  IInv'
  BY <1>2, AgentStartsInv, AgentUpdatesInv, AgentEndsInv
<1>3. ASSUME NEW p \in Policies, Open(p) \/ SuggestClicked(p)
      PROVE  IInv'
  BY <1>3, OpenInv, SuggestInv
<1>4. CASE Leave \/ Reload \/ Edit
  BY <1>4, LeaveInv, ReloadInv, EditInv
<1>5. CASE SaveClicked \/ PublishClicked \/ DeleteClicked \/ ForkClicked \/ AgentSend
  BY <1>5, ClickInv, AgentSendInv
<1>6. CASE UNCHANGED vars
  BY <1>6, StutterInv
<1>7. QED
  BY <1>1, <1>2, <1>3, <1>4, <1>5, <1>6 DEF Next

\* The invariant: whatever overtakes what, every text in the page and in its
\* calls belongs to the policy it is kept beside.
THEOREM Invariance == Spec => []IInv
<1>1. QED
  BY InitInv, NextInv, PTL DEF Spec

\* The types of the page's state and of the server's.
THEOREM TypeCorrect == Spec => []TypeOK
<1>1. IInv => TypeOK
  <2> SUFFICES ASSUME IInv PROVE TypeOK
    OBVIOUS
  <2>1. view # None => /\ view.kind \in {"draft", "published"}
                       /\ view.policy \in Policies /\ view.text \in Text
                       /\ view.history \in Seq(Nat)
    BY PageFacts DEF ViewOK, ViewSet
  <2>2. shown \in Snapshot \cup {None}
    BY PageFacts DEF ShownOK
  <2>3. metadata = None \/ metadata \in [of: Policies, history: Seq(Nat)]
    BY PageFacts DEF Metadata
  <2>4. {loading, failed} \subseteq BOOLEAN /\ {url, message} \subseteq Policies \cup {None}
    BY DEF IInv, PageOK
  <2>5. QED
    BY <2>1, <2>2, <2>3, <2>4 DEF IInv, ServerOK, TypeOK
<1>2. QED
  BY <1>1, Invariance, PTL

\* What is stored for a policy was written for it, for any number of policies,
\* clicks, lost calls and turns of the agent.
THEOREM TextStaysHomeHolds == Spec => []TextStaysHome
<1>1. IInv => TextStaysHome
  BY DEF IInv, ServerOK
<1>2. QED
  BY <1>1, Invariance, PTL

\* The second invariant is inductive, with the first.
LEMMA NextSound == IInv /\ Sound /\ [Next]_vars => Sound'
<1> SUFFICES ASSUME IInv, Sound, [Next]_vars PROVE Sound'
  OBVIOUS
<1>1. ASSUME NEW c \in calls, Serve(c) \/ Lose(c) \/ Resume(c)
      PROVE  Sound'
  BY <1>1, ServeSound, ResumeSound
<1>2. ASSUME NEW c \in calls, AgentStarts(c) \/ AgentUpdates(c) \/ AgentEnds(c)
      PROVE  Sound'
  BY <1>2, AgentStartsSound, AgentUpdatesSound, AgentEndsSound
<1>3. ASSUME NEW p \in Policies, Open(p) \/ SuggestClicked(p)
      PROVE  Sound'
  BY <1>3, MovedSound, SuggestSound
<1>4. CASE Leave \/ Reload \/ Edit
  BY <1>4, MovedSound, EditSound
<1>5. CASE SaveClicked \/ PublishClicked \/ DeleteClicked \/ ForkClicked \/ AgentSend
  BY <1>5, ClickSound, AgentSendSound
<1>6. CASE UNCHANGED vars
  BY <1>6 DEF vars, server, Sound
<1>7. QED
  BY <1>1, <1>2, <1>3, <1>4, <1>5, <1>6 DEF Next

\* It holds at first.
LEMMA InitSound == Init => Sound
<1> SUFFICES ASSUME Init PROVE Sound
  OBVIOUS
<1>1. calls = {} /\ message = None /\ sends = <<>>
  BY DEF Init
<1>2. Sole(calls) /\ VouchOK(status, text, calls) /\ Waiting(status, calls, message, sends)
  BY <1>1 DEF Sole, VouchOK, Waiting
<1>3. TalkOK(view, calls, sends)
  BY <1>1 DEF TalkOK
<1>4. SentOK(status, sends)
  <2>1. sends \in Seq(SendSet) /\ DOMAIN sends = {}
    BY <1>1
  <2>2. QED
    BY <2>1 DEF SentOK
<1>5. QED
  BY <1>2, <1>3, <1>4 DEF Sound, Clean

\* The second invariant: a suggestion's message waits, has been sent or has not
\* been made; the view's conversation is the one it knows of; a publication under
\* way vouches for what is stored.
THEOREM SoundInvariance == Spec => []Sound
<1>1. Init /\ IInv => Sound
  BY InitSound
<1>2. QED
  BY <1>1, NextSound, Invariance, PTL DEF Spec

\* A suggestion is sent to the agent at most once, whatever is reloaded, left or lost
\* on the way: its message leaves the router's state when it begins to wait, and
\* waits once.
THEOREM SuggestionSentOnceHolds == Spec => []SuggestionSentOnce
<1>1. Sound => SuggestionSentOnce
  BY DEF Sound, Clean, SentOK, SuggestionSentOnce
<1>2. QED
  BY <1>1, SoundInvariance, PTL

\* What a policy's status is changed by leaves its text, unless the policy is new.
LEMMA StatusStep ==
    ASSUME IInv, Next
    PROVE  \A p \in Policies : \/ status'[p] = status[p] \/ status[p] = "none"
                               \/ text'[p] = text[p]
<1>1. CASE status' = status \/ text' = text
  BY <1>1
<1>2. ASSUME NEW c \in calls, Serve(c), ~(status' = status \/ text' = text)
      PROVE  \A p \in Policies : status[p] = "none" \/ text'[p] = text[p]
  <2>1. Fork(c)
    BY <1>2 DEF Serve, Read, Save, Publish, Delete, Create, server
  <2>2. PICK q \in Policies : \E t : status[q] = "none" /\ text' = [text EXCEPT ![q] = t]
    BY <1>2, <2>1 DEF Fork, server
  <2>3. text \in [Policies -> Text]
    BY DEF IInv, ServerOK
  <2>4. QED
    BY <2>2, <2>3
<1>3. ASSUME NEW c \in calls,
             Lose(c) \/ Resume(c) \/ AgentStarts(c) \/ AgentUpdates(c) \/ AgentEnds(c)
      PROVE  status' = status
  BY <1>3 DEF Lose, Resume, AgentStarts, AgentUpdates, AgentEnds, server
<1>4. ASSUME NEW p \in Policies, Open(p) \/ SuggestClicked(p)
      PROVE  status' = status
  BY <1>4 DEF Open, SuggestClicked, server
<1>5. CASE Leave \/ Reload \/ Edit \/ AgentSend
  BY <1>5 DEF Leave, Reload, Edit, AgentSend, server
<1>6. CASE SaveClicked \/ PublishClicked \/ DeleteClicked \/ ForkClicked
  BY <1>6 DEF SaveClicked, PublishClicked, DeleteClicked, ForkClicked, Handle, server
<1>7. QED
  BY <1>1, <1>2, <1>3, <1>4, <1>5, <1>6 DEF Next

\* What is published is what was on the screen when Publish was confirmed, unless
\* something else was saved since.
THEOREM PublishedIsReviewedHolds == Spec => PublishedIsReviewed
<1>1. ASSUME IInv, Sound, [Next]_vars
      PROVE  [\A c \in calls \ calls' :
                 c.kind = "confirm" /\ status[c.policy] # status'[c.policy] =>
                     c.text \in {None, text'[c.policy]}]_vars
  <2>1. CASE UNCHANGED vars
    BY <2>1
  <2>2. CASE Next
    <3>1. SUFFICES ASSUME NEW c \in calls, c.kind = "confirm",
                          status[c.policy] # status'[c.policy]
                   PROVE  c.text \in {None, text'[c.policy]}
      OBVIOUS
    <3>2. c.policy \in Policies
      BY <1>1, CallFacts
    <3>3. status[c.policy] # "none" /\ c.text \in {None, text[c.policy]}
      BY <1>1, <3>1 DEF Sound, Clean, VouchOK, Vouching
    <3>4. text'[c.policy] = text[c.policy]
      BY <1>1, <2>2, <3>1, <3>2, <3>3, StatusStep
    <3>5. QED
      BY <3>3, <3>4
  <2>3. QED
    BY <1>1, <2>1, <2>2
<1>2. QED
  BY <1>1, Invariance, SoundInvariance, PTL DEF Spec, PublishedIsReviewed

\* The end of a turn that was asked for with the view's history keeps the turns that
\* the view shows.
THEOREM TurnsKeptHolds == Spec => TurnsKept
<1>1. ASSUME IInv, Sound, [Next]_vars
      PROVE  [\A c \in calls :
                 /\ c.owner = "view" /\ ~view.crossed /\ AgentEnds(c)
                 /\ \A i \in DOMAIN sends : sends[i].turn # c.turn
                 => \A i \in DOMAIN view.history :
                        \E j \in DOMAIN history'[c.policy] :
                            history'[c.policy][j] = view.history[i]]_vars
  <2>1. SUFFICES ASSUME NEW c \in calls, c.owner = "view", ~view.crossed,
                        AgentEnds(c),
                        \A i \in DOMAIN sends : sends[i].turn # c.turn,
                        NEW i \in DOMAIN view.history
                 PROVE  \E j \in DOMAIN history'[c.policy] :
                            history'[c.policy][j] = view.history[i]
    OBVIOUS
  <2>2. /\ c.kind = "turn" /\ c.policy \in Policies /\ c.history \in Seq(Nat)
        /\ c.turn \in Nat /\ history \in [Policies -> Seq(Nat)]
    BY <1>1, <2>1, CallFacts DEF AgentEnds, IInv, ServerOK
  <2>3. Kept(view, c, sends)
    BY <1>1, <2>1, <2>2 DEF Sound, TalkOK, Talk
  <2>4. PICK j \in DOMAIN c.history : c.history[j] = view.history[i]
    BY <2>1, <2>3 DEF Kept
  <2>5. history'[c.policy] = Append(c.history, c.turn)
    BY <2>1, <2>2 DEF AgentEnds
  <2>6. /\ j \in DOMAIN Append(c.history, c.turn)
        /\ Append(c.history, c.turn)[j] = c.history[j]
    BY <2>2
  <2>7. QED
    BY <2>4, <2>5, <2>6
<1>2. QED
  BY <1>1, Invariance, SoundInvariance, PTL DEF Spec, TurnsKept

=============================================================================
