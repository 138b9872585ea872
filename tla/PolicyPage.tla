---------------------------- MODULE PolicyPage ----------------------------
(***************************************************************************)
(* The page of one policy in the web UI (components/PolicyDetail.tsx): it   *)
(* loads the policy and, for a draft, its metadata; DraftEditor edits,      *)
(* saves, publishes and deletes the draft and talks to the agent;           *)
(* PublishedView forks and deletes.                                        *)
(*                                                                         *)
(* A call is sent in one step, served in another and its answer used in a   *)
(* third, so answers overtake each other.  A handler's continuation runs    *)
(* even when its component is gone: setState then does nothing, but further *)
(* calls and navigation happen.  A policy's name, prompt and rules are one  *)
(* text, known by the edit that made it and the policy it was made for.     *)
(* What the editor says about errors is left out.                          *)
(***************************************************************************)
EXTENDS Naturals, Sequences

CONSTANTS
    Policies,
    None,
    MaxClicks,  \* what the user does
    MaxEdits,   \* texts written by the user and the agent
    MaxTurns,   \* messages to the agent
    MaxFaults   \* calls or answers lost

ASSUME PolicyPageAssumption ==
    /\ None \notin Policies
    /\ None # [id |-> None, status |-> "failed", text |-> None]
    /\ {MaxClicks, MaxEdits, MaxTurns, MaxFaults} \subseteq Nat

VARIABLES
    status, deleted, text, history, \* the server: llm_policies
    url,       \* the policy in the URL; None: another page
    message,   \* the policy of the agent message in location.state, or None
    shown,     \* PolicyDetail: policy
    metadata,  \*               metadata
    loading,   \*               loading
    failed,    \*               error
    view,      \* the mounted DraftEditor or PublishedView
    calls,     \* calls in flight, and continuations about to run
    edits, turns, clicks, faults,
    sends      \* history: the messages sent without a click

server == <<status, deleted, text, history>>
counters == <<edits, clicks, faults>>
vars == <<server, url, message, shown, metadata, loading, failed, view, calls,
          turns, counters, sends>>

Text == [of: Policies, v: 0..MaxEdits]

Copy(p) == [id |-> p, status |-> status[p], text |-> text[p]]

Failure == [id |-> None, status |-> "failed", text |-> None]

\* A call, what it carries, and its answer once it is served.  `owner` is what
\* is left of its sender: the view, the page, the script, or nothing.
Call(kind, p, owner, t, h, n) ==
    [kind |-> kind, policy |-> p, owner |-> owner, text |-> t, history |-> h,
     turn |-> n, reply |-> None]

-----------------------------------------------------------------------------
\* What is mounted.

Kind(sh, ld, fl) ==
    IF ld \/ fl \/ sh = None THEN "none"
    ELSE IF sh.status = "draft" THEN "draft" ELSE "published"

\* A view's `busy` holds its handlers that are not done: saving, publishing,
\* deleting, forking, agentRunning.  `from` is the policy of its metadata.
\* `crossed` is there for TurnsKept only: a message went out while agentRunning.
Fresh(sh, md) ==
    [kind |-> Kind(sh, FALSE, FALSE), policy |-> sh.id, text |-> sh.text,
     history |-> IF md = None THEN <<>> ELSE md.history,
     from |-> IF md = None THEN None ELSE md.of,
     busy |-> {}, crossed |-> FALSE]

\* A mutation: DraftEditor without its key.
KeepsAnyDraft(w, sh) == w.kind = Kind(sh, FALSE, FALSE)

\* React keeps a component of the same type and, for an editor, the same
\* key={policy.id}.
Keeps(w, sh) ==
    /\ w.kind = Kind(sh, FALSE, FALSE)
    /\ w.kind = "draft" => w.policy = sh.id

Orphans(cs) ==
    {[c EXCEPT !.owner = IF @ = "view" THEN "page" ELSE @] : c \in cs}

\* A message about the suggested policy m waits for its timeout.
Deferred(p, m) == [Call("deferred", p, "view", None, <<>>, 0) EXCEPT !.reply = m]

\* A mutation: the message stays in the router's state.
AutoSendKeepsState(w, m, cs) ==
    /\ message' = m /\ view' = w
    /\ calls' = cs \cup {Deferred(w.policy, m)}

\* The message of the router's state is to be sent when an editor is mounted; the
\* state is cleared before.
AutoSend(w, m, cs) ==
    /\ message' = None /\ view' = w
    /\ calls' = cs \cup {Deferred(w.policy, m)}

\* The component's state becomes sh, md, ld, fl; w is the view before and cs
\* the calls that are left.
Render(sh, md, ld, fl, w, m, cs) ==
    /\ shown' = sh /\ metadata' = md /\ loading' = ld /\ failed' = fl
    /\ UNCHANGED <<turns, sends>>
    /\ IF Kind(sh, ld, fl) # "none" /\ w # None /\ Keeps(w, sh)
       THEN /\ view' = [w EXCEPT !.policy = sh.id]
            /\ message' = m /\ calls' = cs
       ELSE IF Kind(sh, ld, fl) = "draft" /\ m # None
       THEN AutoSend(Fresh(sh, md), m, Orphans(cs))
       ELSE /\ view' = IF Kind(sh, ld, fl) = "none" THEN None ELSE Fresh(sh, md)
            /\ message' = m /\ calls' = Orphans(cs)

\* The page is left: its loads are of no use, its other continuations remain.
Left(cs) ==
    {[c EXCEPT !.owner = IF @ = "nobody" THEN @ ELSE "script"] :
        c \in {c \in cs : c.kind \notin {"policy", "metadata"}}}

\* The browser loads the application anew: no continuation and no timeout runs, and
\* of handlePublish's calls the second will not be sent.
Unscripted(cs) ==
    {[c EXCEPT !.owner = "nobody", !.kind = IF @ = "publish" THEN "save" ELSE @] :
        c \in {c \in Left(cs) : c.kind # "deferred"}}

Mount(p, m, cs) ==
    /\ url' = p
    /\ Render(None, None, TRUE, FALSE, None, m,
              cs \cup {Call("policy", p, "page", None, <<>>, 0)})

Unmount(cs) ==
    /\ url' = None
    /\ Render(None, None, TRUE, FALSE, None, None, Left(cs))

\* Another policy's URL keeps the PolicyDetail that is there, and only loads.
Go(p, m, cs) ==
    IF url = None THEN Mount(p, m, cs)
    ELSE /\ url' = p
         /\ IF p = url THEN Render(shown, metadata, loading, failed, view, m, cs)
            ELSE Render(shown, metadata, TRUE, failed, view, m,
                        cs \cup {Call("policy", p, "page", None, <<>>, 0)})

-----------------------------------------------------------------------------
\* The server.

\* The answer r to c joins the calls.  After another text has been written for
\* a policy, a publication under way no longer vouches for what it publishes.
Answer(c, r) == calls' = (calls \ {c}) \cup {[c EXCEPT !.reply = r]}

Publishing(c) == c.kind = "confirm" \/ (c.kind = "publish" /\ c.reply # None)

Write(c, r) ==
    /\ text' = [text EXCEPT ![c.policy] = c.text]
    /\ calls' = {[d EXCEPT !.text = IF /\ Publishing(d)
                                       /\ d.policy = c.policy /\ d # c
                                       /\ @ # c.text
                                    THEN None ELSE @] : d \in calls \ {c}}
                   \cup {[c EXCEPT !.reply = r]}

uiVars == <<url, message, shown, metadata, loading, failed, view, turns, sends>>

\* Get and GetMetadata of the store also find what is deleted.
Read(c) ==
    /\ c.kind \in {"policy", "metadata"}
    /\ Answer(c, IF status[c.policy] = "none" THEN Failure
                 ELSE IF c.kind = "policy" THEN Copy(c.policy)
                 ELSE [of |-> c.policy, history |-> history[c.policy]])
    /\ UNCHANGED server

Editable(p) == status[p] = "draft" /\ p \notin deleted

\* updateDraftPolicy, alone or as the first call of handlePublish.
Save(c) ==
    /\ c.kind \in {"save", "publish"}
    /\ IF Editable(c.policy)
       THEN /\ Write(c, [Copy(c.policy) EXCEPT !.text = c.text])
            /\ UNCHANGED <<status, deleted, history>>
       ELSE Answer(c, Failure) /\ UNCHANGED server

Publish(c) ==
    /\ c.kind = "confirm"
    /\ IF Editable(c.policy)
       THEN /\ status' = [status EXCEPT ![c.policy] = "published"]
            /\ Answer(c, [Copy(c.policy) EXCEPT !.status = "published"])
            /\ UNCHANGED <<deleted, text, history>>
       ELSE Answer(c, Failure) /\ UNCHANGED server

\* The server refuses to delete a policy that is assigned to users.
Delete(c) ==
    /\ c.kind = "delete"
    /\ \/ /\ status[c.policy] # "none" /\ c.policy \notin deleted
          /\ deleted' = deleted \cup {c.policy}
          /\ Answer(c, Copy(c.policy))
          /\ UNCHANGED <<status, text, history>>
       \/ /\ ~Editable(c.policy)
          /\ Answer(c, Failure) /\ UNCHANGED server

\* What is deleted can still be forked.
Fork(c) ==
    /\ c.kind = "fork"
    /\ IF status[c.policy] # "none"
       THEN \E q \in Policies :
                /\ status[q] = "none"
                /\ status' = [status EXCEPT ![q] = "draft"]
                /\ text' = [text EXCEPT ![q] = [of |-> q, v |-> text[c.policy].v]]
                /\ Answer(c, [id |-> q, status |-> "draft",
                              text |-> [of |-> q, v |-> text[c.policy].v]])
                /\ UNCHANGED <<deleted, history>>
       ELSE Answer(c, Failure) /\ UNCHANGED server

\* createPolicy, for a suggestion.
Create(c) ==
    /\ c.kind = "create"
    /\ IF status[c.policy] = "none"
       THEN /\ status' = [status EXCEPT ![c.policy] = "draft"]
            /\ Answer(c, [Copy(c.policy) EXCEPT !.status = "draft"])
            /\ UNCHANGED <<deleted, text, history>>
       ELSE Answer(c, Failure) /\ UNCHANGED server

\* The agent's turn: it starts on a draft, also a deleted one, may change the text,
\* which the stream shows at once, and is kept when it ends.
AgentStarts(c) ==
    /\ c.kind = "agent" /\ c.reply = None
    /\ IF status[c.policy] = "draft"
       THEN calls' = (calls \ {c}) \cup {[c EXCEPT !.kind = "turn"]}
       ELSE Answer(c, Failure)
    /\ UNCHANGED <<server, uiVars, counters>>

\* handleAgentEvent, 'policy_updated' and 'name_updated'.
AgentUpdates(c) ==
    /\ c.kind = "turn" /\ c.reply = None
    /\ edits < MaxEdits
    /\ edits' = edits + 1
    /\ LET t == [of |-> c.policy, v |-> edits + 1] IN
           /\ calls' = (calls \ {c}) \cup {[c EXCEPT !.text = t]}
           /\ view' = IF c.owner = "view" THEN [view EXCEPT !.text = t] ELSE view
    /\ UNCHANGED <<server, url, message, shown, metadata, loading, failed, turns,
                   clicks, faults, sends>>

AgentEnds(c) ==
    /\ c.kind = "turn" /\ c.reply = None
    /\ LET r == [id |-> c.policy, status |-> "result", text |-> None]
       IN  IF c.text # None /\ Editable(c.policy) THEN Write(c, r)
           ELSE Answer(c, r) /\ UNCHANGED text
    /\ history' = [history EXCEPT ![c.policy] = Append(c.history, c.turn)]
    /\ UNCHANGED <<status, deleted, uiVars, counters>>

Serve(c) ==
    /\ c.reply = None
    /\ Read(c) \/ Save(c) \/ Publish(c) \/ Delete(c) \/ Fork(c) \/ Create(c)
    /\ UNCHANGED <<uiVars, counters>>

\* The call is lost before it is served, or its answer after.
Lose(c) ==
    /\ faults < MaxFaults
    /\ faults' = faults + 1
    /\ c.kind # "deferred" /\ c.reply # Failure
    /\ Answer(c, Failure)
    /\ UNCHANGED <<server, uiVars, edits, clicks>>

-----------------------------------------------------------------------------
\* The continuations.

\* Run by the browser on the answer of c, with the rest of the calls.
Continue(c, sh, md, ld, fl, w) ==
    /\ UNCHANGED url
    /\ Render(sh, md, ld, fl, w, message, calls \ {c})

Idle(c, done) ==
    IF c.owner = "view" /\ view # None THEN [view EXCEPT !.busy = @ \ {done}]
    ELSE view

Loaded(c) ==
    /\ c.kind = "policy"
    /\ IF c.reply = Failure
       THEN Continue(c, shown, metadata, FALSE, TRUE, view)
       ELSE IF c.reply.status = "draft"
       THEN /\ UNCHANGED url
            /\ Render(c.reply, metadata, loading, failed, view, message,
                      (calls \ {c}) \cup
                          {Call("metadata", c.policy, "page", None, <<>>, 0)})
       ELSE Continue(c, c.reply, metadata, FALSE, failed, view)

\* A failure is swallowed.
MetadataLoaded(c) ==
    /\ c.kind = "metadata"
    /\ Continue(c, shown, IF c.reply = Failure THEN metadata ELSE c.reply, FALSE,
                failed, view)

\* onSaved and onPublished are PolicyDetail's setPolicy.
Saved(c) ==
    /\ c.kind \in {"save", "confirm"}
    /\ Continue(c, IF c.reply # Failure /\ c.owner \in {"view", "page"}
                   THEN c.reply ELSE shown,
                metadata, loading, failed,
                Idle(c, IF c.kind = "save" THEN "save" ELSE "publish"))

\* handlePublish after its first call.
DraftSaved(c) ==
    /\ c.kind = "publish"
    /\ IF c.reply = Failure
       THEN Continue(c, shown, metadata, loading, failed, Idle(c, "publish"))
       ELSE /\ calls' = (calls \ {c}) \cup
                            {[c EXCEPT !.kind = "confirm", !.reply = None]}
            /\ UNCHANGED uiVars

\* onDeleted navigates, wherever the user has gone meanwhile.
Deleted(c) ==
    /\ c.kind = "delete"
    /\ IF c.reply = Failure \/ c.owner = "nobody"
       THEN Continue(c, shown, metadata, loading, failed, Idle(c, "delete"))
       ELSE Unmount(calls \ {c})

Forked(c) ==
    /\ c.kind = "fork"
    /\ IF c.reply = Failure \/ c.owner = "nobody"
       THEN Continue(c, shown, metadata, loading, failed, Idle(c, "fork"))
       ELSE Go(c.reply.id, None, calls \ {c})

\* handleSuggestPolicy goes to the new draft, or to the list if there is none,
\* wherever the user has gone meanwhile.
Suggested(c) ==
    /\ c.kind = "create"
    /\ IF c.owner = "nobody" THEN Continue(c, shown, metadata, loading, failed, view)
       ELSE IF c.reply = Failure THEN Unmount(calls \ {c})
       ELSE Go(c.policy, c.policy, calls \ {c})

\* The timeout: the message goes out without a history and without a look at
\* agentRunning, also when the editor has gone.
AutoSent(c) ==
    /\ c.kind = "deferred"
    /\ turns < MaxTurns
    /\ turns' = turns + 1
    /\ sends' = Append(sends, [of |-> c.reply, to |-> c.policy, turn |-> turns + 1])
    /\ view' = IF c.owner = "view"
               THEN [view EXCEPT !.busy = @ \cup {"agent"},
                                 !.crossed = @ \/ "agent" \in view.busy]
               ELSE view
    /\ calls' = (calls \ {c}) \cup {Call("agent", c.policy, c.owner, None, <<>>, turns + 1)}
    /\ UNCHANGED <<url, message, shown, metadata, loading, failed>>

\* The stream of the agent ends; the turn joins the history if 'result' came.
AgentDone(c) ==
    /\ c.kind \in {"agent", "turn"}
    /\ LET w == Idle(c, "agent")
       IN  Continue(c, shown, metadata, loading, failed,
                    IF c.owner = "view" /\ c.reply # Failure
                    THEN [w EXCEPT !.history = Append(@, c.turn)] ELSE w)

Resume(c) ==
    /\ c.reply # None
    /\ Loaded(c) \/ MetadataLoaded(c) \/ Saved(c) \/ DraftSaved(c) \/ Deleted(c)
           \/ Forked(c) \/ Suggested(c) \/ AutoSent(c) \/ AgentDone(c)
    /\ UNCHANGED <<server, counters>>

-----------------------------------------------------------------------------
\* The user.

Click == clicks < MaxClicks /\ clicks' = clicks + 1

Open(p) ==
    /\ Click
    /\ p # url
    /\ Go(p, None, calls)
    /\ UNCHANGED <<server, edits, faults>>

\* "Suggest Policy" on a user's page; p is the id that the draft will have.
SuggestClicked(p) ==
    /\ Click
    /\ url = None /\ status[p] = "none"
    /\ calls' = calls \cup {Call("create", p, "script", None, <<>>, 0)}
    /\ UNCHANGED <<server, uiVars, edits, faults>>

Leave ==
    /\ Click
    /\ url # None
    /\ Unmount(calls)
    /\ UNCHANGED <<server, edits, faults>>

Reload ==
    /\ Click
    /\ url # None
    /\ Mount(url, message, Unscripted(calls))
    /\ UNCHANGED <<server, edits, faults>>

Edit ==
    /\ view # None /\ view.kind = "draft"
    /\ edits < MaxEdits
    /\ edits' = edits + 1
    /\ view' = [view EXCEPT !.text = [of |-> view.policy, v |-> edits + 1]]
    /\ UNCHANGED <<server, url, message, shown, metadata, loading, failed, calls,
                   turns, clicks, faults, sends>>

\* A button that is not disabled: its handler starts and sends its first call.
Handle(kind, flag, t) ==
    /\ Click
    /\ view' = [view EXCEPT !.busy = @ \cup flag]
    /\ calls' = calls \cup {Call(kind, view.policy, "view", t, <<>>, 0)}
    /\ UNCHANGED <<server, url, message, shown, metadata, loading, failed, turns,
                   edits, faults, sends>>

SaveClicked ==
    /\ view # None /\ view.kind = "draft" /\ "save" \notin view.busy
    /\ Handle("save", {"save"}, view.text)

\* A mutation: handlePublish publishes what was saved last.
PublishClickedUnsaved ==
    /\ view # None /\ view.kind = "draft" /\ view.busy \cap {"save", "publish"} = {}
    /\ Handle("confirm", {"publish"}, view.text)

PublishClicked ==
    /\ view # None /\ view.kind = "draft" /\ view.busy \cap {"save", "publish"} = {}
    /\ Handle("publish", {"publish"}, view.text)

\* Only DraftEditor disables its button.  Two calls from one view that have not been
\* served are one: the second would only be refused.
DeleteClicked ==
    /\ view # None
    /\ \/ view.kind = "draft" /\ "delete" \notin view.busy
          /\ Handle("delete", {"delete"}, None)
       \/ view.kind = "published" /\ Handle("delete", {}, None)

ForkClicked ==
    /\ view # None /\ view.kind = "published" /\ "fork" \notin view.busy
    /\ Handle("fork", {"fork"}, None)

\* A mutation: handleAgentSend does not look at agentRunning.
AgentSendAnytime ==
    /\ view # None /\ view.kind = "draft"
    /\ turns < MaxTurns
    /\ turns' = turns + 1
    /\ view' = [view EXCEPT !.busy = @ \cup {"agent"}]
    /\ calls' = calls \cup {Call("agent", view.policy, "view", None, view.history,
                                 turns + 1)}
    /\ UNCHANGED <<server, url, message, shown, metadata, loading, failed,
                   counters, sends>>

AgentSend ==
    /\ view # None /\ view.kind = "draft" /\ "agent" \notin view.busy
    /\ turns < MaxTurns
    /\ turns' = turns + 1
    /\ view' = [view EXCEPT !.busy = @ \cup {"agent"}]
    /\ calls' = calls \cup {Call("agent", view.policy, "view", None, view.history,
                                 turns + 1)}
    /\ UNCHANGED <<server, url, message, shown, metadata, loading, failed,
                   counters, sends>>

Init ==
    /\ status \in [Policies -> {"draft", "published", "none"}] /\ deleted = {}
    /\ text = [p \in Policies |-> [of |-> p, v |-> 0]]
    /\ history = [p \in Policies |-> <<>>]
    /\ url = None /\ message = None /\ shown = None /\ metadata = None
    /\ loading = TRUE /\ failed = FALSE /\ view = None /\ calls = {}
    /\ edits = 0 /\ turns = 0 /\ clicks = 0 /\ faults = 0
    /\ sends = <<>>

Next ==
    \/ \E c \in calls :
           \/ Serve(c) \/ Lose(c) \/ Resume(c)
           \/ AgentStarts(c) \/ AgentUpdates(c) \/ AgentEnds(c)
    \/ \E p \in Policies : Open(p) \/ SuggestClicked(p)
    \/ Leave \/ Reload \/ Edit
    \/ SaveClicked \/ PublishClicked \/ DeleteClicked \/ ForkClicked \/ AgentSend

Spec == Init /\ [][Next]_vars

-----------------------------------------------------------------------------
Snapshot == [id: Policies, status: {"draft", "published"}, text: Text]

TypeOK ==
    /\ status \in [Policies -> {"draft", "published", "none"}]
    /\ deleted \subseteq Policies
    /\ text \in [Policies -> Text]
    /\ history \in [Policies -> Seq(Nat)]
    /\ {url, message} \subseteq Policies \cup {None}
    /\ shown \in Snapshot \cup {None}
    /\ {loading, failed} \subseteq BOOLEAN
    /\ metadata = None \/ metadata \in [of: Policies, history: Seq(Nat)]
    /\ view # None => /\ view.kind \in {"draft", "published"}
                      /\ view.policy \in Policies /\ view.text \in Text
                      /\ view.history \in Seq(Nat)

\* What is stored for a policy was written for it: a text from the editor of one
\* policy never reaches another, whatever loads and saves overtake each other
\* while the user moves between policies (PolicyDetail.tsx:975-988, 1002).
TextStaysHome == \A p \in Policies : text[p].of = p

\* What becomes immutable is what was on the screen when Publish was confirmed,
\* unless another save or the agent has written since (PolicyDetail.tsx:239-251).
PublishedIsReviewed ==
    [][\A c \in calls \ calls' :
           c.kind = "confirm" /\ status[c.policy] # status'[c.policy] =>
               c.text \in {None, text'[c.policy]}]_vars

\* The end of a turn keeps every turn its editor shows: the server replaces the
\* whole conversation by the history that came with the message
\* (PolicyDetail.tsx:314-335, internal/admin/api.go:750).  A suggestion is sent
\* without a history, and excepted; so is an editor whose user had sent a message
\* before the suggestion's timeout.
TurnsKept ==
    [][\A c \in calls :
           /\ c.owner = "view" /\ ~view.crossed /\ AgentEnds(c)
           /\ \A i \in DOMAIN sends : sends[i].turn # c.turn
           => \A i \in DOMAIN view.history :
                  \E j \in DOMAIN history'[c.policy] :
                      history'[c.policy][j] = view.history[i]]_vars

\* A suggestion made on a user's page is sent to the agent at most once, also
\* when the page is loaded again (PolicyDetail.tsx:203-204).
SuggestionSentOnce ==
    \A i, j \in DOMAIN sends : sends[i].of = sends[j].of => i = j

\* "Suggest Policy" has the agent build the draft that was made for it, and no
\* other (PolicyDetail.tsx:198, UserDetailPage.tsx:60).
SuggestionReachesItsDraft ==
    \A i \in DOMAIN sends : sends[i].to = sends[i].of

\* "Load metadata in series so the editor mounts only after both are ready"
\* (PolicyDetail.tsx:981): an editor starts from the metadata of its policy.
EditorStartsReady ==
    view # None /\ view.kind = "draft" => view.from = view.policy
=============================================================================
