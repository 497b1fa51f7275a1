----------------------------- MODULE Dashboard -----------------------------
(***************************************************************************)
(* The dashboard's settings pages in the tabs of one tenant's browsers,    *)
(* and the gateway behind them.  A page is a list that is loaded when it   *)
(* opens; its handlers are sequences of apiFetch calls, each of which      *)
(* changes a row or loads the list again, and what a handler does to the   *)
(* list on the screen happens when an answer arrives.  Handlers of a tab   *)
(* overlap wherever no disabled button or hidden row prevents it.          *)
(***************************************************************************)
EXTENDS RateLimit, TLC

CONSTANTS Tabs, Budgets

VARIABLES
    stored,    \* the rows in Postgres: none, on or off
    fresh,     \* rows whose ids are not taken yet
    shown,     \* per tab: the rows on the screen
    loading,   \* per tab: the page shows "Loading" instead of its rows
    ops,       \* per tab: the handlers in flight
    modal,     \* per tab: BulkImportModal's importing and progress
    recovery,  \* per tab: authRecoveryStarted, and whether a redirect failed
    changes,   \* history: the tabs whose requests changed a row, in order
    base,      \* history, per tab: the changes its last load has seen
    raced,     \* history, per tab: handlers overlapped that do not commute
    lost,      \* history, per tab: it does not know what a call read or did
    budget, used

pageVars == <<shown, loading, ops, modal, recovery>>
history == <<changes, base, raced, lost>>
vars == <<stored, fresh, pageVars, history, used, budget, limitVars>>

Bounds == {"clicks", "faults", "ticks"}
Active == DOMAIN budget.page
Page(t) == budget.page[t]

Values == {"none", "on", "off"}
Rows == {"r1", "r2", "m1", "i1", "pref", "org", "saml", "oidc"}
RowsOf(page) == CASE page \in {"rules", "webhooks", "keys"} -> {"r1", "r2"}
                  [] page = "team" -> {"m1", "i1"}
                  [] page = "settings" -> {"pref"}
                  [] page = "sso" -> {"org", "saml", "oidc"}
                  [] OTHER -> {}

\* The requests of one load: TeamPage and SettingsPage await two together.
TeamParts == {{"m1"}, {"i1"}}
SettingsParts == {{}, {"pref"}}
Parts(page) == CASE page = "team" -> TeamParts
                 [] page = "settings" -> SettingsParts
                 [] OTHER -> {RowsOf(page)}

\* A call: what is asked of the gateway, and what the handler then does to the
\* list ("flip" and "set" the row, "filter" it out, take the "row" answered).
Call(verb, row, val, then) == [verb |-> verb, row |-> row, val |-> val, then |-> then]
Load == Call("load", "-", "none", "none")

Flip(v) == IF v = "on" THEN "off" ELSE "on"

-----------------------------------------------------------------------------
(* The handlers of the pages, as the calls they make.  A form's submit button *)
(* is disabled while its handler runs.                                        *)

Handler(calls, form) == [calls |-> calls, form |-> form]

\* The form offers a metric that the gateway does not know, "pressure".
METRICS == {"temperature", "pressure"}
CreateRule(r, metric) == Handler(<<Call("create", r, metric, "none"), Load>>, TRUE)
ToggleRule(t, r) == Handler(<<Call("set", r, Flip(shown[t][r]), "flip")>>, FALSE)
DeleteRule(r) == Handler(<<Call("delete", r, "none", "filter")>>, FALSE)

HandleCreate(r) == Handler(<<Call("create", r, "on", "none"), Load>>, TRUE)
HandleToggle(t, r) ==
    Handler(<<Call("set", r, Flip(shown[t][r]), "none"), Load>>, FALSE)
HandleDelete(r) == Handler(<<Call("delete", r, "none", "filter")>>, FALSE)

CreateKey(r) == Handler(<<Call("create", r, "on", "none"), Load>>, TRUE)

\* Variant: the list is not loaded again.
RevokeKeyOnly(r) == Handler(<<Call("revoke", r, "off", "none")>>, FALSE)

RevokeKey(r) == Handler(<<Call("revoke", r, "off", "none"), Load>>, FALSE)

SendInvite == Handler(<<Call("create", "i1", "on", "none"), Load>>, TRUE)
ChangeRole(t) == Handler(<<Call("set", "m1", Flip(shown[t]["m1"]), "set")>>, FALSE)
RemoveMember == Handler(<<Call("delete", "m1", "none", "filter")>>, FALSE)
RevokeInvite == Handler(<<Call("delete", "i1", "none", "filter")>>, FALSE)

\* handleSavePrefs, which shows the new value at once.
HandleSavePrefs(t) ==
    Handler(<<Call("set", "pref", Flip(shown[t]["pref"]), "row")>>, TRUE)

EnsureOrg(t) ==
    IF shown[t]["org"] = "none" THEN <<Call("create", "org", "on", "none"), Load>>
    ELSE <<>>
ConfigureSaml(t) ==
    Handler(EnsureOrg(t) \o <<Call("connect", "saml", "on", "none"), Load>>, TRUE)
ConfigureOidc(t) ==
    Handler(EnsureOrg(t) \o <<Call("connect", "oidc", "on", "none"), Load>>, TRUE)
DisableSSO == Handler(<<Call("disable", "-", "none", "none"), Load>>, FALSE)

HandleUpload == Handler(<<Call("import", "-", "none", "none")>>, FALSE)

\* What the page offers: forms at any time, the rest on the rows it shows.
Offered(t) ==
    LET there == {r \in RowsOf(Page(t)) : shown[t][r] # "none" /\ ~loading[t]}
        new == fresh \cap RowsOf(Page(t))
    IN CASE Page(t) = "rules" ->
              {CreateRule(r, m) : r \in new, m \in METRICS}
                  \cup {ToggleRule(t, r) : r \in there}
                  \cup {DeleteRule(r) : r \in there}
         [] Page(t) = "webhooks" ->
              {HandleCreate(r) : r \in new} \cup {HandleToggle(t, r) : r \in there}
                  \cup {HandleDelete(r) : r \in there}
         [] Page(t) = "keys" ->
              {CreateKey(r) : r \in new}
                  \cup {RevokeKey(r) : r \in {r \in there : shown[t][r] = "on"}}
         [] Page(t) = "team" ->
              {SendInvite : r \in new}
                  \cup {ChangeRole(t) : r \in there \cap {"m1"}}
                  \cup {RemoveMember : r \in there \cap {"m1"}}
                  \cup {RevokeInvite : r \in there \cap {"i1"}}
         [] Page(t) = "settings" -> {HandleSavePrefs(t) : r \in there}
         [] Page(t) = "sso" ->
              (IF loading[t] THEN {} ELSE {ConfigureSaml(t), ConfigureOidc(t)})
                  \cup {DisableSSO : r \in there \cap {"org"}}
         [] OTHER -> IF modal[t].progress = "none" THEN {HandleUpload} ELSE {}

-----------------------------------------------------------------------------
NewOp(n, h, alone) ==
    [n |-> n, calls |-> h.calls, form |-> h.form, alone |-> alone, at |-> "send",
     before |-> "none", parts |-> {}, snap |-> <<>>, mark |-> 0, gone |-> FALSE,
     status |-> "none", nth |-> 1, seen |-> EmptyBag, asOf |-> 0]

\* The page opens: useEffect loads its list.
Opened(t) == IF Page(t) = "import" THEN {}
             ELSE {NewOp(0, Handler(<<Load>>, FALSE), TRUE)}

Labels == {"send", "count", "add", "serve", "stream", "answer", "hang"}
Closed == [importing |-> FALSE, progress |-> "none"]

InitStored == [r \in Rows \cup {"link"} |->
                 IF r \in {"r1", "m1", "pref"} THEN "on" ELSE "none"]

Init ==
    /\ LimitInit
    /\ stored = InitStored
    /\ fresh = {"r2", "i1"}
    /\ budget \in Budgets
    /\ used = [b \in Bounds |-> 0]
    /\ shown = [t \in Tabs |-> [r \in Rows |-> "none"]]
    /\ loading = [t \in Tabs |-> TRUE]
    /\ ops = [t \in Tabs |-> IF t \in Active THEN Opened(t) ELSE {}]
    /\ modal = [t \in Tabs |-> Closed]
    /\ recovery = [t \in Tabs |-> "none"]
    /\ changes = <<>>
    /\ base = [t \in Tabs |-> 0]
    /\ raced = [t \in Tabs |-> FALSE]
    /\ lost = [t \in Tabs |-> t \in Active /\ Page(t) # "import"]

Spend(b) == used[b] < budget[b] /\ used' = [used EXCEPT ![b] = @ + 1]
MayFail(ok) == IF ok THEN UNCHANGED used ELSE Spend("faults")

Become(t, o, new) == ops' = [ops EXCEPT ![t] = (@ \ {o}) \cup new]

\* Two handlers whose effects on the list depend on the order of the answers:
\* one loads the list, or both write the same row.
Reloads(h) == \E i \in DOMAIN h.calls : h.calls[i].verb = "load"
Writes(h) == {h.calls[i].row : i \in {i \in DOMAIN h.calls :
                                        h.calls[i].then \in {"flip", "set"}}}
Conflict(g, h) == Reloads(g) \/ Reloads(h) \/ Writes(g) \cap Writes(h) # {}

\* Variant: the submit buttons are not disabled while a submission runs.
MayStartAnytime(t, h) == h \in Offered(t)

MayStart(t, h) ==
    /\ h \in Offered(t)
    /\ h.form => \A o \in ops[t] : o.form => o.gone

\* The user clicks.  A preference is shown as chosen before it is saved.
Start(t, h) ==
    LET call == Head(h.calls)
        op == [NewOp(used.clicks + 1, h, ops[t] = {}) EXCEPT
                  !.before = IF call.then = "row" THEN shown[t][call.row] ELSE "none"]
    IN
    /\ MayStart(t, h)
    /\ Spend("clicks")
    /\ ops' = [ops EXCEPT ![t] = {[o EXCEPT !.alone = FALSE] : o \in @} \cup {op}]
    /\ fresh' = IF call.verb = "create" THEN fresh \ {call.row} ELSE fresh
    /\ shown' = IF call.then = "row" THEN [shown EXCEPT ![t][call.row] = call.val]
                ELSE shown
    /\ modal' = IF call.verb = "import"
                THEN [modal EXCEPT ![t] = [importing |-> TRUE, progress |-> "none"]]
                ELSE modal
    /\ raced' = [raced EXCEPT ![t] = @ \/ \E o \in ops[t] : Conflict(o, h)]
    /\ UNCHANGED <<stored, loading, recovery, changes, base, lost, limitVars>>

-----------------------------------------------------------------------------
(* The gateway's routes that change rows: the rows after the request, and      *)
(* whether it was refused.  The other tables are changed as alert rules are.   *)

Done(rows) == [ok |-> TRUE, rows |-> rows]
Refuse == [ok |-> FALSE, rows |-> stored]

VALID_METRICS == METRICS \ {"pressure"}
PostAlertRule(r, metric) ==
    IF metric \in VALID_METRICS THEN Done([stored EXCEPT ![r] = "on"]) ELSE Refuse
PutAlertRule(r, enabled) ==
    IF stored[r] = "none" THEN Refuse ELSE Done([stored EXCEPT ![r] = enabled])
DeleteAlertRule(r) ==
    IF stored[r] = "none" THEN Refuse ELSE Done([stored EXCEPT ![r] = "none"])

DeleteApiKey(r) ==
    IF stored[r] = "on" THEN Done([stored EXCEPT ![r] = "off"]) ELSE Refuse

\* Tenancy has the calls that these make to Auth0 one by one.
PostSsoConnection(kind) ==
    IF stored["org"] = "on" THEN Done([stored EXCEPT ![kind] = "on", !["link"] = kind])
    ELSE Refuse
DeleteSso ==
    IF stored["link"] = "none" THEN Refuse
    ELSE Done([stored EXCEPT ![stored["link"]] = "none", !["link"] = "none"])

Route(call) ==
    CASE call.verb = "create" /\ call.val = "on" -> Done([stored EXCEPT ![call.row] = "on"])
      [] call.verb = "create" -> PostAlertRule(call.row, call.val)
      [] call.verb = "set" -> PutAlertRule(call.row, call.val)
      [] call.verb = "delete" -> DeleteAlertRule(call.row)
      [] call.verb = "revoke" -> DeleteApiKey(call.row)
      [] call.verb = "connect" -> PostSsoConnection(call.row)
      [] OTHER -> DeleteSso

-----------------------------------------------------------------------------
(* apiFetch.  No route sets the CSRF cookie, so that a changing call first asks *)
(* for /health and its token is never refused.                                  *)

\* Variant: a call that went wrong is made again.
FailedRetries(t, o) ==
    /\ Become(t, o, {NewOp(o.n, o, o.alone)})
    /\ UNCHANGED <<loading, shown, lost>>

\* The call went wrong: a load shows its error and the handler goes on, any
\* other call ends its handler, and a preference is shown as before.
Failed(t, o) ==
    LET call == Head(o.calls)
        isLoad == call.verb = "load"
        rest == Tail(o.calls)
    IN
    /\ Become(t, o, IF isLoad /\ rest # <<>>
                    THEN {[NewOp(o.n, o, o.alone) EXCEPT !.calls = rest]} ELSE {})
    /\ loading' = IF isLoad THEN [loading EXCEPT ![t] = FALSE] ELSE loading
    /\ shown' = IF call.then = "row" THEN [shown EXCEPT ![t][call.row] = o.before]
                ELSE shown
    /\ lost' = [lost EXCEPT ![t] = @ \/ isLoad \/ o.status = "lost"]

\* The token, /health and the request itself: each may fail on the way.
Send(t, o) ==
    /\ o.at = "send"
    /\ \/ /\ Become(t, o, {[o EXCEPT !.at = IF budget.limited THEN "count" ELSE "serve"]})
          /\ UNCHANGED <<used, shown, loading, lost, modal>>
       \/ /\ Spend("faults")
          /\ Failed(t, o)
          /\ modal' = [modal EXCEPT ![t].importing = FALSE]
    /\ UNCHANGED <<stored, fresh, recovery, changes, base, raced, limitVars>>

\* There is no token without a login: the redirect begins, unless it has begun,
\* and the call waits for it.
LoginRequired(t, o) ==
    /\ o.at = "send"
    /\ Spend("faults")
    /\ Become(t, o, {[o EXCEPT !.at = "hang"]})
    /\ recovery' = [recovery EXCEPT ![t] = "started"]
    /\ UNCHANGED <<stored, fresh, shown, loading, modal, history, limitVars>>

\* The browser leaves for the login and comes back to the page.  Requests that
\* are on their way keep going, with nobody to answer.
Redirect(t) ==
    LET sent == {o \in ops[t] : o.at \in {"count", "add", "serve"}} IN
    /\ recovery[t] = "started"
    /\ recovery' = [recovery EXCEPT ![t] = "none"]
    /\ ops' = [ops EXCEPT ![t] = Opened(t) \cup {[o EXCEPT !.gone = TRUE] : o \in sent}]
    /\ shown' = [shown EXCEPT ![t] = [r \in Rows |-> "none"]]
    /\ loading' = [loading EXCEPT ![t] = TRUE]
    /\ modal' = [modal EXCEPT ![t] = Closed]
    /\ raced' = [raced EXCEPT ![t] = FALSE]
    /\ lost' = [lost EXCEPT ![t] = Page(t) # "import"]
    /\ UNCHANGED <<stored, fresh, changes, base, used, limitVars>>

\* loginWithRedirect fails: authRecoveryStarted is reset, and the calls that
\* wait for the redirect wait for good.
RedirectFails(t) ==
    /\ recovery[t] = "started"
    /\ Spend("faults")
    /\ recovery' = [recovery EXCEPT ![t] = "failed"]
    /\ UNCHANGED <<stored, fresh, shown, loading, ops, modal, history, limitVars>>

-----------------------------------------------------------------------------
(* The request at the gateway: the limiters on its way, then its route.       *)

Reply(t, o, status) ==
    Become(t, o, IF o.gone THEN {} ELSE {[o EXCEPT !.at = "answer", !.status = status]})

NextLimiter(t, o) ==
    IF o.nth < Len(Limiters(Page(t)))
    THEN [o EXCEPT !.at = "count", !.nth = @ + 1, !.seen = EmptyBag, !.asOf = 0]
    ELSE [o EXCEPT !.at = "serve", !.seen = EmptyBag, !.asOf = 0]

\* A limiter counts; when Redis is away it lets the request pass.
Count(t, o) ==
    /\ o.at = "count"
    /\ \/ /\ CountPasses
          /\ Become(t, o, {[o EXCEPT !.at = "add", !.seen = Trim(passes), !.asOf = clock]})
          /\ UNCHANGED used
       \/ /\ Spend("faults")
          /\ Become(t, o, {NextLimiter(t, o)})
          /\ UNCHANGED limitVars
    /\ UNCHANGED <<stored, fresh, shown, loading, modal, recovery, history>>

\* The pass is recorded, and the request goes on or is refused with 429.
Add(t, o) ==
    /\ o.at = "add"
    /\ AddPass(o.n, o.asOf)
    /\ IF Exceeded(o.seen, Limiters(Page(t))[o.nth])
       THEN Reply(t, o, "limited")
       ELSE Become(t, o, {NextLimiter(t, o)})
    /\ UNCHANGED <<stored, fresh, shown, loading, modal, recovery, history, used>>

\* What GET /tenants/me/sso answers when Auth0 cannot list the connections.
WithoutConnections == [r \in RowsOf("sso") |-> IF r = "org" THEN "on" ELSE "none"]

\* A GET route reads the rows of one part of the page, or fails.
ServeLoad(t, o) ==
    /\ o.at = "serve"
    /\ Head(o.calls).verb = "load"
    /\ \/ /\ \E part \in Parts(Page(t)) \ o.parts :
                LET parts == o.parts \cup {part}
                    read == [o EXCEPT
                        !.parts = parts,
                        !.snap = [r \in part |-> stored[r]] @@ @,
                        !.mark = IF o.parts = {} THEN Len(changes) ELSE @]
                IN IF parts = Parts(Page(t))
                   THEN Become(t, o, IF o.gone THEN {}
                                     ELSE {[read EXCEPT !.at = "answer", !.status = "ok"]})
                   ELSE Become(t, o, {read})
          /\ UNCHANGED used
       \/ Spend("faults") /\ Reply(t, o, "failed")
       \/ /\ Page(t) = "sso" /\ stored["org"] = "on" /\ ~o.gone
          /\ Spend("faults")
          /\ Become(t, o, {[o EXCEPT !.snap = WithoutConnections, !.mark = Len(changes),
                                     !.at = "answer", !.status = "partial"]})
    /\ UNCHANGED <<stored, fresh, shown, loading, modal, recovery, history, limitVars>>

\* A route that changes a row, refuses to, or changes it and its answer is lost.
ServeChange(t, o) ==
    LET call == Head(o.calls)
        result == Route(call)
    IN
    /\ o.at = "serve"
    /\ call.verb \notin {"load", "import"}
    /\ \E status \in {"failed"} \cup (IF result.ok THEN {"ok", "lost"} ELSE {}) :
          /\ MayFail(status = "ok" \/ ~result.ok)
          /\ Reply(t, o, status)
          /\ stored' = IF status = "failed" THEN stored ELSE result.rows
          /\ changes' = IF stored' = stored THEN changes
                        ELSE Append(changes, IF o.gone THEN "gone" ELSE t)
    /\ UNCHANGED <<fresh, shown, loading, modal, recovery, base, raced, lost, limitVars>>

\* POST /devices/bulk: an event stream, or a refusal in JSON.
ServeImport(t, o) ==
    /\ o.at = "serve"
    /\ Head(o.calls).verb = "import"
    /\ \/ /\ Become(t, o, IF o.gone THEN {} ELSE {[o EXCEPT !.at = "stream"]})
          /\ UNCHANGED used
       \/ Spend("faults") /\ Reply(t, o, "failed")
    /\ UNCHANGED <<stored, fresh, shown, loading, modal, recovery, history, limitVars>>

-----------------------------------------------------------------------------
(* The answer at the page.                                                    *)

\* What the handler does to the rows on the screen after a call that went well.
After(t, o) ==
    LET call == Head(o.calls)
        now == shown[t]
        set(v) == IF now[call.row] = "none" THEN now ELSE [now EXCEPT ![call.row] = v]
    IN CASE call.verb = "load" -> o.snap @@ now
         [] call.then = "flip" -> set(Flip(now[call.row]))
         [] call.then = "set" -> set(call.val)
         [] call.then = "filter" -> set("none")
         [] call.then = "row" -> [now EXCEPT ![call.row] = call.val]
         [] OTHER -> now

AnswerOk(t, o) ==
    LET isLoad == Head(o.calls).verb = "load"
        rest == Tail(o.calls)
        settled == isLoad /\ o.alone /\ o.status = "ok"
    IN
    /\ o.at = "answer"
    /\ o.status \in {"ok", "partial"}
    /\ shown' = [shown EXCEPT ![t] = After(t, o)]
    /\ Become(t, o, IF rest = <<>> THEN {}
                    ELSE {NewOp(o.n, Handler(rest, o.form), o.alone)})
    /\ loading' = [loading EXCEPT ![t] =
                     IF isLoad THEN FALSE
                     ELSE @ \/ (rest # <<>> /\ Head(rest) = Load /\ Page(t) # "webhooks")]
    /\ base' = IF isLoad THEN [base EXCEPT ![t] = o.mark] ELSE base
    /\ raced' = [raced EXCEPT ![t] = @ /\ ~settled]
    /\ lost' = [lost EXCEPT ![t] = (@ /\ ~settled) \/ o.status = "partial"]
    /\ UNCHANGED <<stored, fresh, modal, recovery, changes, used, limitVars>>

AnswerFailed(t, o) ==
    /\ o.at = "answer"
    /\ o.status \notin {"ok", "partial"}
    /\ Head(o.calls).verb # "import"
    /\ Failed(t, o)
    /\ UNCHANGED <<stored, fresh, modal, recovery, changes, base, raced, used, limitVars>>

\* Variant: the spinner also stays when the stream breaks off.
ImportBroken(t) == modal[t]

\* The catch clause of handleUpload.
ImportCaught(t) == [modal[t] EXCEPT !.importing = FALSE]

\* handleUpload reads an event, or the stream breaks off; progress is the last
\* event, and hides the form.  The event that sets finished never comes: before it
\* the gateway updates failed_rows, a column bulk_import_jobs does not have, and
\* the rejection, which nothing handles, ends its process and so every stream
\* that got as far as its rows.
Stream(t, o) ==
    /\ o.at = "stream"
    /\ \E event \in {"row", "error", "broken"} :
          /\ event \in {"row", "error"} => o.status = "none"
          /\ MayFail(event # "broken" \/ o.status = "row")
          /\ Become(t, o, IF event = "row" THEN {[o EXCEPT !.status = "row"]} ELSE {})
          /\ modal' = [modal EXCEPT ![t] =
                CASE event = "row" -> [@ EXCEPT !.progress = "some"]
                  [] event = "error" -> [importing |-> FALSE, progress |-> "some"]
                  [] OTHER -> ImportCaught(t)]
    /\ UNCHANGED <<stored, fresh, shown, loading, recovery, history, limitVars>>

\* A refusal is no event: the body ends without one, and importing stays.
ImportRefused(t, o) ==
    /\ o.at = "answer"
    /\ Head(o.calls).verb = "import"
    /\ Become(t, o, {})
    /\ lost' = [lost EXCEPT ![t] = TRUE]
    /\ UNCHANGED <<stored, fresh, shown, loading, modal, recovery, changes, base, raced,
                   used, limitVars>>

\* Cancel while the form is shown, or a click beside the dialog.
Reset(t) ==
    /\ modal[t] # Closed
    /\ modal[t].progress = "none" \/ ~modal[t].importing
    /\ modal' = [modal EXCEPT ![t] = Closed]
    /\ lost' = [lost EXCEPT ![t] = FALSE]
    /\ UNCHANGED <<stored, fresh, shown, loading, ops, recovery, changes, base, raced, used,
                   limitVars>>

Tick ==
    /\ Spend("ticks")
    /\ clock' = clock + 1
    /\ UNCHANGED <<stored, fresh, pageVars, history, passes>>

Step(t, o) == \/ Send(t, o) \/ LoginRequired(t, o) \/ Count(t, o) \/ Add(t, o)
              \/ ServeLoad(t, o) \/ ServeChange(t, o) \/ ServeImport(t, o)
              \/ AnswerOk(t, o) \/ AnswerFailed(t, o) \/ Stream(t, o) \/ ImportRefused(t, o)

Next == /\ \/ \E t \in Active :
                 \/ \E h \in Offered(t) : Start(t, h)
                 \/ \E o \in ops[t] : Step(t, o)
                 \/ Redirect(t) \/ RedirectFails(t) \/ Reset(t)
           \/ Tick
        /\ UNCHANGED budget

Spec == Init /\ [][Next]_vars

\* Requests end, and a login that has begun is either left for or fails.
FairSpec ==
    /\ Spec
    /\ \A t \in Tabs :
          /\ WF_vars(t \in Active /\ (\E o \in ops[t] : Step(t, o)) /\ UNCHANGED budget)
          /\ WF_vars(t \in Active /\ Redirect(t) /\ UNCHANGED budget)

-----------------------------------------------------------------------------
\* Every variable has its type.  The handlers of a page have distinct numbers,
\* and of those that a disabled button guards (saving, creating, submitting,
\* savingPrefs) a page that is still open runs one at a time.
TypeOK ==
    /\ stored \in [Rows \cup {"link"} -> Values \cup {"saml", "oidc"}]
    /\ fresh \subseteq Rows
    /\ shown \in [Tabs -> [Rows -> Values]]
    /\ loading \in [Tabs -> BOOLEAN]
    /\ modal \in [Tabs -> [importing : BOOLEAN, progress : {"none", "some"}]]
    /\ recovery \in [Tabs -> {"none", "started", "failed"}]
    /\ base \in [Tabs -> 0 .. Len(changes)]
    /\ raced \in [Tabs -> BOOLEAN]
    /\ lost \in [Tabs -> BOOLEAN]
    /\ used \in [Bounds -> Nat]
    /\ \A t \in Tabs : \A o, p \in {o \in ops[t] : ~o.gone} :
          /\ o.at \in Labels /\ o.calls # <<>>
          /\ o # p => o.n # p.n /\ ~(o.form /\ p.form)

\* A page at rest shows what is stored, whatever its handlers did to the list
\* themselves (flip, filter, set, or load it again), unless two of them that do
\* not commute overlapped, a load failed or was answered without its connections,
\* the answer to a change was lost, or someone else changed the rows since its last load.
PageShowsStored ==
    \A t \in Active :
        /\ ops[t] = {} /\ ~raced[t] /\ ~lost[t]
        /\ \A i \in base[t] + 1 .. Len(changes) : changes[i] = t
        => \A r \in RowsOf(Page(t)) : shown[t][r] = stored[r]

\* The limiters of the routers an upload passes on its way do not by themselves
\* use up the bulk limiter's ten: an upload is refused with 429 only when, within
\* the window, a request of another handler was counted.
LoneImportAdmitted ==
    \A t \in Active : \A o \in ops[t] :
        Head(o.calls).verb = "import" /\ o.status = "limited" =>
            \E p \in BagToSet(o.seen) : p.by # o.n /\ p.at + Window > o.asOf

\* The import dialog spins only while an upload runs, or after one was refused
\* in JSON, which handleUpload takes for a stream without events.
SpinnerExplained ==
    \A t \in Active :
        modal[t].importing =>
            lost[t] \/ \E o \in ops[t] : Head(o.calls).verb = "import" /\ ~o.gone

\* Every handler ends, so that its button is enabled again, except those that
\* wait for a redirect to the login which failed.
HandlersEnd ==
    <>[](\A t \in Active : \A o \in ops[t] : o.at = "hang" /\ recovery[t] = "failed")
====
