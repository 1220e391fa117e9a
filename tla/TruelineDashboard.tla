-------------------------- MODULE TruelineDashboard --------------------------
(***************************************************************************)
(* trueline's own client on top of its backend: the dashboard tabs of      *)
(* app/app/page.tsx.  A tab loads the demo set on a tenant's first visit,  *)
(* uploads invoices one after another, tries the model on the user's       *)
(* machine first and hands the invoice to the server when that fails.      *)
(* Every await of that code is a point where the tab may be closed and     *)
(* where another tab, a reviewer or the server may act.                    *)
(***************************************************************************)
EXTENDS TruelineInvoices, SequencesExt

CONSTANTS Tabs,        \* browser tabs
          TabOrg,      \* the tenant signed in on each
          MayClose,    \* the tabs a user may close at any point
          MayFail,     \* the uploads, by number, whose calls may fail
          Reviewing    \* whether invoices are reviewed meanwhile

ASSUME DashboardAssumption ==
    /\ TabOrg \in [Tabs -> Orgs]
    /\ MayClose \subseteq Tabs
    /\ MayFail \subseteq Numbers
    /\ Reviewing \in BOOLEAN
    /\ IsFiniteSet(DemoNumbers)   \* DEMO_INVOICES is a literal

VARIABLE tabs
allVars == <<vars, tabs>>

\* pc: closed, open, seeding, creating, local or fallback; seeded: the ref
\* seededOnce of this mount; todo: the uploads left, the current one first; inv:
\* its invoice.
ClosedTab == [pc |-> "closed", seeded |-> FALSE, todo |-> <<>>, inv |-> NoInvoice]

DashboardInit == Init /\ tabs = [t \in Tabs |-> ClosedTab]

At(t, pc) == tabs[t].pc = pc
Set(t, tab) == tabs' = [tabs EXCEPT ![t] = tab]

\* The upload in progress is over: the loop goes on with the next, if any.
Continue(tab) ==
    IF Len(tab.todo) <= 1
    THEN [tab EXCEPT !.pc = "open", !.todo = <<>>, !.inv = NoInvoice]
    ELSE [tab EXCEPT !.pc = "creating", !.todo = Tail(tab.todo), !.inv = NoInvoice]

\* An exception leaves loadDemo: the uploads left are never begun.
Stop(tab) == [tab EXCEPT !.pc = "open", !.todo = <<>>, !.inv = NoInvoice]

\* A call of the upload in progress fails on the platform's account, or because
\* the user is signed out: `Not authenticated'.  The mutation has no effect.
CallFails(t) == tabs[t].todo # <<>> /\ Head(tabs[t].todo) \in MayFail /\ UNCHANGED vars

----------------------------------------------------------------------------
(* What the user does.                                                     *)

OpenTab(t) ==
    /\ At(t, "closed")
    /\ Set(t, [ClosedTab EXCEPT !.pc = "open"])
    /\ UNCHANGED vars

\* Closing a tab drops whatever its code was waiting for.
CloseTab(t) ==
    /\ t \in MayClose
    /\ ~At(t, "closed")
    /\ Set(t, ClosedTab)
    /\ UNCHANGED vars

\* The button `load everything', shown while the tenant has nothing.
LoadEverything(t) ==
    /\ At(t, "open")
    /\ orders[TabOrg[t]] = <<>> /\ InvoicesOf(TabOrg[t]) = {}
    /\ Set(t, [tabs[t] EXCEPT !.pc = "seeding"])
    /\ UNCHANGED vars

\* The upload button is disabled until there is a contract.
UploadInvoice(t, number) ==
    /\ At(t, "open")
    /\ orders[TabOrg[t]] # <<>>
    /\ Set(t, [tabs[t] EXCEPT !.pc = "creating", !.todo = <<number>>])
    /\ UNCHANGED vars

UserStep ==
    \/ \E t \in Tabs : OpenTab(t) \/ CloseTab(t) \/ LoadEverything(t)
    \/ \E t \in Tabs, n \in Numbers \ DemoNumbers : UploadInvoice(t, n)
    \/ /\ UNCHANGED tabs
       /\ \E o \in Orgs :
            \/ ResetDemo(o)
            \/ \E list \in Lists : SetBaselineFromText(o, list)
            \/ Reviewing /\ Review(o)

----------------------------------------------------------------------------
(* What the tab's code does.                                               *)

\* The mount effect: the flag is read from a query, the seeding that follows
\* is a mutation of its own.
AutoSeed(t) ==
    /\ At(t, "open")
    /\ ~tabs[t].seeded
    /\ ~initialized[TabOrg[t]]
    /\ Set(t, [tabs[t] EXCEPT !.pc = "seeding", !.seeded = TRUE])
    /\ UNCHANGED vars

\* seedDemoBaseline answers with the demo invoices not present yet.
LoadDemo(t) ==
    /\ At(t, "seeding")
    /\ SeedDemoBaseline(TabOrg[t])
    /\ LET have == {inv[i].number : i \in InvoicesOf(TabOrg[t])}
           todo == SetToSeq(DemoNumbers \ have)
       IN  Set(t, [tabs[t] EXCEPT !.todo = todo,
                                  !.pc = IF todo = <<>> THEN "open" ELSE "creating"])

\* seedDemoBaseline throws: nothing is uploaded.
LoadDemoFails(t) ==
    /\ At(t, "seeding")
    /\ MayFail # {}
    /\ Set(t, Stop(tabs[t]))
    /\ UNCHANGED vars

\* deferServer unless the tenant's routing mode rules the local model out.
CreateInvoice(t, tryLocal) ==
    /\ At(t, "creating")
    /\ \E i \in Invoices :
         /\ CreateAs(TabOrg[t], i, Head(tabs[t].todo), tryLocal)
         /\ Set(t, IF tryLocal THEN [tabs[t] EXCEPT !.pc = "local", !.inv = i]
                   ELSE Continue(tabs[t]))

\* createInvoice throws: this upload is given up, the loop goes on.
CreateFails(t) ==
    /\ At(t, "creating")
    /\ CallFails(t)
    /\ Set(t, Continue(tabs[t]))

\* A slip: the return after a successful submission is missing.
LocalExtractedFallsThrough(t, reading) ==
    /\ At(t, "local")
    /\ reading # <<>>
    /\ SubmitExtraction(TabOrg[t], tabs[t].inv, reading)
    /\ Set(t, [tabs[t] EXCEPT !.pc = "fallback"])

LocalExtracted(t, reading) ==
    /\ At(t, "local")
    /\ reading # <<>>
    /\ SubmitExtraction(TabOrg[t], tabs[t].inv, reading)
    /\ Set(t, Continue(tabs[t]))

\* The local model is unreachable, fails or reads nothing, or submitExtraction
\* fails on the platform's account.
LocalFailed(t) ==
    /\ At(t, "local")
    /\ Set(t, [tabs[t] EXCEPT !.pc = "fallback"])
    /\ UNCHANGED vars

\* submitExtraction throws: the same catch takes a refusal for a failure of
\* the local model.
SubmissionRefused(t) ==
    /\ At(t, "local")
    /\ ~(Owned(TabOrg[t], tabs[t].inv) /\ inv[tabs[t].inv].status = "extracting")
    /\ Set(t, [tabs[t] EXCEPT !.pc = "fallback"])
    /\ UNCHANGED vars

\* A slip: the catch logs the failure and forgets to schedule the server.
FallBackUnscheduled(t) ==
    /\ At(t, "fallback")
    /\ Set(t, Continue(tabs[t]))
    /\ UNCHANGED vars

FallBack(t) ==
    /\ At(t, "fallback")
    /\ ScheduleExtract(TabOrg[t], tabs[t].inv)
    /\ Set(t, Continue(tabs[t]))

\* scheduleExtract is outside the try: when it throws, the loop over the
\* remaining invoices ends with it.  It throws for an invoice that is gone ...
FallBackRefused(t) ==
    /\ At(t, "fallback")
    /\ ~ Owned(TabOrg[t], tabs[t].inv)
    /\ Set(t, Stop(tabs[t]))
    /\ UNCHANGED vars

\* ... and when the call itself fails; nothing tries it again.
FallBackFails(t) ==
    /\ At(t, "fallback")
    /\ CallFails(t)
    /\ Set(t, Stop(tabs[t]))

\* A call throws, and the tab's code gives up an upload or all that are left.
GivesUp(t) ==
    LoadDemoFails(t) \/ CreateFails(t) \/ FallBackRefused(t) \/ FallBackFails(t)

TabStep(t) ==
    \/ AutoSeed(t)
    \/ LoadDemo(t)
    \/ \E tryLocal \in BOOLEAN : CreateInvoice(t, tryLocal)
    \/ \E reading \in Readings : LocalExtracted(t, reading)
    \/ LocalFailed(t)
    \/ SubmissionRefused(t)
    \/ FallBack(t)
    \/ GivesUp(t)

----------------------------------------------------------------------------
DashboardNext ==
    \/ UserStep
    \/ \E t \in Tabs : TabStep(t)
    \/ /\ UNCHANGED tabs
       /\ \E r \in RunSlots : RunStep(r) \/ RunFault(r) \/ RunLost(r)

DashboardSpec == DashboardInit /\ [][DashboardNext]_allVars

\* A tab that stays open goes on with its code, and so does the server; users
\* owe nothing.
DashboardFairness ==
    /\ \A t \in Tabs : WF_allVars(TabStep(t))
    /\ \A r \in RunSlots : WF_allVars(RunStep(r) /\ UNCHANGED tabs)
FairDashboardSpec == DashboardSpec /\ DashboardFairness

----------------------------------------------------------------------------
(* Who extracts an invoice.                                                *)

\* A tab tries its local model on the invoice, or is about to hand it over.
Holds(t, i) == tabs[t].pc \in {"local", "fallback"} /\ tabs[t].inv = i
\* A run has not written yet.
Pending(r, i) == runs[r].pc \in {"read", "extract", "write"} /\ runs[r].inv = i
\* A run has not told the invoice's row how it ended.
Unreported(r, i) == Pending(r, i) \/ (runs[r].pc = "mark" /\ runs[r].inv = i)

Busy(i) == (\E t \in Tabs : Holds(t, i)) \/ (\E r \in RunSlots : Pending(r, i))

\* Of the tabs and the runs of the server at most one extracts an invoice, and
\* it finds no lines there: a local failure, a refused submission and a second
\* tab never make the server extract what has been extracted, or is being
\* (page.tsx:206-270, where no transaction spans the two mutations).
OneExtractor ==
    \A i \in Invoices :
        /\ \A t, u \in Tabs : Holds(t, i) /\ Holds(u, i) => t = u
        /\ \A r, s \in RunSlots : Pending(r, i) /\ Pending(s, i) => r = s
        /\ \A t \in Tabs, r \in RunSlots : ~ (Holds(t, i) /\ Pending(r, i))
        /\ Busy(i) => lines[i] = <<>> /\ inv[i].status # "unused"

\* It awaits an extraction nobody works on: it would stay so for ever.
Stranded(i) ==
    /\ inv[i].status = "extracting"
    /\ \A t \in Tabs : ~ Holds(t, i)
    /\ \A r \in RunSlots : ~ Unreported(r, i)

\* An invoice is stranded by a tab that is closed while it holds the invoice,
\* by a hand-over to the server that fails, or by a run the platform drops, and
\* in no other way: no refusal, fault, reset, review or other tab leaves it
\* without somebody who settles it (page.tsx:239-270 and the catch of
\* extract.ts).
OnlyLossStrands ==
    [][\A i \in Invoices : Stranded(i)' =>
         \/ Stranded(i)
         \/ \E t \in Tabs : Holds(t, i) /\ (CloseTab(t) \/ FallBackFails(t))
         \/ \E r \in RunSlots : Unreported(r, i) /\ RunLost(r)]_allVars

----------------------------------------------------------------------------
\* With no tab closed and no run lost, an upload whose own calls succeed ends: a
\* local failure, a refused submission, a failed run and the failing calls of
\* other uploads all lead somewhere.
UploadSettles ==
    \A i \in Invoices : inv[i].status = "extracting" /\ inv[i].number \notin MayFail
                         ~> inv[i].status # "extracting"
=============================================================================
