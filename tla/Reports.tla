------------------------------ MODULE Reports ------------------------------
(***************************************************************************)
(* What a treasurer and the public read of the ledger.  A report asks      *)
(* several statements, each of which sees the rows committed before it     *)
(* (READ COMMITTED), and a listing is read page after page; approvals,     *)
(* edits and undos of module Approval commit in between.  A line is a      *)
(* pending row with the ledger entry made from it (a part of a split is a  *)
(* line of its own); lines are numbered in order of arrival.  Searches,    *)
(* other orders, date windows (last seven days, ten latest), labels,       *)
(* layout and files are left out, and no entry is tampered with (module    *)
(* Ledger).                                                                *)
(***************************************************************************)
EXTENDS Integers, FiniteSets, FiniteSetsExt, Sequences, SequencesExt

CONSTANTS
    MaxLines,      \* lines of the treasurer
    Campaigns,     \* campaigns entries are booked to
    Shown,         \* the campaign a report of one campaign is about
    MethodOf,      \* how each line was paid
    Bookings,      \* what entries are booked to: <<campaign or None, currency of the group>>
    BookedTo,      \* what each line is approved for
    MaxAmount,     \* amounts are 1..MaxAmount
    Limit,         \* length of a page
    ExportLimit,   \* entries an export may have
    MaxChanges,    \* changes of the lines during one report
    None

Lines == 1..MaxLines

Methods == {"M-Pesa", "Cash", "Till"}

Currencies == {"KES", "other"}

ASSUME ConstantsAssumption ==
    /\ MaxLines \in Nat /\ MaxAmount \in Nat \ {0}
    /\ Limit \in Nat \ {0} /\ ExportLimit \in Nat /\ MaxChanges \in Nat
    /\ Shown \in Campaigns /\ None \notin Campaigns
    /\ MethodOf \in [Lines -> Methods]
    /\ Bookings \subseteq (Campaigns \cup {None}) \X Currencies
    /\ BookedTo \in [Lines -> Bookings]

VARIABLES
    line,          \* pending rows and ledger entries
    booked,        \* the lines that are processed or in the ledger, by created_at
    reader         \* the report being read

vars == <<line, booked, reader>>

(***************************************************************************)
(* Rows.  created_at is taken when a row is made, before the commit, so an *)
(* entry may appear before others that were committed earlier.             *)
(***************************************************************************)
\* cleared: approved, and the pending row is deleted from the history.
States == {"none", "pending", "approved", "rejected", "cleared"}

\* cur: the currency of the entry's group.  The group and the campaign of an entry are given
\* side by side, and nothing compares them.
Line == [st : States, camp : Campaigns \cup {None}, cur : Currencies, amount : 1..MaxAmount]

Absent == [st |-> "none", camp |-> None, cur |-> "KES", amount |-> 1]

Approved == {i \in Lines : line[i].st \in {"approved", "cleared"}}

Processed == {i \in Lines : line[i].st \in {"approved", "rejected"}}

Place(i) == CHOOSE p \in DOMAIN booked : booked[p] = i

\* Where the row of line i can come: anywhere.
WithRow(i) == {InsertAt(booked, p, i) : p \in 1..(Len(booked) + 1)}

Without(i) == RemoveAt(booked, Place(i))

(***************************************************************************)
(* What a statement selects: a set of classes                              *)
(* <<campaign, currency of the group, method>>.                            *)
(***************************************************************************)
Classes == (Campaigns \cup {None}) \X Currencies \X Methods

OfShown(methods) == {Shown} \X Currencies \X methods

OfCampaigns == Campaigns \X Currencies \X Methods

OfShillings == (Campaigns \cup {None}) \X {"KES"} \X Methods

\* Method names are lower-cased and lose "-" and " " before they are sorted
\* into the four known ones ...
Known == {"M-Pesa", "Cash"}

\* ... but in the list of a group's campaigns they are only lower-cased.
KnownInList == {"Cash"}

Class(i) == <<line[i].camp, line[i].cur, MethodOf[i]>>

Selected(of) == {i \in Approved : Class(i) \in of}

\* The units of money in the given lines: amounts are compared by how many they are.
Units(lines) == {unit \in lines \X (1..MaxAmount) : unit[2] <= line[unit[1]].amount}

\* SELECT sum(amount) ... status = 'approved'
\* Slip: joined with the pending rows, which may have been cleared.
Sum_Joined(of) == Cardinality(Units(Selected(of) \cap Processed))

Sum(of) == Cardinality(Units(Selected(of)))

\* The amounts of loaded entries, added in Python.
\* Slip: the entries of all campaigns are loaded.
Loaded_OfOwner(of) == Cardinality(Units(Approved))

Loaded(of) == Cardinality(Units(Selected(of)))

(***************************************************************************)
(* Reports: the statements each asks, in order.  "load" gives the entries, *)
(* "page" one page of a listing, after its rows were counted.              *)
(***************************************************************************)
Ask(what, of) == [what |-> what, table |-> "ledger", of |-> of]

List(table) == <<[what |-> "rows", table |-> table, of |-> {}],
                 [what |-> "page", table |-> table, of |-> {}]>>

\* Reports of one campaign.
Detail == <<Ask("sum", OfShown(Methods)), Ask("count", OfShown(Methods)),
            Ask("sum", OfShown(Known))>>

InGroupList == <<Ask("sum", OfShown(Methods)), Ask("count", OfShown(Methods)),
                 Ask("sum", OfShown(KnownInList))>>

MessageReport == <<Ask("load", OfShown(Methods))>>

Preview == MessageReport

WhatsAppReport == MessageReport

Chart == <<Ask("load", OfShown(Methods))>>

CampaignLedger == <<Ask("load", OfShown(Methods))>>

LedgerExport == CampaignLedger

ExcelExport == <<Ask("limit", OfShown(Methods)), Ask("load", OfShown(Methods)),
                 Ask("sum", OfShown(Methods))>>

PdfExport == ExcelExport

\* Reports of everything the treasurer has.
Dashboard == <<Ask("sum", Classes), Ask("count", Classes), Ask("sum", OfCampaigns),
               Ask("load", Classes)>>

\* The sum of a campaign, then of what is in shillings: the one need not be part of the other.
Overview == <<Ask("sum", OfShown(Methods)), Ask("sum", OfShillings)>>

Search == <<Ask("sum", OfShown(Methods))>>

OwnerGroups == <<Ask("sum", Classes)>>

GlobalLedger == <<Ask("load", Classes)>>

\* Listings.
PublicReport == <<Ask("sum", OfShown(Methods)), Ask("sum", OfShown(Known))>> \o List("ledger")

Transactions == List("ledger")

Inbox == List("inbox")

CampaignInbox == List("inbox")

History == List("history")

Reports == {Detail, InGroupList, MessageReport, Preview, WhatsAppReport, Chart,
            CampaignLedger, LedgerExport, ExcelExport, PdfExport, Dashboard, Overview,
            Search, OwnerGroups, GlobalLedger, PublicReport, Transactions, Inbox, CampaignInbox, History}

IsListing(asks) == asks # <<>> /\ Last(asks).what = "page"

Listed(table) ==
    CASE table = "inbox" -> {i \in Lines : line[i].st = "pending"}
      [] table = "history" -> Processed
      [] table = "ledger" -> Selected(OfShown(Methods))

Key(table, i) == IF table = "inbox" THEN i ELSE Place(i)

\* The public page starts with the oldest, the others with the latest.
Before(i, j) ==
    LET table == Last(reader.asks).table
    IN IF reader.asks = PublicReport THEN Key(table, i) < Key(table, j)
                                     ELSE Key(table, i) > Key(table, j)

\* Slip: the offset of the next page.
Offset_Next(page) == page * Limit

Offset(page) == (page - 1) * Limit

Page ==
    LET rows == Listed(Last(reader.asks).table)
        Rank(i) == Cardinality({j \in rows : Before(j, i)})
    IN {i \in rows : Rank(i) >= Offset(reader.page) /\ Rank(i) < Offset(reader.page) + Limit}

TotalPages(rows) == (rows + Limit - 1) \div Limit

(***************************************************************************)
(* The reader.  changes counts what was committed since the report began   *)
(* (only: approvals of new entries and nothing else); a figure remembers   *)
(* how many there were when it was read.  stayed: lines listed all along.  *)
(***************************************************************************)
Figure == [what : {"sum", "count"}, of : SUBSET Classes,
           value : 0..(MaxLines * MaxAmount), at : 0..MaxChanges]

Reader == [asks : Reports \cup {<<>>}, next : 1..5,
           page : 1..(MaxLines + MaxChanges + 1), pages : 0..MaxLines,
           figures : SUBSET Figure, changes : 0..MaxChanges, only : BOOLEAN,
           seen : SUBSET Lines, again : Nat,
           stayed : SUBSET Lines]

Idle == [asks |-> <<>>, next |-> 1, page |-> 1, pages |-> 0,
         figures |-> {}, changes |-> 0, only |-> TRUE, seen |-> {}, again |-> 0,
         stayed |-> {}]

Init ==
    /\ line = [i \in Lines |-> Absent]
    /\ booked = <<>>
    /\ reader = Idle

Open(asks) ==
    /\ reader = Idle
    /\ reader' = [Idle EXCEPT !.asks = asks,
                      !.stayed = IF IsListing(asks) THEN Listed(Last(asks).table) ELSE {}]
    /\ UNCHANGED <<line, booked>>

Reading == reader.asks # <<>>

Current == reader.asks[reader.next]

Unfinished == Reading /\ reader.next <= Len(reader.asks)

Made(what, value) == [what |-> what, of |-> Current.of, value |-> value, at |-> reader.changes]

ReadSum ==
    /\ Unfinished /\ Current.what = "sum"
    /\ reader' = [reader EXCEPT !.next = @ + 1,
                                !.figures = @ \cup {Made("sum", Sum(Current.of))}]
    /\ UNCHANGED <<line, booked>>

ReadCount ==
    /\ Unfinished /\ Current.what = "count"
    /\ reader' = [reader EXCEPT !.next = @ + 1,
                     !.figures = @ \cup {Made("count", Cardinality(Selected(Current.of)))}]
    /\ UNCHANGED <<line, booked>>

\* An export counts first, and is refused when there are too many.
CheckLimit ==
    LET rows == Cardinality(Selected(Current.of))
    IN /\ Unfinished /\ Current.what = "limit"
       /\ reader' = IF rows > ExportLimit THEN Idle
                    ELSE [reader EXCEPT !.next = @ + 1, !.figures = @ \cup {Made("count", rows)}]
       /\ UNCHANGED <<line, booked>>

LoadEntries ==
    /\ Unfinished /\ Current.what = "load"
    /\ reader' = [reader EXCEPT !.next = @ + 1,
                     !.figures = @ \cup {Made("sum", Loaded(Current.of)),
                                         Made("count", Cardinality(Selected(Current.of)))}]
    /\ UNCHANGED <<line, booked>>

CountRows ==
    /\ Unfinished /\ Current.what = "rows"
    /\ reader' = [reader EXCEPT !.next = @ + 1,
                                !.pages = TotalPages(Cardinality(Listed(Current.table)))]
    /\ UNCHANGED <<line, booked>>

ReadPage ==
    /\ Unfinished /\ Current.what = "page"
    /\ reader' = [reader EXCEPT !.next = @ + 1,
                                !.seen = @ \cup Page,
                                !.again = @ + Cardinality(Page \cap reader.seen)]
    /\ UNCHANGED <<line, booked>>

Answered == Reading /\ reader.next > Len(reader.asks)

\* The client asks for the next page while the last answer says there is one.
NextPage ==
    /\ Answered /\ reader.page < reader.pages
    /\ reader' = [reader EXCEPT !.next = 1, !.page = @ + 1, !.figures = {}]
    /\ UNCHANGED <<line, booked>>

Finished == Answered /\ reader.page >= reader.pages

Close ==
    /\ Finished
    /\ reader' = Idle
    /\ UNCHANGED <<line, booked>>

(***************************************************************************)
(* Changes of the lines, at most MaxChanges during one report.  left: the  *)
(* lines that are not in the reader's listing any more, or not the same.   *)
(* A report that is finished is put away before the next change.           *)
(***************************************************************************)
Commit(i, new, rows, adds, left) ==
    /\ line' = [line EXCEPT ![i] = new]
    /\ booked' = rows
    /\ ~Finished
    /\ IF Reading
       THEN /\ reader.changes < MaxChanges
            /\ reader' = [reader EXCEPT !.changes = @ + 1, !.only = @ /\ adds,
                                        !.stayed = @ \ left]
       ELSE UNCHANGED reader

Ingest(i) ==
    /\ line[i].st = "none"
    /\ Commit(i, [line[i] EXCEPT !.st = "pending"], booked, TRUE, {})

Approve(i) ==
    /\ line[i].st = "pending"
    /\ \E rows \in WithRow(i) :
          Commit(i, [line[i] EXCEPT !.st = "approved", !.camp = BookedTo[i][1],
                               !.cur = BookedTo[i][2]], rows, TRUE, {i})

Reject(i) ==
    /\ line[i].st = "pending"
    /\ \E rows \in WithRow(i) :
          Commit(i, [line[i] EXCEPT !.st = "rejected"], rows, TRUE, {i})

\* Slip: the amount stays as it was corrected.
Reopened_Corrected(l) == [l EXCEPT !.st = "pending", !.camp = None, !.cur = "KES"]

Reopened(l) == [l EXCEPT !.st = "pending", !.camp = None, !.cur = "KES", !.amount = 1]

Undo(i) ==
    /\ i \in Processed
    /\ Commit(i, Reopened(line[i]), Without(i), line[i].st = "rejected", {i})

\* The history is cleared of a line: its pending row is deleted.
Clear(i) ==
    /\ i \in Processed
    /\ Commit(i, IF i \in Approved THEN [line[i] EXCEPT !.st = "cleared"]
                                   ELSE Absent,
              IF i \in Approved THEN booked ELSE Without(i), TRUE, IF Reading /\ Last(reader.asks).table = "history" THEN {i} ELSE {})

\* The new entry keeps the old one's time, and its campaign unless it is given another; the
\* history shows pending rows.
Edit(i) ==
    /\ i \in Approved
    /\ \E to \in Bookings, a \in 1..MaxAmount :
          /\ to[1] \in Campaigns \cup {line[i].camp}
          /\ Commit(i, [line[i] EXCEPT !.camp = to[1], !.cur = to[2], !.amount = a],
                    booked, FALSE, IF Reading /\ Last(reader.asks).table = "history" THEN {} ELSE {i})

Change == \E i \in Lines : Ingest(i) \/ Approve(i) \/ Reject(i) \/ Undo(i) \/ Clear(i) \/ Edit(i)

Read == ReadSum \/ ReadCount \/ CheckLimit \/ LoadEntries \/ CountRows
        \/ ReadPage \/ NextPage \/ Close

Next ==
    \/ \E asks \in Reports : Open(asks)
    \/ Read
    \/ Change

Spec == Init /\ [][Next]_vars

-----------------------------------------------------------------------------
(* Rows and reader have their types; what is processed or booked is in order *)
(* once, and only an entry has a campaign or another than its first amount.  *)
TypeOK ==
    /\ line \in [Lines -> Line]
    /\ reader \in Reader
    /\ IsInjective(booked) /\ ToSet(booked) = Approved \cup Processed
    /\ \A i \in Lines \ Approved : line[i].camp = None /\ line[i].cur = "KES" /\ line[i].amount = 1

Apart(f, g) == IF f.at < g.at THEN g.at - f.at ELSE f.at - g.at

Worth(f) == IF f.what = "count" THEN 1 ELSE MaxAmount

(* The figures of one report come from several statements.  One whose rows   *)
(* are some of another's (the known methods of all methods, the campaigns of *)
(* everything) exceeds it by no more than what was committed between the     *)
(* two; without a commit, figures of the same rows are equal.  A campaign    *)
(* and what is in shillings, in the overview, are not so related.            *)
FiguresDrift ==
    \A f, g \in reader.figures :
        f.what = g.what /\ f.of \subseteq g.of => f.value <= g.value + Worth(f) * Apart(f, g)

(* While entries are only added, a figure read later is not smaller than one *)
(* of the same rows, or of some of them, read before: the sum an export      *)
(* prints is not below the entries it lists.                                 *)
LaterIsMore ==
    reader.only =>
        \A f, g \in reader.figures :
            f.what = g.what /\ f.of \subseteq g.of /\ f.at <= g.at => f.value <= g.value

(* A client that asks for page after page, until the last answer says there  *)
(* are no more, misses at most one line per line changed meanwhile (a split  *)
(* changes as many as it has parts) of those that were listed all along, and *)
(* gets at most one twice: undisturbed, it sees every line once.             *)
PagesLoseFew ==
    Finished /\ IsListing(reader.asks) =>
        /\ Cardinality(reader.stayed \ reader.seen) <= reader.changes
        /\ reader.again <= reader.changes

=============================================================================
