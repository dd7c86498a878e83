-------------------------- MODULE SearchPage_proofs --------------------------
(***************************************************************************)
(* Proofs about SearchPage: whatever is answered late, the page shows what *)
(* was asked for last.                                                     *)
(*                                                                         *)
(* Only the latest search can have a request under way; one that was       *)
(* superseded can do no more than wake up, return, and, if it is that of   *)
(* the link, stray.                                                        *)
(***************************************************************************)
EXTENDS SearchPage, TLAPS

Places == {"idle", "create", "poll", "sleep", "ended"}
Handlers == [pc : Places, wish : Filters, reply : 0..MaxSearches,
             job : 0..MaxSearches]
JobStates == [status : {"none", "active", "done", "failed"}, pages : 0..MaxPages]

LEMMA Numbers ==
  /\ MaxPages \in Nat \ {0} /\ MaxSearches \in Nat \ {0} /\ MaxFaults \in Nat
  /\ 1 \in Searches /\ NoJob = 0 /\ NoJob \in 0..MaxSearches /\ NoJob \notin Searches
  /\ 1 \in 1..MaxPages /\ 0 \in 0..MaxPages
  /\ Searches \subseteq 0..MaxSearches
BY PageAssumption DEF Searches, NoJob

LEMMA Parts ==
  ASSUME SearchInv
  PROVE  /\ TypeOK /\ HandlersInv /\ WishInv /\ PageInv
         /\ search \in [Searches -> Handlers] /\ jobs \in [Searches -> JobStates]
         /\ seq \in 0..MaxSearches
BY DEF SearchInv, TypeOK, Handlers, Places, JobStates

\* A handler at another place is the same handler.
LEMMA Moves ==
  ASSUME search \in [Searches -> Handlers], NEW n \in Searches, NEW p \in Places,
         Goto(n, p)
  PROVE  /\ search' \in [Searches -> Handlers]
         /\ \A m \in Searches :
              /\ search'[m].pc = IF m = n THEN p ELSE search[m].pc
              /\ search'[m].wish = search[m].wish
              /\ search'[m].reply = search[m].reply
              /\ search'[m].job = search[m].job
BY DEF Goto, Handlers

LEMMA SupersededIs ==
  ASSUME NEW h \in Handlers
  PROVE  /\ Superseded(h) \in Handlers
         /\ Superseded(h).pc = IF h.pc = "sleep" THEN "sleep" ELSE "ended"
         /\ Superseded(h).wish = h.wish
         /\ Superseded(h).reply = NoJob /\ Superseded(h).job = NoJob
BY Numbers DEF Superseded, Handlers, Places

\* The pages of a job that is shown.
LEMMA ApplyTypes ==
  ASSUME TypeOK, NEW j \in Searches, NEW p \in 1..MaxPages, Apply(j, p)
  PROVE  /\ shown' \in [job : 0..MaxSearches, page : 1..MaxPages]
         /\ total' \in 0..MaxPages
<1>1. jobs[j].pages \in 0..MaxPages /\ j \in 0..MaxSearches
  BY Numbers DEF TypeOK
<1> QED BY <1>1 DEF Apply

\* A search that returns asks for a page at most of a job there is.
LEMMA ReturnTypes ==
  ASSUME SearchInv, NEW n \in Searches, NEW p \in 1..MaxPages, Return(n, p)
  PROVE  /\ Goto(n, "ended")
         /\ search' \in [Searches -> Handlers]
         /\ page' \in 1..MaxPages
         /\ asking' \subseteq PageRequests
         /\ strayed' \in BOOLEAN
         /\ wanted' = wanted /\ missed' = missed
<1>1. Goto(n, "ended") /\ wanted' = wanted /\ missed' = missed
  BY DEF Return
<1>2. search' \in [Searches -> Handlers]
  BY <1>1, Parts, Moves DEF Places
<1>3. CASE Jumps(n)
  <2>1. link \in 1..MaxPages /\ current \in Searches
    <3>1. link > 0 /\ drawn > 0
      BY <1>3, Parts DEF Jumps, TypeOK
    <3>2. current # NoJob
      BY <3>1, Parts DEF PageInv
    <3>3. link \in 0..MaxPages /\ current \in 0..MaxSearches
      BY Parts DEF TypeOK
    <3> QED BY <3>1, <3>2, <3>3, PageAssumption DEF Searches, NoJob
  <2> QED BY <1>1, <1>2, <1>3, <2>1, Parts DEF Return, PageRequests, TypeOK
<1>4. CASE ~Jumps(n)
  BY <1>1, <1>2, <1>4, Parts DEF Return, TypeOK
<1> QED BY <1>3, <1>4

\* Only the latest search has a request under way, ...
LEMMA OnlyLatest ==
  ASSUME SearchInv, NEW n \in Searches, search[n].pc \in {"create", "poll"}
  PROVE  n = seq /\ state = "loading"
BY Parts DEF HandlersInv, Searches

\* ... and it does not jump when it returns: nothing is drawn yet.
LEMMA LatestStays ==
  ASSUME SearchInv, NEW n \in Searches, search[n].pc \in {"create", "poll"},
         NEW p, Return(n, p)
  PROVE  page' = p /\ asking' = asking /\ strayed' = strayed
<1>1. ~Jumps(n)
  BY OnlyLatest, Parts DEF Jumps, PageInv, TypeOK
<1> QED BY <1>1, Parts DEF Return, TypeOK

LEMMA InitHolds == Init => SearchInv
<1> SUFFICES ASSUME Init PROVE SearchInv
  OBVIOUS
<1>1. seq \in {0, 1} /\ seq \in 0..MaxSearches
  BY Numbers DEF Init, Searches
<1>2. /\ search \in [Searches -> Handlers]
      /\ \A n \in Searches :
           /\ search[n].wish = filters /\ search[n].reply = NoJob
           /\ search[n].job = NoJob
           /\ search[n].pc = IF n <= seq THEN "create" ELSE "idle"
  BY Numbers DEF Init, Started, Handlers, Places
<1>3. TypeOK
  <2>1. jobs \in [Searches -> JobStates]
    BY Numbers DEF Init, JobStates
  <2>2. shown \in [job : 0..MaxSearches, page : 1..MaxPages]
    BY Numbers DEF Init, Nothing
  <2>3. state \in {"idle", "loading"}
    BY DEF Init
  <2>4. /\ filters \in Filters /\ asking = {}
        /\ timer = FALSE /\ missed = FALSE /\ strayed = FALSE
    BY DEF Init
  <2>5. /\ link \in 0..MaxPages /\ current = 0 /\ total = 0 /\ page = 1 /\ drawn = 0
        /\ faults = 0 /\ wanted = 0
    BY Numbers DEF Init
  <2>6. 0 \in 0..MaxFaults
    BY Numbers
  <2> QED
    BY <1>1, <1>2, <2>1, <2>2, <2>3, <2>4, <2>5, <2>6, Numbers
    DEF TypeOK, Handlers, Places, JobStates
<1>4. HandlersInv
  BY <1>1, <1>2, Numbers DEF Init, HandlersInv, Searches
<1>5. WishInv
  BY <1>1, <1>2, Numbers DEF Init, WishInv, Known, Searches
<1>6. PageInv
  <2>1. state # "results"
    BY DEF Init
  <2> QED BY <2>1 DEF Init, PageInv, PageIsShown, PagesExist
<1> QED BY <1>3, <1>4, <1>5, <1>6 DEF SearchInv

-----------------------------------------------------------------------------
(* A new search.                                                           *)

LEMMA BeginKeeps ==
  ASSUME SearchInv, Begin, timer' \in BOOLEAN
  PROVE  SearchInv'
<1>1. seq' = seq + 1 /\ seq' \in Searches /\ seq \in 0..MaxSearches
  BY Parts, Numbers DEF Begin, Searches
<1>2. \A m \in Searches :
        /\ m = seq + 1 => search'[m] = Started(filters)
        /\ m <= seq => search'[m] = Superseded(search[m])
        /\ m > seq + 1 => search'[m] = search[m]
  BY <1>1 DEF Begin, Searches
<1>3. search' \in [Searches -> Handlers]
  <2>1. Started(filters) \in Handlers
    BY Parts, Numbers DEF Started, Handlers, Places, TypeOK
  <2>2. ASSUME NEW n \in Searches  PROVE Superseded(search[n]) \in Handlers
    BY Parts, SupersededIs
  <2> QED BY <2>1, <2>2, Parts DEF Begin
<1>4. \A n \in Searches :
        /\ n = seq' => /\ search'[n].pc = "create" /\ search'[n].wish = filters
                       /\ search'[n].reply = NoJob /\ search'[n].job = NoJob
        /\ n <= seq => /\ search'[n].pc = IF search[n].pc = "sleep" THEN "sleep"
                                          ELSE "ended"
                       /\ search'[n].wish = search[n].wish
                       /\ search'[n].reply = NoJob /\ search'[n].job = NoJob
        /\ n > seq' => search'[n] = search[n]
  <2> TAKE n \in Searches
  <2>1. CASE n = seq + 1
    BY <1>1, <1>2, <2>1, Numbers DEF Started, Searches
  <2>2. CASE n <= seq
    <3>1. search'[n] = Superseded(search[n])
      BY <1>2, <2>2
    <3>2. n # seq' /\ ~(n > seq')
      BY <1>1, <2>2, Numbers DEF Searches
    <3>3. search[n] \in Handlers
      BY Parts
    <3> QED BY <3>1, <3>2, <3>3, SupersededIs
  <2>3. CASE n > seq + 1
    <3>1. search'[n] = search[n]
      BY <1>2, <2>3
    <3>2. n # seq' /\ ~(n <= seq)
      BY <1>1, <2>3, Numbers DEF Searches
    <3> QED BY <3>1, <3>2
  <2> QED BY <1>1, <2>1, <2>2, <2>3 DEF Searches
<1>5. TypeOK'
  BY <1>1, <1>3, Parts, Numbers DEF Begin, TypeOK, Handlers, Places
<1>6. HandlersInv'
  BY <1>1, <1>4, Parts DEF Begin, HandlersInv, Searches
<1>7. WishInv'
  <2>1. \A m \in Searches : Known(m)' => m <= seq'
    BY <1>1, Parts DEF Begin, WishInv, Known, Searches
  <2>2. \A n \in Searches : n <= seq' =>
          {search'[n].reply, search'[n].job} \ {NoJob} = {}
    BY <1>1, <1>4 DEF Searches
  <2>3. search'[seq'].wish = filters'
    BY <1>1, <1>4 DEF Begin
  <2> QED BY <2>1, <2>2, <2>3 DEF WishInv
<1>8. PageInv'
  BY <1>1, Parts DEF Begin, PageInv, HandlersInv, PageIsShown, PagesExist
<1> QED BY <1>5, <1>6, <1>7, <1>8 DEF SearchInv

LEMMA ChangeFiltersKeeps ==
  ASSUME SearchInv, NEW f \in Filters, ChangeFilters(f)
  PROVE  SearchInv'
<1>1. /\ UNCHANGED <<link, seq, search, current, state, shown, total, page, drawn,
                     asking, jobs, faults, wanted, missed, strayed>>
      /\ filters' = f /\ timer' = (seq > 0)
  BY DEF ChangeFilters, screen, history
<1>2. TypeOK'
  BY <1>1, Parts DEF TypeOK
<1>3. HandlersInv'
  BY <1>1, Parts DEF HandlersInv
<1>4. WishInv'
  BY <1>1, Parts DEF WishInv, Known
<1>5. PageInv'
  BY <1>1, Parts DEF PageInv, PageIsShown, PagesExist, Asked
<1> QED BY <1>2, <1>3, <1>4, <1>5 DEF SearchInv

-----------------------------------------------------------------------------
(* The steps of a search.                                                  *)

LEMMA HandleKeeps ==
  ASSUME SearchInv, NEW n \in Searches, Handle(n)
  PROVE  SearchInv'
<1>1. UNCHANGED <<filters, timer, link, seq, current, state, shown, total, page,
                  drawn, asking, faults, wanted, missed, strayed>>
  BY DEF Handle, screen, history
<1>2. n = seq /\ search[n].pc = "create"
  BY OnlyLatest DEF Handle
<1>3. PICK j \in Searches :
        /\ search' = [search EXCEPT ![n].reply = j]
        /\ j <= seq /\ search[j].wish = search[n].wish
  <2>1. CASE search' = [search EXCEPT ![n].reply = n]
    <3>1. n <= seq
      BY <1>2, Numbers DEF Searches
    <3> QED BY <2>1, <3>1
  <2>2. CASE \E m \in Searches :
               /\ jobs[m].status = "active" /\ search[m].wish = search[n].wish
               /\ search' = [search EXCEPT ![n].reply = m]
    BY <2>2, Parts DEF WishInv, Known
  <2> QED BY <2>1, <2>2 DEF Handle
<1>4. /\ search' \in [Searches -> Handlers]
      /\ \A m \in Searches :
           /\ search'[m].pc = search[m].pc /\ search'[m].wish = search[m].wish
           /\ search'[m].job = search[m].job
           /\ search'[m].reply = IF m = n THEN j ELSE search[m].reply
  BY <1>3, Parts, Numbers DEF Handlers
<1>5. /\ jobs' \in [Searches -> JobStates]
      /\ \A m \in Searches : Known(m)' => Known(m) \/ m = n
  BY Parts DEF Handle, JobStates, Known
<1>6. TypeOK'
  BY <1>1, <1>4, <1>5, Parts DEF TypeOK, Handlers, Places, JobStates
<1>7. HandlersInv'
  BY <1>1, <1>2, <1>4, Parts DEF HandlersInv
<1>8. WishInv'
  BY <1>1, <1>2, <1>3, <1>4, <1>5, Parts DEF WishInv
<1>9. PageInv'
  <2>1. state \notin {"results", "empty"}
    BY <1>2, OnlyLatest
  <2> QED BY <1>1, <2>1, Parts DEF PageInv, PageIsShown, PagesExist, Asked
<1> QED BY <1>6, <1>7, <1>8, <1>9 DEF SearchInv

LEMMA CreatedKeeps ==
  ASSUME SearchInv, NEW n \in Searches, Created(n)
  PROVE  SearchInv'
<1>1. UNCHANGED <<filters, timer, link, seq, state, shown, total, page, drawn,
                  asking, jobs, faults, wanted, missed, strayed>>
  BY DEF Created, screen, history
<1>2. n = seq /\ state = "loading" /\ search[n].reply # NoJob
  BY OnlyLatest DEF Created
<1>3. current' = search[n].reply /\ current' \in 0..MaxSearches
  BY Parts DEF Created, Handlers
<1>4. /\ search' \in [Searches -> Handlers]
      /\ \A m \in Searches :
           /\ search'[m].wish = search[m].wish
           /\ m # n => search'[m] = search[m]
      /\ search'[n].pc = "poll" /\ search'[n].job = search[n].reply
      /\ search'[n].reply = NoJob
  BY Parts, Numbers DEF Created, Handlers, Places
<1>5. TypeOK'
  BY <1>1, <1>3, <1>4, Parts DEF TypeOK, Handlers, Places
<1>6. HandlersInv'
  BY <1>1, <1>2, <1>3, <1>4, Parts DEF HandlersInv, Searches
<1>7. WishInv'
  <2>1. ASSUME NEW m \in Searches, m <= seq,
               NEW i \in {search'[m].reply, search'[m].job} \ {NoJob}
        PROVE  i <= seq /\ search'[i].wish = search'[m].wish
    <3>1. i \in {search[m].reply, search[m].job} \ {NoJob}
      BY <1>4, <2>1
    <3>2. i <= seq /\ search[i].wish = search[m].wish
      BY <2>1, <3>1, Parts DEF WishInv
    <3>3. i \in Searches
      <4>1. search[m].reply \in 0..MaxSearches /\ search[m].job \in 0..MaxSearches
        BY Parts DEF Handlers
      <4> QED BY <3>1, <4>1, Numbers DEF Searches
    <3> QED BY <1>4, <3>2, <3>3
  <2>2. seq > 0 /\ ~timer => search'[seq].wish = filters
    BY <1>2, <1>4, Parts DEF WishInv
  <2>3. \A m \in Searches : Known(m)' => m <= seq
    BY <1>1, Parts DEF WishInv, Known
  <2> QED BY <1>1, <2>1, <2>2, <2>3 DEF WishInv
<1>8. PageInv'
  BY <1>1, <1>2, <1>3, Parts DEF PageInv, PageIsShown, PagesExist
<1> QED BY <1>5, <1>6, <1>7, <1>8 DEF SearchInv

\* What an invariant needs of jobs and wishes if handlers only move.
LEMMA MovesWish ==
  ASSUME SearchInv, NEW n \in Searches, NEW p \in Places, Goto(n, p),
         UNCHANGED <<filters, timer, seq, jobs>>
  PROVE  WishInv'
<1>1. \A m \in Searches :
        /\ search'[m].wish = search[m].wish
        /\ search'[m].reply = search[m].reply
        /\ search'[m].job = search[m].job
  BY Parts, Moves
<1>2. WishInv'
  <2>1. ASSUME NEW m \in Searches, m <= seq,
               NEW i \in {search'[m].reply, search'[m].job} \ {NoJob}
        PROVE  i <= seq /\ search'[i].wish = search'[m].wish
    <3>1. i \in {search[m].reply, search[m].job} \ {NoJob}
      BY <1>1, <2>1
    <3>2. i <= seq /\ search[i].wish = search[m].wish
      BY <2>1, <3>1, Parts DEF WishInv
    <3>3. i \in Searches
      <4>1. search[m].reply \in 0..MaxSearches /\ search[m].job \in 0..MaxSearches
        BY Parts DEF Handlers
      <4> QED BY <3>1, <4>1, Numbers DEF Searches
    <3> QED BY <1>1, <3>2, <3>3
  <2>2. seq > 0 /\ ~timer => search'[seq].wish = filters
    <3> HAVE seq > 0 /\ ~timer
    <3>1. seq \in Searches
      BY Parts, Numbers DEF Searches
    <3> QED BY <1>1, <3>1, Parts DEF WishInv
  <2>3. \A m \in Searches : Known(m)' => m <= seq
    BY Parts DEF WishInv, Known
  <2> QED BY <2>1, <2>2, <2>3 DEF WishInv
<1> QED BY <1>2

\* The latest search fails: there is nothing to show.
LEMMA ErrorKeeps ==
  ASSUME SearchInv, NEW n \in Searches, search[n].pc \in {"create", "poll"},
         Error(n), faults' \in 0..MaxFaults,
         UNCHANGED <<filters, timer, link, seq, current, drawn, jobs>>
  PROVE  SearchInv'
<1>1. n = seq /\ state = "loading" /\ page \in 1..MaxPages
  BY OnlyLatest, Parts DEF TypeOK
<1>2. /\ Return(n, page) /\ state' = "error" /\ shown' = Nothing /\ total' = 0
  BY DEF Error
<1>3. page' = page /\ asking' = asking /\ strayed' = strayed
  BY <1>2, LatestStays
<1>4. /\ Goto(n, "ended") /\ search' \in [Searches -> Handlers]
      /\ wanted' = wanted /\ missed' = missed
  BY <1>1, <1>2, ReturnTypes
<1>5. \A m \in Searches : search'[m].pc = IF m = n THEN "ended" ELSE search[m].pc
  BY <1>4, Parts, Moves DEF Places
<1>6. TypeOK'
  <2>1. shown' \in [job : 0..MaxSearches, page : 1..MaxPages]
    BY <1>2, Numbers DEF Nothing
  <2>2. total' \in 0..MaxPages /\ state' = "error"
    BY <1>2, Numbers
  <2> QED BY <1>3, <1>4, <2>1, <2>2, Parts DEF TypeOK, Handlers, Places
<1>7. HandlersInv'
  BY <1>1, <1>2, <1>5, Parts, Numbers DEF HandlersInv, Searches
<1>8. WishInv'
  BY <1>4, MovesWish DEF Places
<1>9. PageInv'
  BY <1>1, <1>2, <1>3, <1>4, Parts DEF PageInv, PageIsShown, PagesExist
<1> QED BY <1>6, <1>7, <1>8, <1>9 DEF SearchInv

LEMMA CreateFailsKeeps ==
  ASSUME SearchInv, NEW n \in Searches, CreateFails(n)
  PROVE  SearchInv'
<1>1. faults' \in 0..MaxFaults
  BY Parts, Numbers DEF CreateFails, Faulty, TypeOK
<1> QED BY <1>1, ErrorKeeps DEF CreateFails

LEMMA PollEndsKeeps ==
  ASSUME SearchInv, NEW n \in Searches, PollEnds(n)
  PROVE  SearchInv'
<1> DEFINE j == search[n].job
<1>1. /\ n = seq /\ state = "loading" /\ search[n].pc = "poll"
      /\ j = current /\ j # NoJob
  BY OnlyLatest, Parts, Numbers DEF PollEnds, HandlersInv, Searches
<1>2. j \in Searches
  <2>1. current \in 0..MaxSearches
    BY Parts DEF TypeOK
  <2> QED BY <1>1, <2>1, Numbers DEF Searches
<1>3. UNCHANGED <<filters, timer, link, seq, current, drawn, jobs, faults>>
  BY DEF PollEnds
<1>4. CASE Error(n)
  <2>1. faults' \in 0..MaxFaults
    BY <1>3, Parts DEF TypeOK
  <2> QED BY <1>1, <1>3, <1>4, <2>1, ErrorKeeps
<1>5. CASE Apply(j, 1) /\ Return(n, 1) /\ state' \in {"results", "empty"}
  <2>1. page' = 1 /\ asking' = asking /\ strayed' = strayed
    BY <1>1, <1>5, LatestStays
  <2>2. /\ Goto(n, "ended") /\ search' \in [Searches -> Handlers]
        /\ wanted' = wanted /\ missed' = missed
    BY <1>5, ReturnTypes, Numbers
  <2>3. \A m \in Searches :
          /\ search'[m].pc = IF m = n THEN "ended" ELSE search[m].pc
          /\ search'[m].job = search[m].job
    BY <2>2, Parts, Moves DEF Places
  <2>4. /\ shown' \in [job : 0..MaxSearches, page : 1..MaxPages]
        /\ total' \in 0..MaxPages
    BY <1>2, <1>5, Parts, Numbers, ApplyTypes
  <2>5. TypeOK'
    BY <1>3, <1>5, <2>1, <2>2, <2>4, Parts, Numbers DEF TypeOK, Handlers, Places
  <2>6. HandlersInv'
    BY <1>1, <1>3, <1>5, <2>3, Parts, Numbers DEF HandlersInv, Searches
  <2>7. WishInv'
    BY <1>3, <2>2, MovesWish DEF Places
  <2>8. shown'.job = current /\ shown'.page = 1
    BY <1>1, <1>5 DEF Apply
  <2>9. PageInv'
    <3>1. wanted = 0
      BY <1>1, Parts DEF PageInv
    <3>2. /\ current' # NoJob /\ state' \notin {"idle", "loading"}
          /\ wanted' = 0 /\ Asked' = 1
      BY <1>1, <1>3, <1>5, <2>2, <3>1 DEF Asked
    <3>3. strayed' => seq' > 1
      BY <1>3, <2>1, Parts DEF PageInv
    <3>4. ~strayed' => asking' = {}
      BY <1>1, <2>1, Parts DEF PageInv
    <3>5. PageIsShown'
      BY <2>1, <2>8, <3>2 DEF PageIsShown
    <3>6. state' = "results" =>
            /\ jobs'[current'].status = "done" /\ jobs'[current'].pages = total'
            /\ total' > 0
      BY <1>1, <1>3, <1>5, <2>4, Numbers DEF PollEnds, Error, Apply, Over
    <3>7. total' \in Nat /\ (state' = "results" => Asked' <= total')
      BY <2>4, <3>2, <3>6, Numbers
    <3>8. PagesExist'
      BY <2>1, <2>8, <3>6, <3>7 DEF PagesExist
    <3> QED
      BY <1>3, <2>8, <3>2, <3>3, <3>4, <3>5, <3>6, <3>7, <3>8 DEF PageInv
  <2> QED BY <2>5, <2>6, <2>7, <2>9 DEF SearchInv
<1> QED BY <1>4, <1>5 DEF PollEnds

LEMMA PollGoesOnKeeps ==
  ASSUME SearchInv, NEW n \in Searches, PollGoesOn(n)
  PROVE  SearchInv'
<1>1. /\ UNCHANGED <<filters, timer, link, seq, current, state, shown, total, page,
                     drawn, asking, jobs, wanted, missed, strayed>>
      /\ Goto(n, "sleep") /\ faults' \in 0..MaxFaults
  BY Parts, Numbers DEF PollGoesOn, Faulty, TypeOK, screen, history
<1>2. n = seq /\ state = "loading" /\ search[n].pc = "poll"
  BY OnlyLatest DEF PollGoesOn
<1>3. /\ search' \in [Searches -> Handlers]
      /\ \A m \in Searches :
           /\ search'[m].pc = IF m = n THEN "sleep" ELSE search[m].pc
           /\ search'[m].job = search[m].job
  BY <1>1, Parts, Moves DEF Places
<1>4. TypeOK'
  BY <1>1, <1>3, Parts DEF TypeOK, Handlers, Places
<1>5. HandlersInv'
  BY <1>1, <1>2, <1>3, Parts, Numbers DEF HandlersInv, Searches
<1>6. WishInv'
  BY <1>1, MovesWish DEF Places
<1>7. PageInv'
  BY <1>1, Parts DEF PageInv, PageIsShown, PagesExist, Asked
<1> QED BY <1>4, <1>5, <1>6, <1>7 DEF SearchInv

LEMMA WakeKeeps ==
  ASSUME SearchInv, NEW n \in Searches, Wake(n)
  PROVE  SearchInv'
<1>1. /\ UNCHANGED <<filters, timer, link, seq, current, state, shown, total, drawn,
                     jobs, faults>>
      /\ search[n].pc = "sleep"
  BY DEF Wake
<1>2. CASE n = seq
  <2>1. Goto(n, "poll") /\ UNCHANGED <<page, asking, wanted, missed, strayed>>
    BY <1>2 DEF Wake, history
  <2>2. /\ search' \in [Searches -> Handlers]
        /\ \A m \in Searches :
             /\ search'[m].pc = IF m = n THEN "poll" ELSE search[m].pc
             /\ search'[m].job = search[m].job
    BY <2>1, Parts, Moves DEF Places
  <2>3. TypeOK'
    BY <1>1, <2>1, <2>2, Parts DEF TypeOK, Handlers, Places
  <2>4. HandlersInv'
    BY <1>1, <1>2, <2>2, Parts, Numbers DEF HandlersInv, Searches
  <2>5. WishInv'
    BY <1>1, <2>1, MovesWish DEF Places
  <2>6. PageInv'
    BY <1>1, <2>1, Parts DEF PageInv, PageIsShown, PagesExist, Asked
  <2> QED BY <2>3, <2>4, <2>5, <2>6 DEF SearchInv
<1>3. CASE n # seq
  <2>1. n < seq /\ page \in 1..MaxPages /\ Return(n, page)
    <3>1. ~(n > seq)
      BY <1>1, Parts DEF HandlersInv
    <3>2. n < seq
      BY <1>3, <3>1, Parts, Numbers DEF Searches
    <3> QED BY <1>3, <3>2, Parts DEF TypeOK, Wake
  <2>2. /\ Goto(n, "ended") /\ search' \in [Searches -> Handlers]
        /\ page' \in 1..MaxPages /\ asking' \subseteq PageRequests
        /\ strayed' \in BOOLEAN /\ wanted' = wanted /\ missed' = missed
    BY <2>1, ReturnTypes
  <2>3. \A m \in Searches :
          /\ search'[m].pc = IF m = n THEN "ended" ELSE search[m].pc
          /\ search'[m].job = search[m].job
    BY <2>2, Parts, Moves DEF Places
  <2>4. TypeOK'
    BY <1>1, <2>2, Parts DEF TypeOK, Handlers, Places
  <2>5. HandlersInv'
    <3>1. seq \in Searches /\ ~(n > seq)
      BY <2>1, Parts, Numbers DEF Searches
    <3>2. search'[seq].pc = search[seq].pc /\ search'[seq].job = search[seq].job
      BY <1>3, <2>3, <3>1
    <3>3. \A m \in Searches :
            /\ search'[m].pc = "idle" <=> m > seq
            /\ m < seq => search'[m].pc \in {"sleep", "ended"}
      BY <2>3, <3>1, Parts DEF HandlersInv
    <3> QED BY <1>1, <3>2, <3>3, Parts DEF HandlersInv
  <2>6. WishInv'
    BY <1>1, <2>2, MovesWish DEF Places
  <2>7. PageInv'
    <3>1. seq > 1
      BY <2>1, Parts, Numbers DEF Searches
    <3>2. CASE Jumps(n)
      <4>1. strayed'
        BY <1>3, <3>2, <2>1 DEF Return
      <4>2. drawn > 0
        BY <3>2, Parts DEF Jumps, TypeOK
      <4>3. current # NoJob
        BY <4>2, Parts DEF PageInv
      <4> QED BY <1>1, <2>2, <3>1, <4>1, <4>3, Parts DEF PageInv
    <3>3. CASE ~Jumps(n)
      <4>1. UNCHANGED <<page, asking, strayed>>
        BY <2>1, <3>3, Parts DEF Return, TypeOK
      <4> QED BY <1>1, <2>2, <4>1, Parts DEF PageInv, PageIsShown, PagesExist, Asked
    <3> QED BY <3>2, <3>3
  <2> QED BY <2>4, <2>5, <2>6, <2>7 DEF SearchInv
<1> QED BY <1>2, <1>3

LEMMA JobEndsKeeps ==
  ASSUME SearchInv, NEW n \in Searches, JobEnds(n)
  PROVE  SearchInv'
<1>1. UNCHANGED <<filters, timer, link, seq, search, current, state, shown, total,
                  page, drawn, asking, faults, wanted, missed, strayed>>
  BY DEF JobEnds, screen, history
<1>2. jobs' \in [Searches -> JobStates] /\ \A m \in Searches : Known(m)' => Known(m)
  <2>1. CASE \E k \in 0..MaxPages :
               jobs' = [jobs EXCEPT ![n] = [status |-> "done", pages |-> k]]
    BY <2>1, Parts DEF JobEnds, JobStates, Known
  <2>2. CASE jobs' = [jobs EXCEPT ![n].status = "failed"]
    BY <2>2, Parts DEF JobEnds, JobStates, Known
  <2> QED BY <2>1, <2>2 DEF JobEnds
<1>3. TypeOK'
  BY <1>1, <1>2, Parts DEF TypeOK, JobStates
<1>4. HandlersInv'
  BY <1>1, Parts DEF HandlersInv
<1>5. WishInv'
  BY <1>1, <1>2, Parts DEF WishInv
<1>6. PageInv'
  <2>1. ASSUME NEW m \in Searches, jobs[m].status = "done"
        PROVE  jobs'[m] = jobs[m]
    <3>1. m # n
      BY <2>1 DEF JobEnds
    <3> QED BY <3>1, Parts DEF JobEnds
  <2>2. state = "results" => current \in Searches
    <3>1. current \in 0..MaxSearches /\ (state = "results" => current # NoJob)
      BY Parts DEF HandlersInv, TypeOK
    <3> QED BY <3>1, Numbers DEF Searches
  <2> QED BY <1>1, <2>1, <2>2, Parts DEF PageInv, PageIsShown, PagesExist, Asked
<1> QED BY <1>3, <1>4, <1>5, <1>6 DEF SearchInv

-----------------------------------------------------------------------------
(* Pages.                                                                  *)

LEMMA DrawKeeps ==
  ASSUME SearchInv, Draw
  PROVE  SearchInv'
<1>1. /\ UNCHANGED <<filters, timer, link, seq, search, current, state, shown, total,
                     page, asking, jobs, faults, wanted, missed, strayed>>
      /\ drawn' = total
  BY DEF Draw, screen, history
<1>2. TypeOK'
  BY <1>1, Parts DEF TypeOK
<1>3. HandlersInv'
  BY <1>1, Parts DEF HandlersInv
<1>4. WishInv'
  BY <1>1, Parts DEF WishInv, Known
<1>5. PageInv'
  BY <1>1, Parts DEF PageInv, PageIsShown, PagesExist, Asked
<1> QED BY <1>2, <1>3, <1>4, <1>5 DEF SearchInv

LEMMA TurnToKeeps ==
  ASSUME SearchInv, NEW p \in 0..(MaxPages + 1), TurnTo(p)
  PROVE  SearchInv'
<1>1. UNCHANGED <<filters, timer, link, seq, search, current, state, shown, total,
                  drawn, jobs, faults, strayed>>
  BY DEF TurnTo
<1>2. /\ state = "results" /\ page' = Clamped(p) /\ wanted' = Clamped(p)
      /\ missed' = FALSE
      /\ asking' = {[job |-> current, page |-> Clamped(p)]}
  BY DEF TurnTo
<1>3. Clamped(p) \in 1..MaxPages
  <2>1. total > 1 /\ total \in 0..MaxPages
    BY Parts DEF TurnTo, TypeOK
  <2> QED BY <2>1, Numbers DEF Clamped
<1>4. current \in Searches
  <2>1. current # NoJob /\ current \in 0..MaxSearches
    BY <1>2, Parts DEF HandlersInv, TypeOK
  <2> QED BY <2>1, Numbers DEF Searches
<1>5. TypeOK'
  <2>1. asking' \subseteq PageRequests
    BY <1>2, <1>3, <1>4 DEF PageRequests
  <2>2. page' \in 1..MaxPages /\ wanted' \in 0..MaxPages
    BY <1>2, <1>3, Numbers
  <2> QED BY <1>1, <1>2, <2>1, <2>2, Parts DEF TypeOK
<1>6. HandlersInv'
  BY <1>1, Parts DEF HandlersInv
<1>7. WishInv'
  BY <1>1, Parts DEF WishInv, Known
<1>8. PageInv'
  <2>1. Asked' = Clamped(p)
    BY <1>2, <1>3 DEF Asked
  <2>2. asking' # {}
    BY <1>2
  <2>3. Clamped(p) \in 1..total
    BY Parts DEF TurnTo, TypeOK, Clamped
  <2>4. ~strayed => shown.page \in 1..total
    BY <1>2, Parts DEF PageInv, PagesExist
  <2>5. (~strayed => PagesExist)'
    BY <1>1, <1>2, <2>3, <2>4 DEF PagesExist
  <2>6. Asked' <= total
    BY <2>1, <2>3, Parts DEF TypeOK
  <2> QED
    BY <1>1, <1>2, <1>4, <2>1, <2>2, <2>5, <2>6, Numbers, Parts
    DEF PageInv, PageIsShown
<1> QED BY <1>5, <1>6, <1>7, <1>8 DEF SearchInv

LEMMA PageArrivesKeeps ==
  ASSUME SearchInv, NEW r \in PageRequests, PageArrives(r)
  PROVE  SearchInv'
<1>1. UNCHANGED <<filters, timer, link, seq, search, current, state, drawn, jobs,
                  faults, wanted, missed, strayed>>
  BY DEF PageArrives, history
<1>2. /\ r \in asking /\ asking' = asking \ {r} /\ page' = r.page
      /\ Apply(r.job, r.page)
      /\ r.job \in Searches /\ r.page \in 1..MaxPages
  BY DEF PageArrives, PageRequests
<1>3. TypeOK'
  <2>1. /\ shown' \in [job : 0..MaxSearches, page : 1..MaxPages]
        /\ total' \in 0..MaxPages
    BY <1>2, Parts, ApplyTypes
  <2> QED BY <1>1, <1>2, <2>1, Parts DEF TypeOK
<1>4. HandlersInv'
  BY <1>1, Parts DEF HandlersInv
<1>5. WishInv'
  BY <1>1, Parts DEF WishInv, Known
<1>6. PageInv'
  <2>1. CASE strayed
    BY <1>1, <1>2, <2>1, Parts DEF PageInv
  <2>2. CASE ~strayed
    <3>1. /\ state = "results" /\ current # NoJob
          /\ r = [job |-> current, page |-> Asked]
          /\ asking' = {}
      BY <1>2, <2>2, Parts DEF PageInv
    <3>2. shown' = r
      BY <1>2, <3>1 DEF Apply
    <3>3. Asked' = Asked
      BY <1>1 DEF Asked
    <3>4. /\ jobs[current].status = "done" /\ jobs[current].pages = total
          /\ total' = total /\ Asked <= total /\ total > 0
      BY <1>2, <2>2, <3>1, Parts DEF PageInv, Apply
    <3>5. Asked \in 1..total
      BY <1>2, <3>1, <3>4, Numbers, Parts DEF TypeOK
    <3>6. PagesExist'
      BY <1>2, <3>1, <3>2, <3>4, <3>5 DEF PagesExist
    <3> QED
      BY <1>1, <1>2, <2>2, <3>1, <3>2, <3>3, <3>4, <3>6 DEF PageInv, PageIsShown
  <2> QED BY <2>1, <2>2
<1> QED BY <1>3, <1>4, <1>5, <1>6 DEF SearchInv

LEMMA PageFailsKeeps ==
  ASSUME SearchInv, NEW r \in PageRequests, PageFails(r)
  PROVE  SearchInv'
<1>1. /\ UNCHANGED <<filters, timer, link, seq, search, current, state, shown, total,
                     page, drawn, jobs, wanted, strayed>>
      /\ asking' = asking \ {r} /\ missed' = TRUE
  BY DEF PageFails, screen
<1>2. faults' \in 0..MaxFaults
  BY Parts, Numbers DEF PageFails, Faulty, TypeOK
<1>3. TypeOK'
  BY <1>1, <1>2, Parts DEF TypeOK
<1>4. HandlersInv'
  BY <1>1, Parts DEF HandlersInv
<1>5. WishInv'
  BY <1>1, Parts DEF WishInv, Known
<1>6. PageInv'
  BY <1>1, Parts DEF PageInv, PageIsShown, PagesExist, Asked
<1> QED BY <1>3, <1>4, <1>5, <1>6 DEF SearchInv

-----------------------------------------------------------------------------
(* Theorems.                                                               *)

LEMMA NextKeeps == SearchInv /\ [Next]_vars => SearchInv'
<1> SUFFICES ASSUME SearchInv, [Next]_vars PROVE SearchInv'
  OBVIOUS
<1>1. CASE Submit
  <2>1. timer' \in BOOLEAN
    BY <1>1, Parts DEF Submit, TypeOK
  <2> QED BY <1>1, <2>1, BeginKeeps DEF Submit
<1>2. CASE Debounced
  <2>1. timer' \in BOOLEAN
    BY <1>2 DEF Debounced
  <2> QED BY <1>2, <2>1, BeginKeeps DEF Debounced
<1>3. CASE Draw
  BY <1>3, DrawKeeps
<1>4. CASE \E f \in Filters : ChangeFilters(f)
  BY <1>4, ChangeFiltersKeeps
<1>5. ASSUME NEW n \in Searches, Step(n)  PROVE SearchInv'
  BY <1>5, HandleKeeps, CreatedKeeps, PollEndsKeeps, PollGoesOnKeeps, WakeKeeps
  DEF Step
<1>6. ASSUME NEW n \in Searches, CreateFails(n) \/ JobEnds(n)  PROVE SearchInv'
  BY <1>6, CreateFailsKeeps, JobEndsKeeps
<1>7. CASE \E p \in 0..(MaxPages + 1) : TurnTo(p)
  BY <1>7, TurnToKeeps
<1>8. CASE \E r \in PageRequests : PageArrives(r) \/ PageFails(r)
  BY <1>8, PageArrivesKeeps, PageFailsKeeps
<1>9. CASE UNCHANGED vars
  <2>1. UNCHANGED <<filters, timer, link, seq, search, current, state, shown, total,
                    page, drawn, asking, jobs, faults, wanted, missed, strayed>>
    BY <1>9 DEF vars, screen, history
  <2> QED
    BY <2>1, Parts
    DEF SearchInv, TypeOK, HandlersInv, WishInv, Known, PageInv, PageIsShown, PagesExist, Asked
<1> QED BY <1>1, <1>2, <1>3, <1>4, <1>5, <1>6, <1>7, <1>8, <1>9 DEF Next

\* The inductive invariant holds.
THEOREM SearchInvHolds == Spec => []SearchInv
BY InitHolds, NextKeeps, PTL DEF Spec

\* Every variable of the page has its type.
THEOREM TypesHold == Spec => []TypeOK
<1>1. SearchInv => TypeOK
  BY DEF SearchInv
<1> QED BY <1>1, SearchInvHolds, PTL

\* Whatever is answered late, results on the screen are of the latest search
\* (the sequence numbers and aborts of App.tsx:256-377), but for strays.
THEOREM LatestIsShown == Spec => []ShownIsLatest
<1>1. SearchInv => ShownIsLatest
  BY Parts DEF PageInv, HandlersInv, ShownIsLatest
<1> QED BY <1>1, SearchInvHolds, PTL

\* The job on the screen was made for the filters that are set, or the search
\* with them is due (the debounced effect of App.tsx:381-394), even if the
\* server attached the search to a job of an earlier one; but for strays.
THEOREM FiltersAreApplied == Spec => []FiltersApply
<1>1. ASSUME SearchInv, state \in {"results", "empty"}, ~timer, ~strayed
      PROVE  search[shown.job].wish = filters
  <2>1. seq \in Searches /\ search[seq].job # NoJob
    BY <1>1, Parts, Numbers DEF HandlersInv, Searches
  <2>2. search[search[seq].job].wish = search[seq].wish
    BY <2>1, <1>1, Parts DEF WishInv
  <2>3. shown.job = search[seq].job
    BY <1>1, Parts DEF PageInv, HandlersInv
  <2> QED BY <1>1, <2>1, <2>2, <2>3, Parts, Numbers DEF WishInv, Searches
<1>2. SearchInv => FiltersApply
  BY <1>1 DEF FiltersApply
<1> QED BY <1>2, SearchInvHolds, PTL

\* No page is shown or marked but one that the results have: what the link
\* names is checked against the total (App.tsx:398-408), what is turned to is
\* clamped to it (421-424), and the total is that of a job that has ended; but
\* for strays.
THEOREM NoPageIsInvented == Spec => []PagesExist
<1>1. SearchInv => PagesExist
  BY Parts DEF PageInv, PagesExist
<1> QED BY <1>1, SearchInvHolds, PTL

\* Pages turned in quick succession end at the last one asked for
\* (pageAbortRef of App.tsx:238-240), but for a failure of its own request.
THEOREM LastPageIsShown == Spec => []PageIsShown
<1>1. SearchInv => PageIsShown
  BY Parts DEF PageInv, PageIsShown, PagesExist
<1> QED BY <1>1, SearchInvHolds, PTL
=============================================================================
