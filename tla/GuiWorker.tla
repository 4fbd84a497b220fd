----------------------------- MODULE GuiWorker -----------------------------
(***************************************************************************)
(* The desktop client: clicks start worker threads, each sends one event,  *)
(* and App::poll applies the events in the order they come                 *)
(* (crates/quarkdrive-gui/src/app.rs; ui.rs for which clicks are possible  *)
(* when, api.rs for the requests).                                         *)
(*                                                                         *)
(* An event does not say which request it answers; here a job carries the  *)
(* vault and the place it was asked for, so that what is on the screen can *)
(* be compared with what is open.  Of a listing, a timeline or a picture   *)
(* only where it came from is kept.                                        *)
(***************************************************************************)
EXTENDS Naturals, Bags, FiniteSets

CONSTANTS
    GuiVault,           \* names of vaults
    NoPick,             \* no vault is picked (App.vault is None)
    Folder,             \* directories other than the top
    Top,                \* the top directory
    Cell,               \* photos of a timeline
    MAX_THUMB_JOBS,
    MaxClicks           \* bound: clicks that start a worker or change what is open

ASSUME GuiAssumption ==
    NoPick \notin GuiVault /\ Top \notin Folder /\ MAX_THUMB_JOBS \in Nat \ {0} /\ MaxClicks \in Nat

VARIABLES
    signedIn,   \* App.api is Some
    totpAsked,  \* App.pending_totp is Some
    gvault,     \* App.vault
    open,       \* App.listing and App.cwd: [search, dir]
    shown,      \* where App.entries came from: a set of at most one [vault, search, dir]
    photos,     \* where App.photos came from
    preview,    \* where App.preview came from
    thumbs,     \* App.thumbs: a set of [vault, cell]
    thumbPending, thumbFailed,   \* cells
    thumbJobs, busy,
    jobs,       \* the bag of workers whose events were not applied: [what, vault, at]
    armed,      \* where App.delete_arm was armed
    clicks,
    overtaken,  \* history: something else was opened before an answer came, or none came
    died        \* history: a worker panicked, and sent no event

sessionVars == <<signedIn, totpAsked, gvault, open, armed>>
screenVars  == <<shown, photos, preview, thumbs, thumbPending, thumbFailed>>
guiVars     == <<sessionVars, screenVars, thumbJobs, busy, jobs, clicks, overtaken, died>>

AtTop == [search |-> FALSE, dir |-> Top]

GuiInit ==
    /\ signedIn = FALSE /\ totpAsked = FALSE /\ gvault = NoPick /\ open = AtTop /\ armed = NoPick
    /\ shown = {} /\ photos = NoPick /\ preview = NoPick
    /\ thumbs = {} /\ thumbPending = {} /\ thumbFailed = {}
    /\ thumbJobs = 0 /\ busy = 0 /\ jobs = EmptyBag /\ clicks = 0
    /\ overtaken = FALSE /\ died = FALSE

-----------------------------------------------------------------------------
Job(what, v, at) == [what |-> what, vault |-> v, at |-> at]

\* What a worker asks the server for.
StatusRequest      == Job("status", NoPick, AtTop)
LoginRequest       == Job("login", NoPick, AtTop)
VaultsRequest      == Job("vaults", NoPick, AtTop)
ListRequest(v, o)  == Job("list", v, [o EXCEPT !.search = FALSE])
SearchRequest(v)   == Job("search", v, [open EXCEPT !.search = TRUE])
StatsRequest(v)    == Job("stats", v, AtTop)
ChangeRequest(v)   == Job("change", v, AtTop)
DeleteRequest(v)   == Job("delete", v, AtTop)
DownloadRequest(v) == Job("get", v, AtTop)
PreviewRequest(v)  == Job("preview", v, AtTop)
TimelineRequest(v) == Job("timeline", v, AtTop)
ThumbRequest(v, c) == Job("thumb", v, c)

\* Jobs whose event changes what is on the screen, and those that list.
Listings(bag) == {j \in DOMAIN bag : j.what \in {"list", "search"}}
Showing(bag)  == {j \in DOMAIN bag : j.what \in {"list", "search", "timeline", "thumb", "preview"}}

Click == clicks < MaxClicks /\ clicks' = clicks + 1

\* App::spawn, once for each of the jobs.
Spawn(new) ==
    /\ jobs' = jobs (+) SetToBag(new)
    /\ busy' = busy + Cardinality(new)
    /\ UNCHANGED <<thumbJobs, died>>

SpawnOne(j) == Spawn({j})

\* App::refresh, which shows the directory also when a search is open.
RefreshJobs(v, o) == {ListRequest(v, o), StatsRequest(v)}

\* A change of vault that leaves the pictures of the last one.
WipedKept == UNCHANGED <<photos, preview, thumbs, thumbPending, thumbFailed>>

\* What logout and pick_vault clear of the screen.
Wiped == photos' = NoPick /\ preview' = NoPick /\ thumbs' = {} /\ thumbPending' = {} /\ thumbFailed' = {}

\* App::pick_vault, by a click or by the first answer of a session.  A delete that
\* is armed stays armed, as it does over a sign-out.
Pick(v, left) ==
    /\ gvault' = v /\ open' = AtTop
    /\ Wiped
    /\ UNCHANGED <<shown, armed, thumbJobs, died>>
    /\ jobs' = left (+) SetToBag(RefreshJobs(v, AtTop))
    /\ overtaken' = (overtaken \/ Showing(left) # {})

-----------------------------------------------------------------------------
(***************************************************************************)
(* Clicks.                                                                 *)
(***************************************************************************)
\* What is drawn: the sign-in form, the top bar, the files or photos of a vault,
\* the rows of a listing, the grid of photos.  Most buttons wait for busy to be
\* zero.
SignInShown == ~signedIn
TopBarShown == signedIn
InVault     == signedIn /\ gvault # NoPick
RowsShown   == InVault /\ shown # {}
GridShown   == InVault /\ photos # NoPick /\ preview = NoPick
Enabled     == busy = 0

\* check_status, by the first frame and when the server was typed anew.
CheckStatus ==
    /\ SignInShown /\ Click
    /\ SpawnOne(StatusRequest)
    /\ UNCHANGED <<sessionVars, screenVars, overtaken>>

\* primary: sign_in, sign_in_totp or sign_up.
SignIn ==
    /\ SignInShown /\ Enabled /\ Click
    /\ SpawnOne(LoginRequest)
    /\ UNCHANGED <<sessionVars, screenVars, overtaken>>

Logout ==
    /\ TopBarShown /\ Click
    /\ signedIn' = FALSE /\ totpAsked' = FALSE /\ gvault' = NoPick /\ open' = AtTop
    /\ shown' = {} /\ Wiped
    /\ overtaken' = (overtaken \/ Showing(jobs) # {})
    /\ UNCHANGED <<armed, thumbJobs, busy, jobs, died>>

PickVault == \E v \in GuiVault \ {gvault} :
    /\ TopBarShown /\ Click
    /\ Pick(v, jobs)
    /\ busy' = busy + 2
    /\ UNCHANGED <<signedIn, totpAsked>>

CreateVault ==
    /\ TopBarShown /\ gvault = NoPick /\ Click
    /\ SpawnOne(VaultsRequest)
    /\ UNCHANGED <<sessionVars, screenVars, overtaken>>

\* The directory whose listing open_dir asks for.
AskedForStale(d) == [search |-> FALSE, dir |-> open.dir]
AskedFor(d) == [search |-> FALSE, dir |-> d]

\* What a breadcrumb, "Up", an entry or "Back to files" names.
Openable == Folder \cup {Top}

\* open_dir, up and close_search; possible while others are at work.
OpenDir == \E d \in Openable :
    /\ InVault /\ Click
    /\ open' = [search |-> FALSE, dir |-> d] /\ armed' = NoPick
    /\ SpawnOne(ListRequest(gvault, AskedFor(d)))
    /\ overtaken' = (overtaken \/ Listings(jobs) # {})
    /\ UNCHANGED <<signedIn, totpAsked, gvault, screenVars>>

DoSearch ==
    /\ InVault /\ Click
    /\ open' = [open EXCEPT !.search = TRUE]
    /\ SpawnOne(SearchRequest(gvault))
    /\ overtaken' = (overtaken \/ Listings(jobs) # {})
    /\ UNCHANGED <<signedIn, totpAsked, gvault, armed, screenVars>>

Refresh ==
    /\ InVault /\ Enabled /\ Click
    /\ Spawn(RefreshJobs(gvault, open))
    /\ UNCHANGED <<sessionVars, screenVars, overtaken>>

\* upload_bytes, do_mkdir and commit_rename; the last two are not disabled while
\* others are at work.
Change ==
    /\ InVault /\ Click
    /\ SpawnOne(ChangeRequest(gvault))
    /\ UNCHANGED <<sessionVars, screenVars, overtaken>>

Download ==
    /\ InVault /\ Click
    /\ SpawnOne(DownloadRequest(gvault))
    /\ UNCHANGED <<sessionVars, screenVars, overtaken>>

\* "delete", and "Keep it" or the selection of another entry.
ArmDelete ==
    /\ RowsShown /\ Enabled /\ armed # gvault /\ Click
    /\ armed' = gvault
    /\ UNCHANGED <<signedIn, totpAsked, gvault, open, screenVars, thumbJobs, busy, jobs, overtaken, died>>

Disarm ==
    /\ InVault /\ armed # NoPick
    /\ armed' = NoPick
    /\ UNCHANGED <<signedIn, totpAsked, gvault, open, screenVars, thumbJobs, busy, jobs, clicks, overtaken, died>>

\* confirm_delete: the path that was armed, in the vault that is picked.
ConfirmDelete ==
    /\ InVault /\ Enabled /\ armed # NoPick /\ Click
    /\ SpawnOne(DeleteRequest(gvault))
    /\ UNCHANGED <<sessionVars, screenVars, overtaken>>

OpenPhotos ==
    /\ InVault /\ photos = NoPick /\ Click
    /\ SpawnOne(TimelineRequest(gvault))
    /\ UNCHANGED <<sessionVars, screenVars, overtaken>>

\* A ceiling on the cells waiting, not on the workers.
RoomForThumbByCells == Cardinality(thumbPending) < MAX_THUMB_JOBS

RoomForThumb == thumbJobs < MAX_THUMB_JOBS

\* request_thumb, for every cell of every frame.
RequestThumb == \E c \in Cell :
    /\ GridShown /\ RoomForThumb
    /\ c \notin thumbPending \cup thumbFailed /\ c \notin {t.cell : t \in thumbs}
    /\ thumbPending' = thumbPending \cup {c}
    /\ thumbJobs' = thumbJobs + 1
    /\ jobs' = jobs (+) SetToBag({ThumbRequest(gvault, c)})
    /\ UNCHANGED <<sessionVars, shown, photos, preview, thumbs, thumbFailed, busy, clicks, overtaken, died>>

OpenPreview ==
    /\ GridShown /\ Enabled /\ Click
    /\ SpawnOne(PreviewRequest(gvault))
    /\ UNCHANGED <<sessionVars, screenVars, overtaken>>

ClosePreview ==
    /\ preview # NoPick /\ preview' = NoPick
    /\ UNCHANGED <<sessionVars, shown, photos, thumbs, thumbPending, thumbFailed, thumbJobs, busy, jobs,
                   clicks, overtaken, died>>

-----------------------------------------------------------------------------
(***************************************************************************)
(* App::poll and App::handle, for one event.                               *)
(***************************************************************************)
\* A poll that forgets the events which end no request of the toolbar.
TakenOffSome(j) == IF j.what \in {"thumb", "status"} THEN 0 ELSE 1

\* What the event of a job takes off busy.
TakenOff(j) == IF j.what = "thumb" THEN 0 ELSE 1

Left(j) == jobs (-) SetToBag({j})

\* An event that starts nothing.
Applied(j) ==
    /\ jobs' = Left(j)
    /\ busy' = busy - TakenOff(j)
    /\ UNCHANGED <<clicks, died>>

\* A session begins: the token was accepted and the vaults are known.
LoggedIn(j) == \E v \in GuiVault \cup {NoPick} :
    /\ j.what = "login" /\ signedIn' = TRUE
    /\ IF v = NoPick
       THEN gvault' = NoPick /\ Applied(j) /\ UNCHANGED <<open, armed, screenVars, thumbJobs, overtaken>>
       ELSE Pick(v, Left(j)) /\ busy' = busy - TakenOff(j) + 2 /\ UNCHANGED clicks
    /\ UNCHANGED totpAsked

TotpRequired(j) ==
    /\ j.what = "login" /\ ~totpAsked /\ totpAsked' = TRUE
    /\ Applied(j)
    /\ UNCHANGED <<signedIn, gvault, open, armed, screenVars, thumbJobs, overtaken>>

\* Vaults: picks the first one, also when the user has signed out meanwhile (there
\* is nothing to list then).
VaultsListed(j) == \E v \in GuiVault :
    /\ j.what = "vaults"
    /\ \/ /\ gvault # NoPick
          /\ Applied(j) /\ UNCHANGED <<gvault, open, armed, screenVars, thumbJobs, overtaken>>
       \/ /\ gvault = NoPick /\ signedIn
          /\ Pick(v, Left(j)) /\ busy' = busy - TakenOff(j) + 2 /\ UNCHANGED clicks
       \/ /\ gvault = NoPick /\ ~signedIn
          /\ gvault' = v /\ open' = AtTop /\ Wiped
          /\ Applied(j) /\ UNCHANGED <<shown, armed, thumbJobs, overtaken>>
    /\ UNCHANGED <<signedIn, totpAsked>>

Listed(j) ==
    /\ j.what \in {"list", "search"}
    /\ Applied(j)
    /\ shown' = {[vault |-> j.vault, search |-> j.at.search, dir |-> j.at.dir]}
    /\ UNCHANGED <<sessionVars, photos, preview, thumbs, thumbPending, thumbFailed, thumbJobs, overtaken>>

\* Uploaded, MkdirDone, MoveDone and DeleteDone: the listing is asked for again.
ChangeDone(j) ==
    /\ j.what \in {"change", "delete"}
    /\ armed' = IF j.what = "delete" THEN NoPick ELSE armed
    /\ IF InVault
       THEN /\ jobs' = Left(j) (+) SetToBag(RefreshJobs(gvault, open))
            /\ busy' = busy - TakenOff(j) + 2
            /\ overtaken' = (overtaken \/ Listings(jobs) # {})
            /\ UNCHANGED <<clicks, died>>
       ELSE Applied(j) /\ UNCHANGED overtaken
    /\ UNCHANGED <<signedIn, totpAsked, gvault, open, screenVars, thumbJobs>>

TimelineCame(j) ==
    /\ j.what = "timeline" /\ photos' = j.vault
    /\ Applied(j)
    /\ UNCHANGED <<sessionVars, shown, preview, thumbs, thumbPending, thumbFailed, thumbJobs, overtaken>>

ThumbCame(j) ==
    /\ j.what = "thumb"
    /\ thumbPending' = thumbPending \ {j.at} /\ thumbJobs' = thumbJobs - 1
    /\ \/ thumbs' = thumbs \cup {[vault |-> j.vault, cell |-> j.at]} /\ UNCHANGED thumbFailed
       \/ thumbFailed' = thumbFailed \cup {j.at} /\ UNCHANGED thumbs
    /\ Applied(j)
    /\ UNCHANGED <<sessionVars, shown, photos, preview, overtaken>>

PreviewCame(j) ==
    /\ j.what = "preview" /\ preview' = j.vault
    /\ Applied(j)
    /\ UNCHANGED <<sessionVars, shown, photos, thumbs, thumbPending, thumbFailed, thumbJobs, overtaken>>

\* FirstRun, Stats and Downloaded, and every answer that is an error: a note.
Noted(j) ==
    /\ j.what \notin {"thumb", "timeline"}
    /\ Applied(j)
    /\ armed' = IF j.what = "delete" THEN NoPick ELSE armed
    /\ overtaken' = (overtaken \/ j.what \in {"list", "search"})
    /\ UNCHANGED <<signedIn, totpAsked, gvault, open, screenVars, thumbJobs>>

Poll == \E j \in DOMAIN jobs :
    \/ LoggedIn(j) \/ TotpRequired(j) \/ VaultsListed(j) \/ Listed(j) \/ ChangeDone(j)
    \/ TimelineCame(j) \/ ThumbCame(j) \/ PreviewCame(j) \/ Noted(j)

\* job() panics in its thread: the event is never sent.
WorkerDies == \E j \in DOMAIN jobs :
    /\ ~died /\ died' = TRUE
    /\ overtaken' = TRUE
    /\ jobs' = Left(j)
    /\ UNCHANGED <<sessionVars, screenVars, thumbJobs, busy, clicks>>

GuiNext ==
    \/ CheckStatus \/ SignIn \/ Logout \/ PickVault \/ CreateVault \/ OpenDir \/ DoSearch \/ Refresh
    \/ Change \/ Download \/ ArmDelete \/ Disarm \/ ConfirmDelete \/ OpenPhotos \/ RequestThumb
    \/ OpenPreview \/ ClosePreview \/ Poll \/ WorkerDies

GuiSpec == GuiInit /\ [][GuiNext]_guiVars

\* Poll is fair: workers end, and every frame polls.

-----------------------------------------------------------------------------

Picked == GuiVault \cup {NoPick}
GuiTypeOK ==
    /\ {signedIn, totpAsked, overtaken, died} \subseteq BOOLEAN
    /\ {gvault, photos, preview, armed} \subseteq Picked
    /\ open \in [search : BOOLEAN, dir : Folder \cup {Top}]
    /\ shown \subseteq [vault : GuiVault, search : BOOLEAN, dir : Folder \cup {Top}]
    /\ thumbs \subseteq [vault : GuiVault, cell : Cell] /\ thumbPending \cup thumbFailed \subseteq Cell
    /\ busy \in Nat /\ thumbJobs \in Nat /\ clicks \in 0 .. MaxClicks

\* The workers at work in a bag of jobs, of some kinds: a job and its number.
Workers(bag, whats) == UNION {{j} \X (1 .. bag[j]) : j \in {x \in DOMAIN bag : x.what \in whats}}

InFlight(what) == Cardinality(Workers(jobs, {what}))

\* "Thumbnail fetches allowed in flight at once": however often the vault is
\* changed or the user signs out with fetches at work, no more workers fetch
\* thumbnails than that.
ThumbsBounded == InFlight("thumb") =< MAX_THUMB_JOBS

\* What is listed is the directory that is open, once the answers are in and
\* unless a slow answer was overtaken or one was an error: events carry no name of
\* what they answer.
ListingBelongs ==
    ~overtaken /\ InVault /\ Listings(jobs) = {} /\ ~open.search =>
        shown = {[vault |-> gvault, search |-> FALSE, dir |-> open.dir]}

\* Photos, thumbnails and the preview are those of the vault that is picked,
\* unless an answer was overtaken or the one to a listing was an error.
PhotosBelong ==
    ~overtaken => /\ {photos, preview} \subseteq {NoPick, gvault}
                  /\ \A t \in thumbs : t.vault = gvault

\* The toolbar, which is disabled while busy is not zero, comes back: after the
\* last click all is answered, unless a worker died without its event.
ToolbarComesBack == (<>died) \/ <>[](busy = 0 /\ jobs = EmptyBag)

=============================================================================
