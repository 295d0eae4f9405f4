# Verification of TEST DJ

TEST DJ is a "watch together" server: people create or join a lobby, submit
YouTube links, and everyone in the lobby watches the same queue. All state is in
memory and shared by goroutines: one per HTTP request, one per lobby that waits
for timers (`timerMinder`) and starts a new goroutine for each tick, and one for
the lobby manager. This directory holds TLA+ models of that program, TLC
configurations that check them on small instances, and TLAPS proofs for
instances of any size.

## The system

| Part | Source | State | Operations | Talks to |
|---|---|---|---|---|
| Player of a lobby | `internal/dj/lobby.go`, skip vote in `internal/dj/votes.go`, skip handlers in `internal/service/handlers.go` | `Videos`, `CurrentVideo`, `nextTimer`, `VoteSkip`, `voteSkipTimer`, the lobby mutex | `AddVideo`, `PickNextVideo`, `StartVoteSkip`, `RecordSkipVote`, `CalcVoteSkipResult`, `EndVoteSkip`, automatic skip | called by requests; `timerMinder` starts `PickNextVideo` and `CalcVoteSkipResult` in goroutines |
| Vote to mute | `votes.go`, `CleanupMuteExpirations`, `AddUser` | `VoteMute`, `voteMuteTimer`, `MutesByIP`, `MuteCooldownsByIP`, `User.MutedUntil` | start, ballots, result, cleanup | reads `Users`; its mutes are read by `HandleAddVideo` and `AddUser` |
| Admission | `HandleAddVideo`, `CheckVideoQueued`, `CheckUserVideoLimit`, `CleanupPlayedVideos` | `PlayedVideos`, the queue | submit | the metadata of YouTube, the player |
| Round robin | `getNextRobin`, `getVideoFromUser` | `RoundRobinQueue` | next user, join, leave | the player |
| Sessions | `internal/dj/manager.go`, `NewUser`, `HandleJoinLobby`, `HandleCreateLobby`, `InjectSession` | `UsersByIP`, `UsersBySessionID`, `Lobbies`, `Lobby.Users`, `UsersBySession`, `LastActivity` | create, join, heartbeat, logout, `CleanupUsers` | lobbies |
| Expiry | `Touch`, `Expire`, `RemoveLobby` | `expiryTimer`, `Lobbies`, the lobby's context | touch, expire | sessions, streams |
| Event streams | `HandleSSE`, `internal/sse/sse.go`, `Broadcast` | `User.SSE` | connect, send, cancel, close | every broadcast |
| Video metadata | `internal/service/youtube.go` | none | parse a link, fetch title and duration | YouTube |
| Client address | `internal/shared/realip.go` | none | choose and parse the address | sessions |
| Pages, browser client, build | `internal/templates`, `static`, `docker` | none of the server's | rendering | |

What is hard here is concurrency. Handlers hold `Lobby.Mutex` around most of
their changes, but `timerMinder` runs `PickNextVideo` without it; checks and the
changes they guard are often in two locked sections; panics in a handler are
recovered by `middleware.Recoverer` and skip an `Unlock` that is not deferred,
while a panic in a timer's goroutine ends the process; timers are stopped and
reset while their tick may already be on its way; and cleanups collect first and
delete later. There are no tests in the repository.

Correctness, part by part:

- Player: no lobby is stuck on a video; a submitted video is neither lost nor
  played twice; a vote to skip ends; the mutex excludes and is not leaked.
- Vote to mute: an open vote ends; ballots do not carry over; a mute follows the
  address and not the user id; a cleanup does not free who is muted.
- Admission: limits per user and no replay within the hour, with submissions in
  flight at the same time and metadata fetched in between.
- Round robin: whoever has a video queued is not passed over for ever.
- Sessions: one session per address, whoever is in a lobby is known to the
  manager (or cannot be timed out), whoever is idle is removed.
- Expiry: a lobby that is used does not expire; nobody stays in one that has.
- Streams: everybody who watches is told of every change, whatever streams end
  while he is.

## Modules

| Module | Models |
|---|---|
| `Queue`, `QueueProofs` | the queue and the screen: the steps of `PickNextVideo` and `AddVideo` that change them, the lobby mutex, and what a panic does; lemmas about them |
| `Playback`, `MCPlayback`, `PlaybackProofs` | the player; extends `Queue` by the timer, the vote to skip and the automatic skip |
| `MuteVote`, `MCMuteVote`, `MuteVoteProofs` | the vote to mute, mutes, cooldowns, joining and leaving |
| `Poll` | what the vote to mute promises (abstract specification of `MuteVote`) |
| `Sessions`, `MCSessions`, `SessionsProofs` | the manager's maps, changed one operation at a time |
| `Metadata`, `MetadataProofs` | what `fetchVideoMeta` makes of the answers of YouTube, as operators |
| `Admission`, `MCAdmission`, `AdmissionProofs` | `HandleAddVideo` from the mute to `AddVideo`, the played videos and their cleanup; extends `Queue` and `Metadata` |
| `RoundRobin`, `MCRoundRobin` | the rotation, as picks turn it and joins and leaves change it; extends `Queue` |
| `Streams`, `MCStreams`, `StreamsProofs` | event streams, broadcasts, and the expiry of the lobby that ends them |

`X` is the model, `MCX` the definitions of its instances for TLC, `XProofs` its
theorems. An operator whose comment begins with "(Mutant: ...)" is a plausible
wrong version of the one after it; nothing of the models uses it, and putting it in the
other's place makes a property fail (`mutants` in `PROJECT.json`).

The models meet where one leaves to another what it does not need: `Playback`
lets any video be submitted and any index be picked; `Admission` says which are
submitted and `RoundRobin` which is picked, both with a video that may end at any
moment; `MuteVote` says who is muted, `Admission` what that does; `Sessions` has
all lobbies and no streams, `Streams` one lobby with its streams, and says why a
`Broadcast` may panic, which the modules of the lobby take over as a choice.

A step is what a goroutine does until another one, which does not hold the same
lock, could come between something it has checked or read and its use. What is
held by the same mutex on all sides is one step; what is not, is several.

### Queue

A slice is an array and a length (`array`, `length`): `append(s[:i], s[i+1:]...)`
moves the elements in place (`PickCut`) and only then is the shorter header stored
(`PickStore`); `append(s, v)` writes behind the last (`AddVideo`) and then stores the
longer one (`AddStore`). So a pick outside the lock can lose a submission, double
a video (`[a, b]` and `c` become `[b, b, c]`) or play one and remove another. The array has its
full capacity from the start, as in a lobby that has been busy; in one that is still
growing, a reallocation gives the two goroutines different arrays, and the lengths
they store are the same. `Capacity` bounds the queue: at the bound nothing is added.

`Panic` gives a nil dereference, an index out of range or a failed Broadcast its
effect: in a request it is recovered, and the mutex becomes `Free` if the `Unlock` is
deferred and `Leaked` if it is not; in a timer's goroutine the process is dead
(`crashed`).

### Playback

A goroutine is an element of `Request` (a handler) or `Timer` (started by
`timerMinder`); `pc` says where it is, `pick` and `frame` hold its locals. Goroutines are
reused once they are done, so the size of the two sets bounds how many run at
once. `PickNextVideo` is a chain of labels: `PickStop` (stop `nextTimer`, look for a
vote), `PickCancel`, `PickInactive`, `PickClear` (cancel the vote), then the steps of
`Queue`, and at the end `PickArm` (the Broadcast, `nextTimer.Reset`) or `PickBlank`. It is
called by the timer's goroutine with no lock and, inside the mutex, by
`AddVideo`, `EndVoteSkip` and the automatic skip; `pick[p].caller` says where
it returns to. The handlers' locked sections are split where an unlocked pick
can come between a check and its use: `AddVideo`/`AddStore`/`AddCheck`;
`SkipStart`/`SkipVoted`, `SkipCount`, `SkipAuto`;
`VoteCheck`/`VoteStart`/`VoteMark`/`VoteTell`; `SkipSubmit`/`VoteAbout`/`VoteRecord`;
`Calc`/`CalcAbout`/`EndVote`/`EndMark`/`EndClear`.

A Broadcast may panic wherever there is one. After `CurrentVideo = next` that
leaves a video on screen without a timer if a request recovers it (`abandoned` remembers it); between
`VoteSkip.Active = true` and the reset of its timer, a vote without one; under a plain
`Lock` (`VoteRecord`), a leaked mutex.

People come and go without the mutex, so `Lobby.Users` is any set of users
whenever the code looks (`SkipCount`, `VoteRecord`); everybody may vote.

Timers: `nextTimer` and `skipTimer` say whether a timer is armed; a fired timer
is disarmed and a goroutine starts. Durations are left out, so a video may end
at any time. A stopped or reset timer delivers no old tick, as Go promises since
1.23 (`go.mod` asks for 1.24).

Left out, because no property here depends on it: `WasSkipped` (history page
only), `VideoStart`, `PlayedVideos` and the other admission checks (any video
may be submitted, also one that is playing), the order of the round robin (any
index may be picked, which includes the one the code picks), `Touch`.

### MuteVote and Poll

`VoteMute` is only accessed inside the mutex, so a locked section is one step,
except `Calc`/`Impose`/`Clear`, which look at `Users` and write `MutesByIP`
while others, outside the mutex, change the first and read the second. Outside
the mutex are `CheckCooldown`, `FindTarget`, `Arm` (the Broadcast and
`voteMuteTimer.Reset` after the unlock), `Enter`/`JoinQueue`/`JoinLook`/`JoinMute`
(`AddUser`), `RemoveUser` and `Scan`/`Sweep` (`CleanupMuteExpirations` collects,
then deletes). A user who leaves comes back under a new id: `joined` holds the ids
given out, and a user's address is `IPOf`. Two ids of one address may be in the lobby
together, as the races of the sessions allow.

A Broadcast that panics in `Arm` leaves the vote without a timer (`unarmed` remembers it until a
timer is armed again), one in `Submit`, under a plain `Lock`, leaks the mutex. One in a timer's
goroutine or in the cleanup of the mutes ends the process; nothing happens then,
which no safety property can see and every liveness property would have to except, so it is left out.
`raced` remembers the addresses of which two ids were present at once, and those
whose user was still in `AddUser` when the verdict fell on him: for these the mute
of the address and that of the user may differ.

The clock starts at 1 and is bounded by `MaxTime`; an entry absent from a
map is one that ended at time 0; a tick of a cleanup may come at any time.

`Poll` is the vote without goroutines, timers and locks: one poll at a time about one target,
ballots that replace each other, and a verdict that ends the poll with all of its
ballots and mutes the target in one step, if somebody voted for it; who comes from
the address of a muted user may be muted too. `MuteVote!KeepsPromise` maps
`poll` to `vote`, or to no vote from the verdict on (`Counted`), and `silenced` to those
with a `MutedUntil`. `Open` may also change the target of an open poll: the code does
(`mute_override`), and the rest of the promise holds in spite of it.

### Sessions

`UsersByIP`, `UsersBySessionID` and `Lobbies` are maps that are each safe for
concurrent use and changed one after the other, so each map operation is a step.
`Create` and `Join` start a handler (with any cookie a browser may hold, of the
same address or of another one), `CheckDevice` may refuse it, `FindCookie` and
`FindAddress` are the two lookups of `CleanExistingSessions`, each followed by
`Drop` (`UsersBySessionID`) and `Forget` (`UsersByIP`); then `Register` and
`OpenSession` (`NewUser`), `OpenLobby` (`AddLobby`) and `Enter` (`AddUser`).
`CleanupUsers` copies `UsersByIP` and walks through the copy with the same
removal. A lobby may go at any time (`RemoveLobby`). What a lobby does with its own
`Users` is in `RoundRobin` and `Streams`. `Admitted` is what `InjectSession`
checks. Time is only whether a user's `LastActivity` is more than 45 seconds ago
(`idle`); event streams are left out, so the check for a second device may
refuse or not. Ids are drawn when a request arrives, in a fixed order, as nothing
tells them apart; `born` and `made` bound the number of requests. A cookie is kept
in `frame` until it has been looked up.

### Metadata

An answer of YouTube is a record of what the two sources would say: the
status of each exchange, the lengths of the nested arrays around the visitor
data, the places where a page or an item says "age restricted", the lengths in
each of their forms, and the source during which the ten seconds of the whole
fetch run out. The operators are the functions of `youtube.go` in their order:
`ResolveVisitorData`, `IsAgeRestricted`, `FormatSeconds`/`ScrapedSeconds`,
`MobileScrape`, `DataAPI` with `ParseISO8601`, and `FetchVideoMeta`, which
composes them. A text is reduced to what the code asks of it (is it empty, does it
parse); a length is an integer, and the 64 bits of `time.Duration` are left out.

### Admission

`Submit` is `HandleAddVideo` up to the call of YouTube (the mute, and a link with
an id); `Fetch` takes any answer of `Answer` through `FetchVideoMeta`; then
`CheckPlayed`, `CheckVideoQueued`, `CheckUserVideoLimit` and `AddVideo` are a
step each, because no lock is held from one to the next. The two checks that loop
over the queue inside the mutex may find anything while a pick outside it is moving the
elements (`Looked`). A pick runs step by step as in `Playback`, with `PickLast` and
`PickNote` for what it notes in `PlayedVideos`. `PlayedVideos` is `listed`; `recent` are the videos
whose `LastPlayed` is less than an hour ago, and `HourPasses` may come at any
time. `CollectPlayed` and `SweepPlayed` are the two passes of
`CleanupPlayedVideos`. The timers and votes of `Playback` are abstracted to
`VideoEnds` and `VideoSkipped`, possible whenever a video is on screen; that allows more
than the code does. The lobby's mode does not matter here, so a pick takes any
video.

### RoundRobin

`place` and `turns` are the array and the length of `RoundRobinQueue`. In round
robin the index of a pick comes from the loop of `PickNextVideo`: as many calls of
`getNextRobin` as the rotation is long at first (`PickTurn`), each of which reads
the head (`RobinFirst`), moves the others up (`RobinCopy`), writes the head to the end
(`RobinLast`), and asks the new head for a video (`RobinAsk`). `Join`, `JoinPlace`,
`JoinStore` are `AddUser`, whose append is inside the mutex. `RemoveUser` takes none:
`Scan` is one turn of its loop over the rotation as long as that was at the start (the length
of the slice `range` evaluated), `Cut` moves up whatever is behind the index by
then, `CutStore` stores the shorter header, `Delete` is the rest. If the index is past the end
when it cuts, the slice expression panics. `CleanupUsers` removes each user twice, by
address and by id (`again`). A lone viewer's or a vote's skip and the end of a video
call a pick as in `Admission`.

### Streams

A `Stream` is a goroutine of `HandleSSE` together with the page at its other end:
`away`, a `page` that was rendered, `connecting` (past `InjectSession`), `open`
(in the loop), `closing` (out of it). `Register` and `Finish` write `User.SSE`;
`Finish` writes nil whatever is there, so the late end of an old stream hides a
newer one. `Drop` and `Reconnect` are the browser's; `done` are the streams whose
context is done. `Broadcast` is `Cast`, which checks `user.SSE != nil`, and
`Send`, which uses it; the kicks of `RemoveUser` and `RemoveLobby` load it up to four
times (`KickCheck`, `KickErr`, `KickSend`, `KickCancel`), and so does `Expire`
twice (`Cancel`, `CancelUser`). A load right after another may be
merged with it or not (`Loaded`), a load after a call may not; what was loaded may
be nil, or a stream whose handler has returned (`Gone`), and using it may panic. `stale` are the
pages that show the lobby as it was before a change: a handler that changes it makes
them all stale and broadcasts, and `Send` refreshes the page at the other end. `missed`
remembers the pages that the last change did not or will not reach: those whose stream
was registered behind the Broadcast, and those that were still to be visited when it panicked.
`Touch`/`Rearm` stop and restart the expiry timer, and `FireExpiry`, `CancelAll`,
`Cancel`, `CancelUser`, `Clear`, `Unlist`, `KickRest` are `Expire` and `RemoveLobby`, run by
`timerMinder` itself. The order in which a loop visits the users is open.

## Runs

| Run | Question | Bounds | Result |
|---|---|---|---|
| `playback` | do the invariants survive an unlocked pick against a handler; does playback go on, does a vote end? | 2 users, 1 video, 1 request, 1 timer goroutine, queue of 1, linear | holds |
| `mute` | does an open vote have an end coming, do ballots and mutes stay with whom they are about? | 3 ids on 2 addresses, 1 request, 1 timer goroutine, clock up to 2 | holds |
| `mute_ends` | does an open vote end; is it a poll? | the same, clock up to 1 (liveness takes longer) | holds |
| `sessions` | is an address ever blocked by a user without a session, is it freed? | 3 users of 1 address, 2 lobbies, limit of 1, 2 requests, 1 cleanup | holds |
| `admission` | what lengths get in; is a played video freed, a muted user silent? | 1 user, 1 video, 2 requests, 1 timer goroutine, 1 cleanup, queue of 2, 7 answers of YouTube | holds |
| `streams` | does `user.SSE` name a living stream, is everybody told, does an untouched lobby go? | 1 user, 2 pages, 1 request, the minder | holds |
| `playback_lost` | does a pick leave the queue one video shorter? | 2 users, 2 videos, 1 request, 1 timer goroutine, queue of 2 | violated |
| `playback_leak` | is a skip at a blank screen answered? | 2 users, 2 requests, no timer goroutine | violated |
| `mute_override` | is one vote pending at a time? | 3 ids, 2 requests, 1 timer goroutine | violated |
| `sessions_perip` | is one session served per address? | 3 users of 1 address, 2 lobbies, 2 requests, 1 cleanup | violated |
| `playlist_replay` | is a video kept out for an hour after it was played? | as `admission` | violated |
| `robin_turn` | has everybody in the lobby a place, once nobody is joining, leaving or picking? | 3 users, 2 requests, 1 timer goroutine, 3 places | violated |

The bounds are the smallest in which the races exist: two goroutines that
interleave, a second user for a vote that passes, a third id for one who comes
back muted, two submissions between one's check and the other's add, two pages of one
user of which the old one ends late. With one request goroutine in `playback`, two locked picks
never contend for the mutex, and two unlocked picks are in no run (the liveness
takes too long); the proofs have any number of either. The one user of `streams` cannot be
passed over by a Broadcast that another's page makes panic: `PagesTold` allows for that
(`missed`), `NobodySkipped` proves it for any number of users, and TLC
found it to hold with two users (6.1 million states, longer than a run should take).
The answers of YouTube in `admission`
(`MCAdmission!MCAnswer`) are a video of exactly ten minutes by each of the three
forms of a length, one too long, one gated, a live stream without a length, and
a scrape that uses up the time; the proofs cover every answer.

What the violated runs show:

- `playback_lost`: the timer's pick moves the array and computes the shorter length, `AddVideo`
  stores the longer one, the pick stores its own: the submission is gone.
- `playback_leak`: a lone user's automatic skip checks that a video plays in one
  locked section and uses it in the next; after a second skip in between the
  screen is blank, the dereference panics, the request is recovered, and the
  mutex of the lobby is never released.
- `mute_override`: two requests see no pending vote, and both start one; the
  second target inherits the ballots of the first.
- `sessions_perip`: `CleanupUsers` (or a second join) is about to delete the
  entry of a user it removes when another user from the same address registers;
  the delete takes the newcomer's entry. Without an entry `InjectSession` lets
  every session of the address pass, and `CleanupUsers` no longer sees the user.
- `playlist_replay`: two submissions of one video both find it in neither the
  played list nor the queue; the first is played before the second is
  added. (A video on screen is in neither list, so without any race it can be
  queued while it plays.)
- `robin_turn`: a user leaves and is about to cut his place out of a rotation of one; it
  reads the length, a newcomer's `AddUser` appends and stores 2, the cut stores 0. The
  newcomer is in the lobby without a place, and in round robin his videos are
  only chosen at random when nobody in turn has any.

Where the documents say otherwise and a run shows it: `src/README.md:11` (each user has a turn;
`robin_turn`), `src/README.md:17` (no replay within the hour; `playlist_replay`), and the messages
and comments quoted in `findings` of `PROJECT.json`. Where they say otherwise and no run is needed to
see it:

- `src/README.md:16`, the queue limit per user: submissions in flight pass the same
  check and overrun it, by as many as are in flight; a pick that doubles a video
  does so without any.
- `src/README.md:18`, at most 100 videos in the playlist: nothing enforces it.
- `src/README.md:20-21`, the voting rules: the vote to mute passes with yes ballots of half the
  lobby, rounded up, whatever the no ballots are, and not by a majority of those who
  vote; a vote to skip needs two yes ballots; and its early quorum is half of
  the lobby, rounded up, so that in a lobby of two one ballot ends it. A vote
  whose start's broadcast panicked does not end after 30 seconds.
- `src/README.md:23`, at most 100 lobbies: requests in flight pass the same check and overrun it.

What else the models reach and no run is about, because no doc, comment or test of the
repository says otherwise:

- When the last video ends, `AddVideo` may append between the timer's check of
  the empty queue and its `CurrentVideo = nil`: it starts nothing, and the video
  waits at a blank screen until the next submission.
- A video whose announcement panicked stays on screen until somebody skips it.
- A vote to skip can stay open about a video that has left the screen (one
  started between the pick's cancellation and its `CurrentVideo = next`), or over a
  blank screen: neither ballots nor its timer end it, and the next pick cancels it.
- A Broadcast under a plain `Lock` (`RecordMuteVote`, `RecordSkipVote`, the pick of the
  automatic skip) that panics leaks the mutex.
- The process may die in `CleanupUsers` or `Expire`: a stream that ends between
  the check of `user.SSE` and one of the uses after it makes `RemoveUser`,
  `Expire` or `RemoveLobby` dereference nil, and a rotation that gets shorter after the place
  was found makes the cut go past its end. Neither runs in a request there,
  so nothing recovers the panic. The same goes for a Broadcast or an index out of
  range in the goroutines of `timerMinder`.
- Two picks at once may both turn the rotation before either reads its head, so
  that the same user is passed over, as often as that happens.
- The late end of an old stream hides the newer one of the same user, who then
  gets no broadcast. That is why `PagesTold` speaks of registered streams.
- A mute imposed between the two passes of its cleanup is lost for the address;
  the user has it until he leaves.

`CHECK_DEADLOCK FALSE` is where the system really may stop: when a panic outside a
request has ended the process (`Playback`, `Admission`, `RoundRobin`, `Streams`),
when the mutex has leaked, when the lobby has gone and the minder with it (`Streams`), and
when everybody has left and the bounds on ids and time are used up (`MuteVote`, `Sessions`).
`Capacity`, `Turns`, `MaxTime` and the sets of ids bound the counters of the code.

## Fairness

`FairSpec` of `Playback` and `MuteVote` assumes strong fairness for each
goroutine that has started (Go runs what can run; a `sync.Mutex` in starvation
mode goes to whoever waits, so a goroutine that could take it again and again
does) and for the delivery of an armed timer's tick to each timer goroutine. A leaked
mutex is never free, so nothing is promised to whoever asks for it. In
`Sessions` and `Streams` nobody waits once started, and weak fairness is enough: for
goroutines that have started, and in `Streams` for the expiry timer, the minder
and the server's side of a stream; `Sessions` adds strong fairness for the start of
`CleanupUsers`, which the manager's ticker repeats and which takes the manager's
mutex. `Admission` assumes it only for the cleanup of the played
videos: its liveness needs neither videos that end nor submissions that go on. Nothing
is assumed of people: requests, joining, leaving, changes and lost connections
need not happen.

The liveness properties except what really stops the system: a dead process, a
leaked mutex, a video abandoned (`PlaybackMovesOn`, `SkipVoteEnds`), a vote unarmed
(`MuteVoteEnds`). The variables that remember the last two, and `raced` and `missed`, are
histories: no action reads them.

## What is proved

The theorems hold for every value of the constants that satisfies the `ASSUME`s
of the modules: any number of users, videos, requests and timer goroutines, any
length of the queue.

`QueueProofs` has the lemmas that every step of `Queue` keeps the types of its
variables and the locals of all other goroutines, whatever labels the module around it has.

`PlaybackProofs`:

- `Typing`: `Spec => []TypeOK`, with `QueueLocals` (an index about to be used was
  chosen from 1 on).
- `MutualExclusion`: `Spec => []MutexHeldInside`: who is inside a locked section
  holds the mutex, and a goroutine that still runs holds it only there. It does not say
  that the mutex always comes free: a handler that panics under a plain `Lock` leaves it `Leaked`,
  which is nobody's. `MutexHeldInside` alone is not inductive: which goroutines pick
  without the lock is a matter of `pick[p].caller`, so `LockInv` adds that a
  request's pick was called inside the mutex (`RequestsLock`).
- `PlayingEnds`: `Spec => []PlayingHasTimer`, inductive together with `TypeInv`
  and `LockInv`. The argument follows the last pick that stopped the timer: it
  stays on its way until it arms the timer, blanks the screen or panics; a
  request's pick is doomed only once another pick has shortened the queue, and as
  the request has the mutex that one is the timer's and is on its way itself; and a
  request's pick that panics at the Broadcast leaves `abandoned`.

`MuteVoteProofs`:

- `Typing`, with what the locals hold, and that exactly the goroutine ending a vote
  has the mutex (`LockOK`).
- `VotesHaveEnds` (who sets `Active` is next at `Arm`, who stops the timer is next
  at `Clear`; a panic in `Arm` leaves `unarmed`) and `BallotsEnd`, inductive together.
- `MutesStick` with `FollowInv`: while a verdict is carried out on a target, whoever
  else is there from the target's address, unless it raced, is waiting for the mutex in `AddUser` and
  will read the mute that is about to be set (`ReturnWaits`); the mute that `AddUser`
  has looked up is still the longest of the address (`LookedUp`); and an address that has not raced
  has one user in the lobby (`Alone`), a fact about the histories and not about the code.
- `PromiseKept`: `Spec => KeepsPromise`, step by step with `PollOK`: a verdict to mute is
  carried out on the target of an open vote to which somebody said yes, and
  every mute of an address goes back to one of a user.

`SessionsProofs`:

- `Typing`: from `TypeInv`, which adds that an entry of `UsersByIP` is a user made
  for that address (`AddressOK`) and what the locals of a goroutine hold that makes
  a user or removes one (`LocalOK`; a removal goes back to the cleanup, or to a
  request that is still making its user).
- `NotBlocked`: `Spec => []AddressNotBlocked`, inductive together with `TypeInv`:
  a removal drops the session while it is on its way to the entry of the same
  address (by `AddressOK`), `NewUser` sets the entry on its way to the session, and
  a step of anybody else leaves a goroutine on its way where it is.

`MetadataProofs` (about the operators, for every answer in `Answers`):

- `FetchUsable`: what `FetchVideoMeta` returns without an error has a title and
  lasts longer than nothing, although either source may report neither.
- `AgeReported`: a gate that the scrape sees, or that the Data API sees when the scrape
  brings nothing usable, is reported as such.

`AdmissionProofs`:

- `Typing`: what is queued or on screen has a submitter and lasts 1 to `MaxSeconds`
  seconds; by `FetchUsable` and the locals between `Fetch` and `AddVideo`.
- `MutesWindDown`: `Spec => MuteWindsDown`; a submission has one user from start to end,
  and what adds a video ends it.

`StreamsProofs`:

- `Typing`, with what the locals of a loop hold and that a page has an owner.
- `StreamsRun`: `Spec => []RegisteredRuns`.
- `ExpiryComes`: `Spec => []ExpiryPending`, inductive together with `TypeInv`: only a
  request touches, so whoever stops the timer is next at `Rearm`, and the minder stays
  out of `idle` until the lobby is unlisted.
- `NobodySkipped`: `Spec => []PagesTold`: every change starts a Broadcast whose loop has
  everybody still to visit; a visit refreshes the page or finds another stream registered
  by then, which was registered with the Broadcast still coming or is in `missed`; a panic puts
  the rest of the loop there.

Only model-checked: the liveness properties (`PlaybackMovesOn`, `SkipVoteEnds`,
`MuteVoteEnds`, `AddressFreed`, `BarEnds`, `MuteSilences`, `LobbyGoes`), since liveness
under fairness is beyond the prover, and everything about `RoundRobin`, whose one
property is violated.

## Not modelled

- Client address (`internal/shared/realip.go`): a pure choice of the first header
  that parses; the models take the address as given, and ids as unique.
- Of the metadata: the HTTP exchanges, the parsing of texts and links
  (`validateYTUrl` included), the width of a duration, and
  `fetchVideoMetaBrowserScrape`, which nothing calls.
- Start and shutdown: wiring of routes, environment, signals. Nothing is
  persisted, so there is no recovery to model. `middleware.Recoverer` is modelled
  where a panic meets it.
- Pages and partials, the browser client (which is the page of a
  `Stream` where it matters), the easter-egg game, styles, build and deployment:
  they have no state of the server.

## What could come next

- The choice of the address header as operators, composed with `Sessions`.
- A cleanup and a second user in the run of `Streams`, a second address in that of
  `Sessions` (the models and the proofs have them).
- An abstract player that `Playback` implements as it is: one that may lose or
  double a video, but plays none that was never submitted.
- What survives in the lobby of `Streams` when nothing overlaps: pages that are not
  stale, and no crash.
