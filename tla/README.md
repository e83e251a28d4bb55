# Chtice in TLA+

TLA+ modules, TLC runs and TLAPS proofs about Chtice, the Discord bot that
tells its users when a streamer of the Chzzk platform goes on air. The
source is under `src/src/proc` (three programs and their queries) and
`src/src/lib` (MySQL, HTTPS, sockets, utilities).

## 1. The system

| component | state | operations |
|---|---|---|
| **Tables** (`dbquery.cpp`) | `streamer_info` (one row per streamer: title, category, status `O`/`C`, open time), `notice_info` (one row per registration: channel, user, `WAIT`/`SEND`), `api_auth` (tokens) | one SQL statement per function, autocommit, no transaction anywhere |
| **Daemon** (`chtice_daemon.cpp`) | the list of a round, `cur_info`, `is_running` | every 30 s: select all streamers, poll each, write the row if title, category or status changed, set the channel's notices to `WAIT` when it wrote `C` |
| **Bot, sender** (`chtice_bot.cpp`, main thread) | the list of a round, `is_running` | every 30 s: select the `WAIT` notices of channels recorded `O`; for each, read the streamer again, post a message, set the channel's notices to `SEND` |
| **Bot, handlers** (`chtice_bot.cpp`, threads of the Discord library) | locals of a handler | register (select, perhaps HTTPS and insert streamer, insert notice), release (select by name, delete), select, list, help, `sync_all` (starts `chtice_batch sync` and waits for it) |
| **Batch** (`chtice_batch.cpp`, a process per call) | the list, `cur_info` | `sync`: poll every streamer and write the answer; `token`: refresh or issue the API tokens; `detail`: print one answer |
| **Support** (`common.cpp`, `lib/`) | the flag a signal clears; a connection; a request | wait, signal handler, MySQL, HTTPS, INI and environment files, popen, socket server and client (used by no process) |

The programs talk only through the two tables. Each has its own connection,
so their statements interleave in any order. The sender and the handlers share
one process and one connection. The platform is asked over HTTPS, Discord is
told with `message_create` and no callback.

What is hard in it:

- two processes change `notice_state` in opposite directions, each by channel
  and from what it read earlier: daemon to `WAIT`, sender to `SEND`;
- two programs write `streamer_info` from copies polled earlier, and only one
  of them arms notices;
- handlers insert and delete rows under the sender's list;
- every call may fail, every process may die between any two statements, and
  nothing is undone;
- two runs of the token management may be at work on the same pair of tokens;
- the bot's threads share one MySQL handle and one table of descriptors, with
  nothing that keeps them apart, and a connection that is lost is never made again;
- an answer may stop anywhere, and a timeout looks like its end.

What makes it right: a subscriber is told of a broadcast, once
(`AtMostOncePerBroadcast`, `SubscribersNotified`, `KeepsPromise`), the table
follows the platform (`RecordedStatusWasReal`, `StatusConverges`), and
registering and releasing do what they say (`NoticeHasStreamer`,
`AtMostOneLateNotice`). The stored tokens are the last ones granted
(`StoredPairIsLatest`, `RefreshNotAhead`, `WritesTheNewest`); the bot's threads
store their own results, and none holds the handle or a descriptor for good
(`StoresItsOwn`, `ResultHasOwner`, `HandleStaysUsable`, `NothingLeaks`,
`OnlyEarlyFailuresTake`); texts are read for what they say or
refused (`CutAnswerIsRefused`, `SettingIsTheSections`).

## 2. Modules

Four models, each with its own variables. They meet in the code at the level
of whole calls: what `BotProcess` calls a statement is an action of `ChticeBot`,
what it calls a lookup reads its answer as `TextInput` does.

| module | models | correspondence |
|---|---|---|
| `DbQuery` | `streamer_info`, `notice_info` and the statements on them | one operator per query function. `Fault(kind)` uses up one of the run's `MaxFaults` failures |
| `ChzzkApi` | the platform (external) and the record a poll builds | `LiveStatus(org, fields)` is the body of `chticeGetLiveStatus` and `_getLiveStatus`: a copy of the selected row, overwritten by the fields the answer has |
| `ChticeDaemon` | the daemon | `dPc` is the place in `mainProcess`/`pollLiveStatus`, `dList` the rows still to do, `dCur` is `cur_info` |
| `ChticeBot` | sender and handlers, as changes of the tables | `bPc`, `bList`, `bCur` (`ninfo`) likewise; `newStreamer` and `newNotice` are the register commands between two of their statements |
| `ChticeBatch` | `chtice_batch sync` | `tPc[p]`, `tList[p]`, `tCur[p]` for each process `p` of `Sync` |
| `NoticePromise` | the abstract specification | notices that are owed, messages sent, channels recorded closed; nothing of tables or processes. `Owed` and `Closed` of `Chtice` say what these are there: a close counts while the row says so, and from the daemon's UPDATE until it has armed |
| `Chtice` | the composition, fairness and its properties | `Next` interleaves daemon, bot, syncs and platform |
| `ApiToken` | `chtice_batch token` with `api_auth`; the authorization server and the operator are external | `pc[p]` is the next call of `batchManagementApiToken` in run `p`; `cod`, `acs`, `rfs` are its three records. A token is the number of the grant it comes from |
| `HttpsCall` | `httpsRequestCall` and `httpsFinish` in several threads of one process | `call[t]` is the place in the function, `sock[t]` and `ssl[t]` the fields of the caller's `HTTPS`; `open` is the process's descriptor table. An unset `sock` holds any member of `Garbage` |
| `DbConnection` | the `MYSQL*` of a process (`dbmysql.cpp`) | a SELECT is `QueryBegin`, `QueryEnd` (mysql_query), `StoreBegin` and `StoreEnd` (mysql_store_result), and `QueryFails`, `StoreFails`; `query[t]` is the place of thread `t` in them. What the client library makes of such calls is external (`ServerFails`, `Enters`, `Disconnect`, `Loses`) |
| `BotProcess` | the bot from `mainInitailize` to `mainTerminate` | the main thread's loop and the handlers as sequences of calls (`todo[t]`) on the two modules above |
| `TextInput` | the read loop and status line of `httpsRequestCall`, `httpsGetParseJson`; `utilTrim` and `utilGetIniVar` | a text is a sequence of tokens, one for each kind of character the code tells apart; `Receive` is a turn of the read loop, `ReadLine` one of `utilGetIniVar` |
| `MCChtice`, `MCApiToken`, `MCBotProcess`, `MCTextInput` | constants of the runs | |
| `ChticeProofs`, `NoticeProofs`, `OnceProofs`, `PromiseProofs`, `ApiTokenProofs`, `BotProcessProofs`, `TextInputProofs` | theorems | section 5 |

One action is one statement on a table, one HTTPS call, or one message, with
the branch of the code that follows it; in `HttpsCall` and `DbConnection` one
call of a library. Every failing branch is an action (or a disjunct) of its own:
a failed SELECT ends the daemon or the bot, a failed poll skips one streamer in
the daemon and ends the loop in a sync, a failed UPDATE ends the loop in the
daemon and in a sync, and only one notice in the sender.

Abstractions:

- *Title* stands for title and category, which the code compares and writes
  together.
- *broadcast* is a history field of a record: the serial number of the broadcast
  its status was read for. It travels with the status, also when openDate, which
  is a field of its own in the answer, is missing or stale. It is the identity
  `AtMostOncePerBroadcast` and `RecordedStatusWasReal` speak of. The columns
  `open_time` and `close_time` are written and shown, never compared, and are
  left out.
- A channel may change its title at any time, on air or off (`Retitle`). That is
  what makes the daemon write, and arm, without a change of the status.
- The schema is not in the repository. `streamer_info` is taken to be keyed by
  `streaming_channel_id` (all statements name one row by it); no key is assumed
  for `notice_info`, so a user may register twice, and a row is identified by
  the serial number of its command. `api_auth` may or may not have a unique
  name: `InsertRejected` is possible, not forced.
- Lists are sets: the queries the loops go through have no ORDER BY (the only
  one is in the query by name, dbquery.cpp:81).
- Release looks the streamer up by a LIKE on the name; which one it finds is
  left open. Its SELECT and its DELETE are one step: a streamer row is never
  deleted and only its id is used.
- `_getCannelInfo` answering that it knows no such channel counts among the
  failures of `RegisterStreamerFails`, since the empty name it leaves is refused.
- A handler whose first SELECT fails leaves no trace in the tables and is not an
  action of `ChticeBot`; nor are the commands that only read. They are calls of
  `BotProcess`. A sync whose SELECT fails has done nothing and stays "idle".
- `is_running` is tested once, at the end of the wait, which is where the loop
  condition next reads it. Seconds are not counted.
- Restarts are by whatever supervises the programs; none is in the repository.
- In `ApiToken` the server grants a pair once per code and once per refresh
  token, and the newest one is the only one it takes; a row's expiry is the flag
  `live`. The operator stores a new code only while no run is at work.
- In `ApiToken` a refresh row's time that cannot be read (chtice_batch.cpp:298)
  ends a run at any time (`ExpireTimeUnreadable`): rows without one can be stored.
- In `BotProcess` what a statement does to a table is left out, and undefined
  behaviour (an unset pointer freed, a handle closed under a call, two threads
  inside the client library) may end the process at any later step (`Die`) or never.
- Of the MySQL client library, `DbConnection` takes this: a mysql_query is refused
  while the handle holds a result nobody stored ("out of sync") and after its
  connection was lost ("gone"); mysql_store_result makes the handle ready for the
  next statement before it has read the rows; a thread is inside the library from
  `QueryBegin` to `QueryEnd` and from `StoreBegin` to `StoreEnd`, and when two are
  inside together (`raced`) any call may succeed or fail, the connection may be
  lost, and any result or none may be left, for good. A lost connection
  (`Fault("gone")`, a descriptor somebody closed) is closed by the library by its
  number, whoever has that number by then, and nothing opens it again: a refused
  statement (`Fault("db")`) leaves it as it is.
- In `TextInput` `SSL_read` returns one token at a time; a longer piece is
  several turns. json::parse is external: it takes one object with nothing
  around it. What a server sends is external too: `AnswerAssumption` says that
  it holds one object after the headers, or no brace at all. TLC evaluates it
  for the answers of the run. `raw_response += buffer` stops at a NUL byte
  (https.cpp:272); answers are taken to have none.
- `posted`, `late`, `lostMarks`, `taken`, `wild`, `raced` and `signalled` are
  history variables.

## 3. Runs

| run | module | constants | shows |
|---|---|---|---|
| `notices` | `MCChtice` | 1 streamer, empty tables, 2 register commands by 2 users who may release, no sync, 2 broadcasts, 2 titles that change at any time, 1 fault (any but a signal), answers missing any field | `TypeOK`, `AtMostOncePerBroadcast`, `NoticeHasStreamer`, `AtMostOneLateNotice`, `ArmedOnlyWhenClosed`, and `KeepsPromise`: `Chtice` implements `NoticePromise` |
| `converge` | `MCChtice` | 1 subscription, daemon and 1 sync, 2 broadcasts, 2 faults of any kind, fairness | `RecordedStatusWasReal`, `StatusConverges`, and `KeepsPromise` beside a sync |
| `notified` | `MCChtice` | 2 streamers, 3 subscriptions of 2 users, 1 broadcast each, 1 failing poll, fairness | `SubscribersNotified` |
| `token` | `MCApiToken` | 2 overlapping runs, 3 grants, 2 codes, faults and answers of any kind | `TokenTypeOK`, `StoredPairIsLatest`, `RefreshNotAhead`, `WritesTheNewest` |
| `process` | `MCBotProcess` | main thread and 2 handlers, 2 descriptors, any garbage, up to 2 notices per round, faults of any kind | `ProcessTypeOK`, `NothingLeaks`, `OnlyEarlyFailuresTake`, `ResultHasOwner`, `StoresItsOwn`, `HandleStaysUsable` |
| `text` | `MCTextInput` | every body of up to 7 tokens of object with blanks around it, 4 heads, every cut; every file of up to 3 of 13 lines | `TextTypeOK`, `CutAnswerIsRefused`, `SettingIsTheSections` |

Deadlock is checked except where the program ends: `text` (the text has been
read) and the three runs of `MCBotProcess` (main returns).

Bounds. Two broadcasts are needed for a message that is repeated for an ended
broadcast, for an arming between two of them and for a stale copy of the first
one written during the second; a third repeats the second. Two users of one
channel are needed because `SEND` is written by channel. Two faults, in
`converge`, allow a lost UPDATE followed by a crash; what `notices` checks with
one is proved for any number. `notices` leaves the signal to `converge`: in
these models a signal is a crash that waits for the end of the round. One sync
and the daemon are two writers of one row with copies of different age; that
more syncs change nothing is proved (`StatusWasReal`). Two token runs and three
grants are an overlap in which both hold a pair the other one does not know,
after a first pair was stored; `happened` records the kinds of failure, so their
number is not bounded. Two descriptors are the connection's and one that the
handlers compete for, so that the table is full, and a freed number is used by
another thread at once. `process` tells its states apart by `Seen`, which leaves
out kinds of failures that no guard and no invariant asks for. Two titles let
the daemon write and arm where the status has not changed; they multiply the
states, so the other passing runs have one. Seven tokens of body hold two nested
objects, or a quoted brace inside an object; three lines hold a heading, another
heading or a comment, and the setting. Symmetry is used for users (`notices`),
token runs and handlers, and in no run with a liveness property.

Fairness (`FairSpec`): weak fairness of `DaemonStep` and of `BotStep`, the steps
of the two loops that succeed. The operating system runs a process that can run,
a call that does not fail for ever returns (the receive timeout is 5 seconds),
and the wait of 30 iterations ends. Nothing is assumed of the platform, of users,
of syncs, of restarts or of failures: a property must hold if they never happen.
The safety models have no fairness.

### What the runs that expect a violation show

Each checks one property the texts of the program promise.

| run | property | what happens |
|---|---|---|
| `sweep` | `SentMeansPosted` | a notice registered after the round's SELECT becomes `SEND` with the others of its channel and is never sent |
| `late_mark` | `ClosedChannelIsArmed` | the sender's UPDATE lands after the daemon recorded the close and armed the notices: the next broadcast is not announced |
| `starved` | `EveryStreamerMonitored` | a broadcast with an empty title ends each round of the daemon at its row; another streamer may never be polled |
| `token_delete` | `DeletedBeforeInsert` | a failed DELETE answers 1, is tested for less than 0, and the INSERT follows beside the old row |
| `stops` | `OnlyASignalStopsTheBot` | a handler is between mysql_query and mysql_store_result, the loop's SELECT is refused as out of sync, and the bot ends; the property excuses two threads inside the library together |
| `wild` | `ReleasesOnlyWhatItSet` | a refused connection makes `httpsFinish` free an `ssl` that was never set |

Only `token_delete` (a failed DELETE) and `wild` (a refused connection) need a
failing call.

## 4. Why some properties are stated as they are

- `AtMostOncePerBroadcast` and `ArmedOnlyWhenClosed` are stated for systems
  without a sync. With one they do not hold: a sync may
  record that a broadcast started, and the sender announce it, between the two
  statements the daemon runs for a close (chtice_daemon.cpp:105 and 111), so that
  a notice is armed and sent again for a broadcast on air. TLC finds this
  when `MC_late_mark.cfg` is given `OneSync` and `AtMostOncePerBroadcast` as its
  invariant. With syncs `RecordedStatusWasReal` and `KeepsPromise` are left.
- `RecordedStatusWasReal` is about the broadcast a status was read for: a row that
  says `C` of broadcast 1 is true for ever, so a stale `C` may stand while
  broadcast 2 is on air. That it does not stand for good is `StatusConverges`.
- `KeepsPromise` says that nothing is announced which was not armed. It always
  allows an arming to be lost (`Lose`), so that a close that arms nothing
  (chtice_daemon.cpp:110, chtice_batch.cpp:472) or a message that Discord refuses
  does not violate it; `ClosedChannelIsArmed` and `SentMeansPosted` are about those.
- `KeepsPromise` holds with syncs because a close counts from the daemon's UPDATE
  until the daemon has armed, whatever a sync writes in between
  (`Closed`): the promise allows a notice to be armed by a close that is
  overtaken by the next broadcast. With that, every arming of the daemon after a
  `C` it wrote is legal, and what the property says of a sync is that it makes none.
- `ClosedChannelIsArmed` fails in three ways. Without a sync, as `late_mark` shows.
  With one: a sync that polled before a broadcast writes its `C` over the row of
  that broadcast (chtice_batch.cpp:472) after it was announced; when it ends, the
  daemon sees no change and does not arm. TLC finds this when `MC_late_mark.cfg` is
  given `OneSync`. And after a failed UPDATE to `WAIT`, or a crash before it
  (chtice_daemon.cpp:110-111), which takes a fault.
- `SentMeansPosted` fails in two ways: as `sweep` shows, and when Discord refuses a
  message, since nothing looks at its answer (chtice_bot.cpp:138-141). TLC finds
  this when `MC_sweep.cfg` is given one fault of the kind "discord".
- `AtMostOneLateNotice` is what is kept of the release command's promise that no
  more notices are received (chtice_bot.cpp:264, 320): the sender posts from the
  list it selected, so that one message may still follow.
- `AtMostOncePerBroadcast` counts `lostMarks`: the code posts first and marks
  afterwards, so a lost UPDATE costs one more message. No other failure does.
- `AtMostOncePerBroadcast` rests on the key of `streamer_info`: with two rows of a
  channel the JOIN of querySelectNoticeInfoForSend returns a notice twice.
- `SubscribersNotified` has failing polls only. A failed read of the streamer
  (chtice_bot.cpp:100), or a crash after the channel's UPDATE to `SEND`, loses the
  message of another subscriber of the channel.
- `SubscribersNotified` asks for a channel that stays on air. A broadcast that
  starts and ends, or ends and starts again, between two polls is not seen, by design of
  the polling; and `late_mark` shows a second broadcast that nobody is told of,
  which is why the run has one broadcast per channel.
- `StatusConverges` excuses a daemon that is down for good.
- In `StoredPairIsLatest` "once" is one row for a name; `api_auth` is a set of
  rows, so that two equal rows are not told apart.
- `StoredPairIsLatest` is stated without failures: a lost answer, a failed
  statement or a crash between a grant and its last write leaves an older pair,
  and nothing in the code recovers it. `RefreshNotAhead` is what then
  holds, except after an answer that lacks a token or has `"content": null`,
  which the code takes for a success. `WritesTheNewest` has the same exception
  and no other: what goes wrong with whole answers is that the newest pair is not
  written, never that an older one is.
- `ResultHasOwner`, `StoresItsOwn`, `HandleStaysUsable` and
  `OnlyASignalStopsTheBot` excuse two threads inside the client library at once,
  for which the library promises nothing and the model takes any outcome. Such a
  race needs no failing call: what the four say is what the handle does until one
  happens. `HandleStaysUsable` also excuses a server that went away, since no code
  connects again, and a refused SSL context, whose `httpsFinish` may close the
  connection's descriptor (`OnlyEarlyFailuresTake` says that nothing else does).
- What becomes of a call on the handle that mainTerminate closes is undefined, and
  no property speaks of it.

## 5. Proofs

| theorem | module | assumptions |
|---|---|---|
| `TypeCorrect`: `Spec => []TypeOK` | `ChticeProofs` | those of the constants |
| `StatusWasReal`: `Spec => []RecordedStatusWasReal` | `NoticeProofs` | - |
| `NoticesHaveStreamers`: `Spec => []NoticeHasStreamer` | `NoticeProofs` | - |
| `OneLateNotice`: `Spec => []AtMostOneLateNotice` | `NoticeProofs` | - |
| `OncePerBroadcast`: `Spec => []AtMostOncePerBroadcast` | `OnceProofs` | `Sync = {}` |
| `ArmsWhenClosed`: `Spec => ArmedOnlyWhenClosed` | `OnceProofs` | `Sync = {}` |
| `PromiseKept`: `Spec => KeepsPromise` | `PromiseProofs` | - |
| `TokenTypeCorrect`, `RefreshIsNotAhead`, `StoredPairIsTheLatest`: `TokenSpec => []...` | `ApiTokenProofs` | - |
| `OnlyTheNewestIsWritten`: `TokenSpec => WritesTheNewest` | `ApiTokenProofs` | - |
| `ProcessTypeCorrect`, `NoDescriptorLeaks`, `OnlyRefusedContextsTake`, `HandleComesBack`, `RowsGoToTheirStatement`, `HandleIsGood`: `ProcessSpec => []...` | `BotProcessProofs` | - |
| `SettingFound`: `TextSpec => []SettingIsTheSections` | `TextInputProofs` | - |
| `CutRefused`: `TextSpec => []CutAnswerIsRefused`; `TextTypes`: `TextSpec => []TextTypeOK` | `TextInputProofs` | `AnswerAssumption` |
| `TrimIsTight`: what `Trim` removes of a text, and that it removes all of it | `TextInputProofs` | - |

They hold for any set of streamers, users, syncs, titles, runs, threads,
descriptors, lines and lengths of answers, any bounds and any faults, with the
assumptions the modules state of their constants. The arguments:

- *Types.* `TypeOK` is inductive as it stands: besides types it says at which
  control points `dCur`, `bCur` and `tCur[p]` hold a record and the lists are
  not empty. One lemma per process.
- *Recorded status.* The property is strengthened to every record in flight: the
  rows of the table, of `dList`, `dCur`, `tList[p]` and `tCur[p]` are all records
  the platform once had. Polling makes such a record, writing only moves one,
  and the platform only moves forward.
- *Streamers.* No statement deletes a streamer row, and a notice is made only by
  a handler that has seen or inserted one.
- *Late notices.* `RowInv`: a command that has not inserted its notice yet has a
  serial number no row, list or count has; and a notice that was posted late is in
  neither the table nor the list. It never comes back, so there is no second time.
- *Once per broadcast.* `DaemonInv`: with no sync the daemon is the only writer,
  so its list agrees with the table, and an UPDATE never goes back to an earlier broadcast
  and reopens only with a new one. `HistInv` adds that nobody was told of a
  broadcast the table has not reached, and that a notice which is due (in the
  list, or `WAIT` on a channel recorded open) has no more messages for the recorded broadcast
  than lost marks. The property itself is not inductive: it says nothing of which
  notices are still due.
- *The promise.* A refinement by cases: each statement, message or crash of any
  process is a step of `NoticePromise` on `Owed` and `Closed`, or a stutter.
  `RearmInv` says that the daemon arms only for a close it has written, which
  holds beside any number of syncs where `DaemonInv` does not; `RowInv` says that
  a new subscription was never told of anything. A fault makes at most
  the notice in hand owed again, and a step of a sync leaves what is owed alone.
- *Tokens.* Nothing keeps two runs apart, yet only one writes: a run that was
  granted a pair is the only one that holds the newest (`OnlyWriter`), every
  other one holds something older, which the server refuses (`GrantInv`). A row that is
  new therefore holds the newest (`OnlyTheNewestIsWritten`). Then
  the rows follow the writer: `OrderInv` for any cut, as long as answers are
  whole, and `Settled`/`Halfway` for the run without failures.
- *Descriptors.* `SockInv`: `NothingLeaks` is inductive, because `httpsFinish` is
  on every way out and `NewSocket` overwrites whatever `sock` held; a handle that
  is not connected has no descriptor; and until a context is refused a call's
  `sock` and the handle's descriptor are their own (`OwnersKnown`). A library call
  that fails moves no descriptor but the handle's (`ServerFailsKeeps`).
- *The handle.* `HandleInv`: while the loop runs it is connected or lost, and it is
  lost only after a race, a server that went away or a refused context. Those are
  never forgotten (`HistoryStays`), and without the last the descriptor is its own
  by `SockInv`.
- *Results.* `AloneInv`: while no two threads were inside together, at most one is
  inside, none while a result waits, and the result that waits is that of the one
  thread before its mysql_store_result. `ResultHasOwner` and `StoresItsOwn` are
  parts of it and not inductive: they do not say who is inside. One lemma for each
  move of a thread: to begin, to end, to store, to fail.
- *Types of the process.* `TodoOK` says where each thread is in its calls,
  `PhaseOK` where the main thread is in its loop.
- *Settings.* The loop's `current_section` is the section of the lines read so
  far, and none of them sets the key (`IniInv`). Trimming and searching stay
  opaque here: the argument holds for whatever they compute.
- *Trimming.* `TrimIsTight` rests on what the library's searches find: the first
  and the last place that is not blank.
- *Cut answers.* `AnswerInv`: what was read is a beginning of the answer. If the
  opening brace is in it, the text handed to the parser is a beginning of the
  text that the whole answer gives, up to some closing brace. The parser does not
  look ahead (`ScannedPrefix`), what it refused stays refused (`RefusedForGood`),
  and so no object is the beginning of another (`ObjectsArePrefixFree`): the cut
  text is refused or is the whole object. The parser's state is a recursive
  function of the place in the text; that it exists and is what its equation says
  (`ScanExists`, `ScannedDef`), and the lemmas above, are inductions over the
  length. Induction rules take an operator, which the provers cannot instantiate,
  so they are made with sets: a set of numbers that has 0, and n + 1 whenever it
  has n, has all of them (`AllNaturals`), since the naturals are well-founded.

The inductive invariants were checked with TLC on the instances of section 3
before they were proved.

Only model-checked: `StatusConverges` and `SubscribersNotified`, since liveness
under fairness is out of the prover's reach. Every other property of a passing run
is a theorem.

## 6. Not modelled

- *Socket server and client.* Libraries that no program of the repository calls:
  there is no order of calls to check them against.
- *Live detail* (`chtice_batch detail`), *help*: print or reply, and change
  nothing. *sync_all* starts a process, which is `ChticeBatch`; that a library
  thread waits for it in popen is not modelled.
- *Names, categories and pictures of streamers*: some go into statements
  unescaped (dbquery.cpp:204); the only texts told apart are those the code tells
  apart, empty and not empty.
- *utilGetEnvVar* is the loop of `utilGetIniVar` without sections and trimming;
  *utilLogging*, *utilExecutePopenCommand*, the setters of the HTTPS record and
  the text of requests and messages are input, output and wording.
- *Seconds*: expiry is a flag, waits and timeouts end at some time.
- *gethostbyname* in two threads at once (https.cpp:95): all requests of the bot
  ask for the same host.
