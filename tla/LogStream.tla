----------------------------- MODULE LogStream -----------------------------
(***************************************************************************)
(* asio_log_output_stream_base: log entries are written to a socket that   *)
(* may fail at any write.  While there is no connection the entries go to  *)
(* a temporary_chunk_storage, a file that is replayed before the next      *)
(* entry is sent.  A new connection begins with the stream header and the  *)
(* remembered first entry.  All of it runs in the one thread that holds    *)
(* the lock of the backend, so finish_entry is one step; what happens at   *)
(* each of its writes is a choice in that step.                            *)
(***************************************************************************)
EXTENDS Integers, Sequences

CONSTANTS
    MaxEntries,     \* bound: entries logged
    MaxConns        \* bound: connections made

ASSUME LogStreamAssumption == MaxEntries \in Nat /\ MaxConns \in Nat

VARIABLES
    streamPhase,    \* "new", "running", "finished"
    count,          \* the entries made so far are 1..count
    values, idx,    \* the two buffers of the double_buffer, the current one
    open,           \* _socket.is_open()
    expired,        \* _should_reconnect has expired
    first,          \* _first
    bgn,            \* _bgn, empty until an entry was sent as the first one
    file, at,       \* the chunks in the temporary file and the position in it
    done,           \* _done # 0
    conns,          \* history: what was written to each connection
    replayFailed    \* history: a connection failed during for_each_chunk

streamVars == <<streamPhase, count, values, idx, open, expired, first, bgn, file, at, done,
          conns, replayFailed>>

\* A chunk is the sequence of the entries that were appended to one buffer.
Chunk == Seq(1..MaxEntries)

Header == [kind |-> "header", chunk |-> <<>>]
Separator == [kind |-> "sep", chunk |-> <<>>]
Footer == [kind |-> "footer", chunk |-> <<>>]
Entry(chunk) == [kind |-> "entry", chunk |-> chunk]

StreamInit ==
    /\ streamPhase = "new"
    /\ count = 0
    /\ values = [i \in 0..1 |-> <<>>]
    /\ idx = 0
    /\ open = FALSE
    /\ expired = TRUE
    /\ first = TRUE
    /\ bgn = <<>>
    /\ file = <<>>
    /\ at = 0
    /\ done = FALSE
    /\ conns = <<>>
    /\ replayFailed = FALSE

-----------------------------------------------------------------------------
(* double_buffer and temporary_chunk_storage.                              *)

NextIdx == 1 - idx

\* Mutant of SwapBuffers: the entry that was just sent is sent again.
SwapWithoutClear ==
    /\ idx' = NextIdx
    /\ UNCHANGED values

\* swap(), then the buffer for the next entry is emptied.
SwapBuffers ==
    /\ idx' = NextIdx
    /\ values' = [values EXCEPT ![idx] = <<>>]

\* add_chunk writes at the current position of the file.  All entries take
\* the same room, so it replaces one chunk or extends the file.
Put(f, pos, chunk) ==
    IF pos < Len(f) THEN [f EXCEPT ![pos + 1] = chunk] ELSE Append(f, chunk)

Store(f, pos, chunk) ==
    /\ file' = Put(f, pos, chunk)
    /\ at' = pos + 1
    /\ done' = TRUE

-----------------------------------------------------------------------------
(* Sending.                                                                *)

\* What _handle_entry has to send: the stored chunks if the storage says it
\* is not empty, then the new one.
Pending(chunk) == (IF done THEN file ELSE <<>>) \o <<chunk>>

\* The entries as they go out: a new connection first repeats the first one.
WithFirst(entries) ==
    IF first /\ bgn # <<>> THEN <<bgn>> \o entries ELSE entries

\* The writes of _send_sep, one call of _do_send each.
Writes(entries) ==
    LET all == WithFirst(entries) IN
    [i \in 1..(2 * Len(all)) |->
        CASE i % 2 = 0                -> Entry(all[i \div 2])
          [] first /\ i = 1          -> Header
          [] OTHER                    -> Separator]

\* Which of the entries was being sent when the write after the k-th failed.
InProgress(entries, k) ==
    LET extra == Len(WithFirst(entries)) - Len(entries) IN
    IF k \div 2 < extra THEN 1 ELSE (k \div 2) - extra + 1

\* _send_first remembers the first entry as soon as the header was sent.
RememberFirst(entries, k) ==
    IF first /\ bgn = <<>> /\ k >= 1 THEN entries[1] ELSE bgn

\* The first k writes succeed on the last of these connections.
Written(cs, writes, k) ==
    [cs EXCEPT ![Len(cs)] = @ \o SubSeq(writes, 1, k)]

NotFirstAgain == FALSE                   \* mutant of FirstAgain

\* After a failure the next connection has to begin with the header.
FirstAgain == TRUE

\* _socket is open: send everything, or fail at any write.  A failure while
\* the stored chunks are replayed leaves the file as it is, positioned after
\* the chunk being sent; otherwise the replayed file was cleared.
SendAll(chunk, cs) ==
    LET entries == Pending(chunk)
        writes == Writes(entries)
    IN \/ /\ conns' = Written(cs, writes, Len(writes))
          /\ bgn' = RememberFirst(entries, Len(writes))
          /\ file' = <<>>
          /\ at' = 0
          /\ open' = TRUE
          /\ first' = FALSE
          /\ UNCHANGED <<done, replayFailed>>
       \/ \E k \in 0..(Len(writes) - 1) :
            LET j == InProgress(entries, k) IN
            /\ conns' = Written(cs, writes, k)
            /\ bgn' = RememberFirst(entries, k)
            /\ open' = FALSE
            /\ first' = FirstAgain
            /\ IF j < Len(entries)
               THEN Store(file, j, chunk) /\ replayFailed' = TRUE
               ELSE Store(<<>>, 0, chunk) /\ UNCHANGED replayFailed

\* _handle_entry without a connection.
StoreEntry ==
    /\ Store(file, at, values[NextIdx])
    /\ UNCHANGED <<open, bgn, conns, replayFailed>>

-----------------------------------------------------------------------------
(* The operations of log_output_stream.                                    *)

BeginStream ==
    /\ streamPhase = "new"
    /\ streamPhase' = "running"
    /\ UNCHANGED <<count, values, idx, open, expired, first, bgn, file, at, done,
                   conns, replayFailed>>

EntryAppend ==
    /\ streamPhase = "running"
    /\ values[NextIdx] = <<>>           \* one append per entry
    /\ count < MaxEntries
    /\ count' = count + 1
    /\ values' = [values EXCEPT ![NextIdx] = Append(@, count + 1)]
    /\ UNCHANGED <<streamPhase, idx, open, expired, first, bgn, file, at, done, conns,
                   replayFailed>>

\* finish_entry tries to connect again, at most once a second, and hands the
\* entry to _handle_entry.
FinishEntry ==
    /\ streamPhase = "running"
    /\ values[NextIdx] # <<>>
    /\ SwapBuffers
    /\ \/ /\ \/ open /\ UNCHANGED expired
             \/ ~open /\ expired /\ Len(conns) < MaxConns /\ expired' = FALSE
          /\ SendAll(values[NextIdx], IF open THEN conns ELSE Append(conns, <<>>))
       \/ /\ ~open
          /\ \/ ~expired /\ UNCHANGED <<expired, first>>
             \/ expired /\ expired' = FALSE /\ first' = TRUE    \* connect fails
          /\ StoreEntry
    /\ UNCHANGED <<streamPhase, count>>

\* finish_stream sends the footer and ignores failures; what is stored then
\* is not sent any more.
FinishStream ==
    /\ streamPhase = "running"
    /\ values[NextIdx] = <<>>
    /\ streamPhase' = "finished"
    /\ \/ \* the write fails
          /\ open \/ ~expired
          /\ UNCHANGED <<open, expired, first, conns>>
       \/ /\ open
          /\ conns' = Written(conns, <<Footer>>, 1)
          /\ UNCHANGED <<open, expired, first>>
       \/ \* connect fails
          /\ ~open /\ expired
          /\ expired' = FALSE
          /\ first' = TRUE
          /\ UNCHANGED <<open, conns>>
       \/ \* connect succeeds, the write may fail
          /\ ~open /\ expired
          /\ Len(conns) < MaxConns
          /\ open' = TRUE
          /\ expired' = FALSE
          /\ \E k \in 0..1 : conns' = Written(Append(conns, <<>>), <<Footer>>, k)
          /\ UNCHANGED first
    /\ UNCHANGED <<count, values, idx, bgn, file, at, done, replayFailed>>

\* The second of _should_reconnect passes.
Expire ==
    /\ streamPhase = "running"
    /\ ~expired
    /\ expired' = TRUE
    /\ UNCHANGED <<streamPhase, count, values, idx, open, first, bgn, file, at, done, conns,
                   replayFailed>>

StreamNext == BeginStream \/ EntryAppend \/ FinishEntry \/ FinishStream \/ Expire

StreamSpec == StreamInit /\ [][StreamNext]_streamVars

-----------------------------------------------------------------------------
(* Properties.                                                             *)

\* What the peer sees of a connection is the header and then entries with
\* separators between them, cut off at most once, where the connection broke;
\* the footer only ever follows a whole entry or stands alone.
StreamsWellFormed ==
    \A c \in 1..Len(conns) : \A i \in 1..Len(conns[c]) :
        LET kind == conns[c][i].kind IN
        \/ kind = "footer" /\ i = Len(conns[c]) /\ (i = 1 \/ conns[c][i - 1].kind = "entry")
        \/ kind = (CASE i = 1 -> "header" [] i > 1 /\ i % 2 = 1 -> "sep" [] OTHER -> "entry")

\* Every connection identifies itself with the very first entry of the log.
ConnectionsBeginWithTheFirst ==
    \A c \in 1..Len(conns) :
        Len(conns[c]) >= 2 => conns[c][2] = Entry(<<1>>)

Sent(e) ==
    \E c \in 1..Len(conns) : \E i \in 1..Len(conns[c]) :
        \E j \in 1..Len(conns[c][i].chunk) : conns[c][i].chunk[j] = e

Stored(e) == \E i \in 1..Len(file) : file[i] = <<e>>

Finished == {e \in 1..count : values[NextIdx] # <<e>>}

NothingLost == \A e \in Finished : Sent(e) \/ Stored(e)

\* Unless a connection broke while the storage was being replayed, a finished
\* entry has been written or waits in the file.
LostOnlyByFailedReplay == replayFailed \/ NothingLost

\* Unless a connection broke during a replay, the chunks are single entries,
\* nothing that waits in the file was sent before (but for the first entry,
\* whose copy opens every connection) and it waits in the order it was made.
StoredAreUnsentAndInOrder ==
    replayFailed \/
        /\ \A i \in 1..Len(file) : Len(file[i]) = 1
        /\ \A i \in 1..Len(file) : file[i][1] = 1 \/ ~Sent(file[i][1])
        /\ \A i, j \in 1..Len(file) : i < j => file[i][1] < file[j][1]

\* Each peer can read what it is sent, and knows whose log it is
\* (_send_first, _send_sep, _handle_entry).
ConnectionsAreWellFormed == StreamsWellFormed /\ ConnectionsBeginWithTheFirst

\* No entry is lost, repeated or reordered by the buffers and the temporary
\* file but by a connection that breaks during a replay (finish_entry,
\* add_chunk, for_each_chunk).
EntriesAreKept == LostOnlyByFailedReplay /\ StoredAreUnsentAndInOrder

\* "Adds a new chunk to the storage": the others stay.
AddChunkAdds == NothingLost
=============================================================================
