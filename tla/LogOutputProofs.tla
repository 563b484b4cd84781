--------------------------- MODULE LogOutputProofs ---------------------------
(***************************************************************************)
(* Proofs about LogStream, for any number of entries and connections, and  *)
(* about LogProxy, for any number of threads, severities and calls.        *)
(***************************************************************************)
EXTENDS LogStream, LogProxy, SequenceTheorems, FiniteSetTheorems, TLAPS

-----------------------------------------------------------------------------
(* The log stream.                                                         *)

Chunks == Seq(Nat)
Items == [kind : {"header", "sep", "entry", "footer"}, chunk : Chunks]

StreamTypeOK ==
    /\ streamPhase \in {"new", "running", "finished"}
    /\ count \in Nat
    /\ values \in [0..1 -> Chunks]
    /\ idx \in 0..1
    /\ open \in BOOLEAN /\ expired \in BOOLEAN /\ first \in BOOLEAN
    /\ bgn \in Chunks
    /\ file \in Seq(Chunks)
    /\ at \in Nat
    /\ done \in BOOLEAN
    /\ conns \in Seq(Seq(Items))
    /\ replayFailed \in BOOLEAN

\* The entry that is being made, if any, is the last one; Fin are finished.
BufferInv == values[NextIdx] = <<>> \/ (values[NextIdx] = <<count>> /\ count >= 1)
Fin == IF values[NextIdx] = <<>> THEN count ELSE count - 1

(***************************************************************************)
(* The file is empty unless it was stored to, and unless a replay failed   *)
(* it is written to at its end.                                            *)
(***************************************************************************)
FileInv ==
    /\ ~done => file = <<>>
    /\ at <= Len(file) /\ (file # <<>> => at >= 1)
    /\ ~replayFailed => at = Len(file)

(***************************************************************************)
(* Header, entry, separator, entry and so on; while the stream runs an     *)
(* open connection ends with an entry, and a new one is to be begun with   *)
(* the header.                                                             *)
(***************************************************************************)
Regular(i) == IF i = 1 THEN "header" ELSE IF i % 2 = 1 THEN "sep" ELSE "entry"

ConnInv ==
    /\ ~open => first
    /\ streamPhase # "finished" =>
         \A c \in 1..Len(conns) : \A i \in 1..Len(conns[c]) : conns[c][i].kind = Regular(i)
    /\ open /\ streamPhase # "finished" =>
         /\ ~first /\ Len(conns) >= 1
         /\ Len(conns[Len(conns)]) >= 2 /\ Len(conns[Len(conns)]) % 2 = 0
    /\ StreamsWellFormed

(***************************************************************************)
(* What is remembered as the first entry is the first entry; as long as    *)
(* nothing is remembered it waits in front of all the others.              *)
(***************************************************************************)
FirstInv ==
    /\ bgn = <<>> \/ bgn = <<1>>
    /\ bgn = <<>> => first /\ IF file = <<>> THEN Fin = 0 ELSE file[1] = <<1>>
    /\ ConnectionsBeginWithTheFirst

(***************************************************************************)
(* Unless a replay failed: entries are stored one by one, all that were    *)
(* sent or are stored were finished.                                       *)
(***************************************************************************)
KeptInv ==
    replayFailed \/
        /\ \A i \in 1..Len(file) : Len(file[i]) = 1 /\ file[i][1] \in 1..Fin
        /\ \A e \in Nat : Sent(e) => e \in 1..Fin
        /\ \A i \in 1..Len(file) : file[i][1] = 1 \/ ~Sent(file[i][1])
        /\ \A i, j \in 1..Len(file) : i < j => file[i][1] < file[j][1]
        /\ \A e \in 1..Fin : Sent(e) \/ Stored(e)

StreamInv == StreamTypeOK /\ BufferInv /\ FileInv /\ ConnInv /\ FirstInv /\ KeptInv

-----------------------------------------------------------------------------
(* What a send writes, and where it fails.                                 *)

\* The entries of a send, with the remembered one in front of them or not.
Extra == IF first /\ bgn # <<>> THEN 1 ELSE 0

\* The first entry of the log comes before what is sent on a new connection.
LEMMA WithFirstFacts ==
    ASSUME StreamTypeOK, NEW entries \in Seq(Chunks)
    PROVE  /\ WithFirst(entries) \in Seq(Chunks)
           /\ Len(WithFirst(entries)) = Len(entries) + Extra
           /\ \A i \in 1..Len(entries) : WithFirst(entries)[i + Extra] = entries[i]
           /\ Extra = 1 => WithFirst(entries)[1] = bgn
<1>1. CASE first /\ bgn # <<>>
    BY <1>1 DEF WithFirst, Extra, StreamTypeOK
<1>2. CASE ~(first /\ bgn # <<>>)
    BY <1>2 DEF WithFirst, Extra
<1>. QED
    BY <1>1, <1>2

\* The entry that an even position of a connection stands for.
LEMMA Halves ==
    ASSUME NEW n \in Nat, NEW i \in 1..(2 * n)
    PROVE  /\ i % 2 = 0 => i \div 2 \in 1..n /\ 2 * (i \div 2) = i
           /\ i % 2 \in {0, 1}
OBVIOUS

\* Entries stand at the even positions of a connection.
LEMMA Doubles ==
    ASSUME NEW n \in Nat, NEW i \in 1..n
    PROVE  2 * i \in 1..(2 * n) /\ (2 * i) % 2 = 0 /\ (2 * i) \div 2 = i
OBVIOUS

\* send_entries writes a header or a separator before every entry.
LEMMA WritesFacts ==
    ASSUME StreamTypeOK, NEW entries \in Seq(Chunks)
    PROVE  /\ Writes(entries) \in Seq(Items)
           /\ Len(Writes(entries)) = 2 * Len(WithFirst(entries))
           /\ Len(WithFirst(entries)) \in Nat
           /\ \A i \in 1..Len(WithFirst(entries)) :
                Writes(entries)[2 * i] = Entry(WithFirst(entries)[i])
           /\ \A i \in 1..Len(Writes(entries)) :
                /\ Writes(entries)[i].kind =
                     IF i % 2 = 0 THEN "entry" ELSE IF first /\ i = 1 THEN "header" ELSE "sep"
                /\ i % 2 # 0 => Writes(entries)[i].chunk = <<>>
                /\ i % 2 = 0 => /\ i \div 2 \in 1..Len(WithFirst(entries))
                                /\ Writes(entries)[i].chunk = WithFirst(entries)[i \div 2]
<1>. DEFINE all == WithFirst(entries)
            item(i) == CASE i % 2 = 0       -> Entry(all[i \div 2])
                         [] first /\ i = 1  -> Header
                         [] OTHER           -> Separator
<1>1. all \in Seq(Chunks) /\ Len(all) \in Nat
    BY WithFirstFacts
<1>2. Writes(entries) = [i \in 1..(2 * Len(all)) |-> item(i)]
    BY DEF Writes
<1>. HIDE DEF all
<1>3. ASSUME NEW i \in 1..(2 * Len(all)), i % 2 = 0
      PROVE  item(i) = Entry(all[i \div 2]) /\ i \div 2 \in 1..Len(all)
    BY <1>1, <1>3, Halves
<1>4. ASSUME NEW i \in 1..(2 * Len(all)), i % 2 # 0
      PROVE  item(i) = IF first /\ i = 1 THEN Header ELSE Separator
    BY <1>1, <1>4, Halves
<1>. HIDE DEF item
<1>5. ASSUME NEW i \in 1..(2 * Len(all)) PROVE item(i) \in Items
  <2>1. CASE i % 2 = 0
    <3>1. all[i \div 2] \in Chunks
        BY <1>1, <1>3, <2>1
    <3>. QED
        BY <1>3, <2>1, <3>1 DEF Entry, Items
  <2>2. CASE i % 2 # 0
    <3>1. Header \in Items /\ Separator \in Items
      <4>1. <<>> \in Chunks
        BY DEF Chunks
      <4>. QED
        BY <4>1 DEF Header, Separator, Items
    <3>. QED
        BY <1>4, <2>2, <3>1
  <2>. QED
    BY <2>1, <2>2
<1>6. Writes(entries) \in Seq(Items) /\ Len(Writes(entries)) = 2 * Len(all)
    BY <1>1, <1>2, <1>5
<1>7. ASSUME NEW i \in 1..Len(all) PROVE Writes(entries)[2 * i] = Entry(all[i])
    BY <1>1, <1>2, <1>3, <1>7, Doubles
<1>8. ASSUME NEW i \in 1..(2 * Len(all))
      PROVE  /\ Writes(entries)[i].kind =
                  IF i % 2 = 0 THEN "entry" ELSE IF first /\ i = 1 THEN "header" ELSE "sep"
             /\ i % 2 # 0 => Writes(entries)[i].chunk = <<>>
             /\ i % 2 = 0 => /\ i \div 2 \in 1..Len(all)
                             /\ Writes(entries)[i].chunk = all[i \div 2]
  <2>1. CASE i % 2 = 0
    BY <1>2, <1>3, <2>1 DEF Entry
  <2>2. CASE i % 2 # 0
    BY <1>2, <1>4, <2>2 DEF Header, Separator
  <2>. QED
    BY <2>1, <2>2
<1>. QED
    BY <1>1, <1>6, <1>7, <1>8 DEF all

\* The first k writes follow what was written to the last connection.
Extended(new, cs, writes, k) ==
    /\ new \in Seq(Seq(Items))
    /\ Len(new) = Len(cs)
    /\ \A c \in 1..Len(cs) : c # Len(cs) => new[c] = cs[c]
    /\ Len(new[Len(cs)]) = Len(cs[Len(cs)]) + k
    /\ Len(cs[Len(cs)]) \in Nat
    /\ \A i \in 1..Len(cs[Len(cs)]) : new[Len(cs)][i] = cs[Len(cs)][i]
    /\ \A i \in 1..k : new[Len(cs)][Len(cs[Len(cs)]) + i] = writes[i]

\* k of the writes have come through: they stand at the end of the last
\* connection.
LEMMA WrittenFacts ==
    ASSUME NEW cs \in Seq(Seq(Items)), Len(cs) >= 1, NEW writes \in Seq(Items),
           NEW k \in 0..Len(writes)
    PROVE  Extended(Written(cs, writes, k), cs, writes, k)
<1>. DEFINE sub == SubSeq(writes, 1, k)
            last == cs[Len(cs)]
<1>1. sub \in Seq(Items) /\ Len(sub) = k /\ \A i \in 1..k : sub[i] = writes[i]
    OBVIOUS
<1>2. last \in Seq(Items) /\ Len(last) \in Nat
    OBVIOUS
<1>3. Written(cs, writes, k) = [cs EXCEPT ![Len(cs)] = last \o sub]
    BY DEF Written
<1>. HIDE DEF sub, last
<1>4. /\ last \o sub \in Seq(Items) /\ Len(last \o sub) = Len(last) + k
      /\ \A i \in 1..Len(last) : (last \o sub)[i] = last[i]
      /\ \A i \in 1..k : (last \o sub)[Len(last) + i] = writes[i]
  <2>1. last \o sub \in Seq(Items) /\ Len(last \o sub) = Len(last) + k
    BY <1>1, <1>2, ConcatProperties
  <2>2. \A i \in 1..(Len(last) + Len(sub)) :
          (last \o sub)[i] = IF i <= Len(last) THEN last[i] ELSE sub[i - Len(last)]
    BY <1>1, <1>2, ConcatProperties
  <2>3. ASSUME NEW i \in 1..k PROVE (last \o sub)[Len(last) + i] = writes[i]
    BY <1>1, <1>2, <2>2
  <2>. QED
    BY <1>1, <1>2, <2>1, <2>2, <2>3
<1>5. /\ Written(cs, writes, k) \in Seq(Seq(Items))
      /\ Len(Written(cs, writes, k)) = Len(cs)
      /\ Written(cs, writes, k)[Len(cs)] = last \o sub
      /\ \A c \in 1..Len(cs) : c # Len(cs) => Written(cs, writes, k)[c] = cs[c]
    BY <1>3, <1>4
<1>. QED
    BY <1>2, <1>4, <1>5 DEF last, Extended

-----------------------------------------------------------------------------
(* _handle_entry sends what is stored and then the new entry, over the     *)
(* connection there is or over one that was just made.                     *)

Sending(chunk, cs) ==
    /\ StreamInv
    /\ streamPhase = "running"
    /\ chunk = values[NextIdx] /\ chunk # <<>>
    /\ \/ open /\ cs = conns
       \/ ~open /\ cs = Append(conns, <<>>)

\* A chunk is sent after what waits in the file.
LEMMA PendingFacts ==
    ASSUME StreamTypeOK, FileInv, NEW chunk \in Chunks
    PROVE  /\ Pending(chunk) \in Seq(Chunks)
           /\ Len(Pending(chunk)) = Len(file) + 1 /\ Len(file) \in Nat
           /\ \A i \in 1..Len(file) : Pending(chunk)[i] = file[i]
           /\ Pending(chunk)[Len(file) + 1] = chunk
<1>1. (IF done THEN file ELSE <<>>) = file
    BY DEF FileInv
<1>2. file \in Seq(Chunks) /\ Len(file) \in Nat
    BY DEF StreamTypeOK
<1>3. Pending(chunk) = file \o <<chunk>>
    BY <1>1 DEF Pending
<1>. QED
    BY <1>2, <1>3

\* What is known when the writing begins.
Ready(chunk, cs) ==
    /\ chunk = <<count>> /\ chunk \in Chunks /\ count >= 1 /\ Fin = count - 1
    /\ cs \in Seq(Seq(Items)) /\ Len(cs) >= 1
    /\ \A c \in 1..Len(cs) : c # Len(cs) => c \in 1..Len(conns) /\ cs[c] = conns[c]
    /\ Len(conns) <= Len(cs)
    /\ open => cs = conns /\ ~first /\ Len(cs[Len(cs)]) >= 2 /\ Len(cs[Len(cs)]) % 2 = 0
    /\ ~open => first /\ cs[Len(cs)] = <<>> /\ Len(cs[Len(cs)]) = 0 /\ Len(cs) = Len(conns) + 1
    /\ first => WithFirst(Pending(chunk))[1] = <<1>>
    /\ first /\ bgn = <<>> => Pending(chunk)[1] = <<1>>

\* What is about to be sent is well typed and not on the connection yet.
LEMMA SendingFacts ==
    ASSUME NEW chunk, NEW cs, Sending(chunk, cs)
    PROVE  Ready(chunk, cs)
<1>. USE DEF Sending, StreamInv
<1>1. chunk = <<count>> /\ chunk \in Chunks /\ count >= 1 /\ Fin = count - 1
    BY DEF BufferInv, Fin, StreamTypeOK, NextIdx, Chunks
<1>2. /\ cs \in Seq(Seq(Items)) /\ Len(cs) >= 1
      /\ \A c \in 1..Len(cs) : c # Len(cs) => c \in 1..Len(conns) /\ cs[c] = conns[c]
      /\ Len(conns) <= Len(cs)
      /\ open => cs = conns /\ ~first /\ Len(cs[Len(cs)]) >= 2 /\ Len(cs[Len(cs)]) % 2 = 0
      /\ ~open => first /\ cs[Len(cs)] = <<>> /\ Len(cs) = Len(conns) + 1
  <2>1. CASE open
    <3>1. cs = conns /\ conns \in Seq(Seq(Items)) /\ Len(conns) \in Nat
        BY <2>1 DEF StreamTypeOK
    <3>2. /\ ~first /\ Len(conns) >= 1
          /\ Len(conns[Len(conns)]) >= 2 /\ Len(conns[Len(conns)]) % 2 = 0
        BY <2>1 DEF ConnInv
    <3>3. /\ cs \in Seq(Seq(Items)) /\ Len(cs) >= 1
          /\ \A c \in 1..Len(cs) : c # Len(cs) => c \in 1..Len(conns) /\ cs[c] = conns[c]
          /\ Len(conns) <= Len(cs)
        BY <3>1, <3>2
    <3>4. ~first /\ Len(cs[Len(cs)]) >= 2 /\ Len(cs[Len(cs)]) % 2 = 0
        BY <3>1, <3>2
    <3>. QED
        BY <2>1, <3>1, <3>3, <3>4
  <2>2. CASE ~open
    <3>1. <<>> \in Seq(Items)
        OBVIOUS
    <3>2. cs = Append(conns, <<>>) /\ first
        BY <2>2 DEF ConnInv
    <3>3. conns \in Seq(Seq(Items)) /\ Len(conns) \in Nat
        BY DEF StreamTypeOK
    <3>4. /\ cs \in Seq(Seq(Items)) /\ Len(cs) = Len(conns) + 1 /\ cs[Len(cs)] = <<>>
          /\ \A c \in 1..Len(conns) : cs[c] = conns[c]
        BY <3>1, <3>2, <3>3, AppendProperties
    <3>. QED
        BY <2>2, <3>2, <3>3, <3>4
  <2>. QED
    BY <2>1, <2>2
<1>3. ASSUME first, bgn = <<>> PROVE Pending(chunk)[1] = <<1>>
  <2>1. CASE file = <<>>
    BY <1>1, <1>3, <2>1, PendingFacts DEF FirstInv
  <2>2. CASE file # <<>>
    <3>1. 1 \in 1..Len(file)
        BY <2>2 DEF StreamTypeOK
    <3>. QED
        BY <1>1, <1>3, <2>2, <3>1, PendingFacts DEF FirstInv
  <2>. QED
    BY <2>1, <2>2
<1>4. first => WithFirst(Pending(chunk))[1] = <<1>>
  <2>1. CASE first /\ bgn # <<>>
    BY <1>1, <2>1, PendingFacts, WithFirstFacts DEF Extra, FirstInv
  <2>2. CASE first /\ bgn = <<>>
    BY <1>3, <2>2 DEF WithFirst
  <2>. QED
    BY <2>1, <2>2
<1>. QED
    BY <1>1, <1>2, <1>3, <1>4 DEF Ready

\* The writes go on where the connection is: header, entry, separator, entry.
LEMMA WritesAreRegular ==
    ASSUME NEW chunk, NEW cs, Sending(chunk, cs),
           NEW i \in 1..Len(Writes(Pending(chunk)))
    PROVE  Writes(Pending(chunk))[i].kind = Regular(Len(cs[Len(cs)]) + i)
<1>. DEFINE L == Len(cs[Len(cs)])
            W == Writes(Pending(chunk))
<1>0. Ready(chunk, cs)
    BY SendingFacts
<1>1. /\ L \in Nat
      /\ open => ~first /\ L >= 2 /\ L % 2 = 0
      /\ ~open => first /\ L = 0
  <2>1. cs \in Seq(Seq(Items)) /\ Len(cs) >= 1
    BY <1>0 DEF Ready
  <2>2. cs[Len(cs)] \in Seq(Items)
    BY <2>1
  <2>3. /\ open => ~first /\ L >= 2 /\ L % 2 = 0
        /\ ~open => first /\ L = 0
    BY <1>0 DEF Ready
  <2>4. L \in Nat
    BY <2>2
  <2>. QED
    BY <2>3, <2>4
<1>2. /\ W[i].kind = IF i % 2 = 0 THEN "entry" ELSE IF first /\ i = 1 THEN "header" ELSE "sep"
      /\ i \in Nat /\ i >= 1
  <2>1. Pending(chunk) \in Seq(Chunks) /\ StreamTypeOK
    BY <1>0, PendingFacts DEF Ready, Sending, StreamInv
  <2>2. Len(W) \in Nat
    BY <2>1, WritesFacts
  <2>. QED
    BY <2>1, <2>2, WritesFacts
<1>. HIDE DEF L, W
<1>3. W[i].kind = Regular(L + i)
  <2>1. CASE open
    <3>1. (L + i) % 2 = i % 2 /\ L + i # 1
        BY <1>1, <1>2, <2>1
    <3>. QED
        BY <1>1, <1>2, <2>1, <3>1 DEF Regular
  <2>2. CASE ~open
    BY <1>1, <1>2, <2>2 DEF Regular
  <2>. QED
    BY <2>1, <2>2
<1>. QED
    BY <1>3 DEF L, W

\* An item that is regular keeps its place in a well-formed stream.
AllRegular == \A c \in 1..Len(conns) : \A i \in 1..Len(conns[c]) : conns[c][i].kind = Regular(i)

\* Connections that are regular are as StreamsWellFormed says.
LEMMA RegularIsWellFormed == AllRegular => StreamsWellFormed
<1>. SUFFICES ASSUME AllRegular, NEW c \in 1..Len(conns), NEW i \in 1..Len(conns[c])
              PROVE  conns[c][i].kind = (CASE i = 1 -> "header" [] i > 1 /\ i % 2 = 1 -> "sep"
                                           [] OTHER -> "entry")
    BY DEF StreamsWellFormed
<1>1. CASE i = 1
    BY <1>1 DEF Regular, AllRegular
<1>2. CASE i # 1 /\ i % 2 = 1
    BY <1>2 DEF Regular, AllRegular
<1>3. CASE i # 1 /\ i % 2 # 1
    BY <1>3 DEF Regular, AllRegular
<1>. QED
    BY <1>1, <1>2, <1>3

\* The same in the state that a step leads to.
LEMMA RegularIsWellFormedNext == AllRegular' => StreamsWellFormed'
BY RegularIsWellFormed, PTL

\* After the first k of the writes.
LEMMA SendRegular ==
    ASSUME NEW chunk, NEW cs, Sending(chunk, cs),
           NEW k \in 0..Len(Writes(Pending(chunk))),
           conns' = Written(cs, Writes(Pending(chunk)), k)
    PROVE  /\ conns' \in Seq(Seq(Items)) /\ Len(conns') >= 1
           /\ \A c \in 1..Len(conns') : \A i \in 1..Len(conns'[c]) : conns'[c][i].kind = Regular(i)
           /\ k = Len(Writes(Pending(chunk))) =>
                Len(conns'[Len(conns')]) >= 2 /\ Len(conns'[Len(conns')]) % 2 = 0
           /\ ConnectionsBeginWithTheFirst'
<1>. DEFINE L == Len(cs[Len(cs)])
            all == WithFirst(Pending(chunk))
            W == Writes(Pending(chunk))
<1>0. Ready(chunk, cs)
    BY SendingFacts
<1>1. /\ cs \in Seq(Seq(Items)) /\ Len(cs) >= 1 /\ Len(cs) \in Nat
      /\ \A c \in 1..Len(cs) : c # Len(cs) => c \in 1..Len(conns) /\ cs[c] = conns[c]
    BY <1>0 DEF Ready
<1>2. open => cs = conns /\ ~first /\ L >= 2 /\ L % 2 = 0
    BY <1>0 DEF Ready
<1>3. ~open => first /\ L = 0
    BY <1>0 DEF Ready
<1>4. Pending(chunk) \in Seq(Chunks) /\ StreamTypeOK /\ Len(Pending(chunk)) >= 1
    BY <1>0, PendingFacts DEF Ready, Sending, StreamInv
<1>5. /\ W \in Seq(Items) /\ Len(W) = 2 * Len(all) /\ Len(all) \in Nat /\ Len(all) >= 1
      /\ \A i \in 1..Len(all) : W[2 * i] = Entry(all[i])
  <2>1. Len(all) >= 1
    BY <1>4, WithFirstFacts DEF Extra
  <2>. QED
    BY <1>4, <2>1, WritesFacts
<1>60. Extended(conns', cs, W, k)
    BY <1>1, <1>5, WrittenFacts
<1>6. /\ Len(conns') = Len(cs) /\ conns' \in Seq(Seq(Items))
      /\ \A c \in 1..Len(cs) : c # Len(cs) => conns'[c] = cs[c]
      /\ Len(conns'[Len(cs)]) = L + k /\ L \in Nat
      /\ \A i \in 1..L : conns'[Len(cs)][i] = cs[Len(cs)][i]
      /\ \A i \in 1..k : conns'[Len(cs)][L + i] = W[i]
    BY <1>60 DEF Extended
<1>7. \A i \in 1..Len(W) : W[i].kind = Regular(L + i)
    BY WritesAreRegular
<1>8. first => all[1] = <<1>>
    BY <1>0 DEF Ready
<1>9. \A c \in 1..Len(conns) : \A i \in 1..Len(conns[c]) : conns[c][i].kind = Regular(i)
    BY DEF Sending, StreamInv, ConnInv
<1>10. \A c \in 1..Len(conns) : Len(conns[c]) >= 2 => conns[c][2] = Entry(<<1>>)
    BY DEF Sending, StreamInv, FirstInv, ConnectionsBeginWithTheFirst
<1>. HIDE DEF L, all, W
<1>11. ASSUME NEW c \in 1..Len(conns'), NEW i \in 1..Len(conns'[c])
       PROVE  conns'[c][i].kind = Regular(i)
  <2>1. CASE c # Len(cs)
    <3>1. c \in 1..Len(conns) /\ conns'[c] = conns[c]
        BY <1>1, <1>6, <2>1
    <3>. QED
        BY <1>9, <3>1
  <2>2. CASE c = Len(cs)
    <3>1. CASE i \in 1..L
      <4>1. open /\ cs = conns
        BY <1>2, <1>3, <3>1
      <4>2. c \in 1..Len(conns) /\ i \in 1..Len(conns[c]) /\ conns'[c][i] = conns[c][i]
        BY <1>1, <1>6, <2>2, <3>1, <4>1 DEF L
      <4>. QED
        BY <1>9, <4>2
    <3>2. CASE i \notin 1..L
      <4>1. PICK m \in 1..k : i = L + m
        <5>1. i - L \in 1..k /\ i = L + (i - L)
            BY <1>6, <2>2, <3>2
        <5>. QED
            BY <5>1
      <4>2. conns'[c][i] = W[m] /\ m \in 1..Len(W)
        BY <1>5, <1>6, <2>2, <4>1 DEF W
      <4>. QED
        BY <1>7, <4>1, <4>2
    <3>. QED
        BY <3>1, <3>2
  <2>. QED
    BY <2>1, <2>2
<1>12. ASSUME NEW c \in 1..Len(conns'), Len(conns'[c]) >= 2
       PROVE  conns'[c][2] = Entry(<<1>>)
  <2>1. CASE c # Len(cs)
    BY <1>1, <1>6, <1>10, <1>12, <2>1, ZenonT(40)
  <2>2. CASE c = Len(cs) /\ open
    <3>1. conns'[c][2] = cs[c][2]
        BY <1>2, <1>6, <2>2
    <3>. QED
        BY <1>1, <1>2, <1>10, <2>2, <3>1 DEF L
  <2>3. CASE c = Len(cs) /\ ~open
    <3>1. L = 0 /\ first /\ k >= 2
        BY <1>3, <1>6, <1>12, <2>3
    <3>2. conns'[c][2] = W[2]
        BY <1>6, <2>3, <3>1
    <3>3. W[2 * 1] = Entry(all[1])
        BY <1>5
    <3>. QED
        BY <1>8, <3>1, <3>2, <3>3
  <2>. QED
    BY <2>1, <2>2, <2>3
<1>13. k = Len(W) => Len(conns'[Len(conns')]) >= 2 /\ Len(conns'[Len(conns')]) % 2 = 0
  <2>1. L % 2 = 0
    BY <1>2, <1>3
  <2>. QED
    BY <1>5, <1>6, <2>1
<1>. QED
    BY <1>1, <1>6, <1>11, <1>12, <1>13 DEF W, ConnectionsBeginWithTheFirst, Entry

\* What was sent is what was sent before, and the entries written out just now.
LEMMA SentAfter ==
    ASSUME NEW chunk, NEW cs, Sending(chunk, cs),
           NEW k \in 0..Len(Writes(Pending(chunk))),
           conns' = Written(cs, Writes(Pending(chunk)), k), NEW e
    PROVE  Sent(e)' <=>
             \/ Sent(e)
             \/ \E m \in 1..Len(WithFirst(Pending(chunk))) :
                  2 * m <= k /\ \E j \in 1..Len(WithFirst(Pending(chunk))[m]) :
                                   WithFirst(Pending(chunk))[m][j] = e
<1>. DEFINE L == Len(cs[Len(cs)])
            all == WithFirst(Pending(chunk))
            W == Writes(Pending(chunk))
<1>0. Ready(chunk, cs)
    BY SendingFacts
<1>1. /\ cs \in Seq(Seq(Items)) /\ Len(cs) >= 1 /\ Len(cs) \in Nat
      /\ \A c \in 1..Len(cs) : c # Len(cs) => c \in 1..Len(conns) /\ cs[c] = conns[c]
      /\ Len(conns) <= Len(cs) /\ Len(conns) \in Nat
  <2>1. Len(conns) \in Nat
    BY DEF Sending, StreamInv, StreamTypeOK
  <2>. QED
    BY <1>0, <2>1 DEF Ready
<1>2. open => cs = conns
    BY <1>0 DEF Ready
<1>3. ~open => L = 0 /\ Len(cs) = Len(conns) + 1
    BY <1>0 DEF Ready
<1>4. Pending(chunk) \in Seq(Chunks) /\ StreamTypeOK
    BY <1>0, PendingFacts DEF Ready, Sending, StreamInv
<1>5. /\ W \in Seq(Items) /\ Len(W) = 2 * Len(all) /\ Len(all) \in Nat
      /\ \A i \in 1..Len(all) : W[2 * i] = Entry(all[i])
      /\ \A i \in 1..Len(W) :
           /\ i % 2 # 0 => W[i].chunk = <<>>
           /\ i % 2 = 0 => i \div 2 \in 1..Len(all) /\ W[i].chunk = all[i \div 2]
    BY <1>4, WritesFacts
<1>60. Extended(conns', cs, W, k)
    BY <1>1, <1>5, WrittenFacts
<1>6. /\ Len(conns') = Len(cs)
      /\ \A c \in 1..Len(cs) : c # Len(cs) => conns'[c] = cs[c]
      /\ Len(conns'[Len(cs)]) = L + k /\ L \in Nat
      /\ \A i \in 1..L : conns'[Len(cs)][i] = cs[Len(cs)][i]
      /\ \A i \in 1..k : conns'[Len(cs)][L + i] = W[i]
    BY <1>60 DEF Extended
<1>. HIDE DEF L, all, W
<1>7. ASSUME Sent(e) PROVE Sent(e)'
  <2>0. PICK c \in 1..Len(conns) : \E i \in 1..Len(conns[c]) :
          \E j \in 1..Len(conns[c][i].chunk) : conns[c][i].chunk[j] = e
    BY <1>7 DEF Sent
  <2>1. PICK i \in 1..Len(conns[c]) :
          \E j \in 1..Len(conns[c][i].chunk) : conns[c][i].chunk[j] = e
    BY <2>0
  <2>2. c \in 1..Len(conns') /\ i \in 1..Len(conns'[c]) /\ conns'[c][i] = conns[c][i]
    <3>1. CASE c # Len(cs)
        BY <1>1, <1>6, <3>1, SMTT(30)
    <3>2. CASE c = Len(cs)
      <4>1. cs = conns
        BY <1>1, <1>2, <1>3, <3>2
      <4>2. i \in 1..L /\ L + k \in Nat /\ L <= L + k
        BY <1>5, <1>6, <3>2, <4>1 DEF L, W
      <4>. QED
        BY <1>1, <1>6, <3>2, <4>1, <4>2
    <3>. QED
        BY <3>1, <3>2
  <2>. QED
    BY <2>1, <2>2 DEF Sent
<1>8. ASSUME NEW m \in 1..Len(all), 2 * m <= k, NEW j \in 1..Len(all[m]), all[m][j] = e
      PROVE  Sent(e)'
  <2>1. 2 * m \in 1..k /\ W[2 * m] = Entry(all[m])
    BY <1>5, <1>8 DEF W
  <2>2. PICK i \in 1..(L + k) : i = L + 2 * m
    BY <1>5, <1>6, <2>1 DEF W
  <2>3. Len(cs) \in 1..Len(conns') /\ i \in 1..Len(conns'[Len(cs)])
    BY <1>1, <1>6, <2>2
  <2>4. conns'[Len(cs)][i].chunk = all[m]
    <3>1. conns'[Len(cs)][L + 2 * m] = W[2 * m]
        BY <1>6, <2>1
    <3>. QED
        BY <2>1, <2>2, <3>1 DEF Entry
  <2>. QED
    BY <1>8, <2>3, <2>4 DEF Sent
<1>9. ASSUME Sent(e)', ~Sent(e)
      PROVE  \E m \in 1..Len(all) : 2 * m <= k /\ \E j \in 1..Len(all[m]) : all[m][j] = e
  <2>0. PICK c \in 1..Len(conns') : \E i \in 1..Len(conns'[c]) :
          \E j \in 1..Len(conns'[c][i].chunk) : conns'[c][i].chunk[j] = e
    BY <1>9 DEF Sent
  <2>1. PICK i \in 1..Len(conns'[c]) :
          \E j \in 1..Len(conns'[c][i].chunk) : conns'[c][i].chunk[j] = e
    BY <2>0
  <2>2. c = Len(cs) /\ i \notin 1..L
    <3>1. CASE c # Len(cs)
      <4>1. c \in 1..Len(conns) /\ conns'[c] = conns[c] /\ i \in 1..Len(conns[c])
        BY <1>1, <1>6, <3>1
      <4>2. \E j \in 1..Len(conns[c][i].chunk) : conns[c][i].chunk[j] = e
        BY <2>1, <4>1
      <4>3. Sent(e)
        BY <4>1, <4>2 DEF Sent
      <4>. QED
        BY <1>9, <4>3
    <3>2. CASE c = Len(cs) /\ i \in 1..L
      <4>1. cs = conns /\ conns'[c][i] = conns[c][i] /\ c \in 1..Len(conns) /\ i \in 1..Len(conns[c])
        BY <1>1, <1>2, <1>3, <1>6, <3>2 DEF L
      <4>2. \E j \in 1..Len(conns[c][i].chunk) : conns[c][i].chunk[j] = e
        BY <2>1, <4>1
      <4>3. Sent(e)
        BY <4>1, <4>2 DEF Sent
      <4>. QED
        BY <1>9, <4>3
    <3>. QED
        BY <3>1, <3>2
  <2>3. PICK n \in 1..k : i = L + n
    <3>1. i - L \in 1..k /\ i = L + (i - L)
        BY <1>6, <2>2
    <3>. QED
        BY <3>1
  <2>4. conns'[c][i] = W[n] /\ n \in 1..Len(W)
    BY <1>5, <1>6, <2>2, <2>3 DEF W
  <2>5. n % 2 = 0
    <3>1. n % 2 # 0 => Len(W[n].chunk) = 0
        BY <1>5, <2>4
    <3>. QED
        BY <2>1, <2>4, <3>1
  <2>6. n \div 2 \in 1..Len(all) /\ W[n].chunk = all[n \div 2] /\ 2 * (n \div 2) <= k
    BY <1>5, <2>4, <2>5, Halves
  <2>7. PICK m \in 1..Len(all) : m = n \div 2
    BY <2>6
  <2>. QED
    BY <2>1, <2>4, <2>6, <2>7
<1>. QED
    BY <1>7, <1>8, <1>9 DEF all

\* Where the storage puts a chunk that is not the first.
LEMMA PutFacts ==
    ASSUME NEW f \in Seq(Chunks), NEW j \in 0..Len(f), NEW chunk \in Chunks
    PROVE  /\ Put(f, j, chunk) \in Seq(Chunks) /\ Len(Put(f, j, chunk)) \in Nat
           /\ j + 1 <= Len(Put(f, j, chunk))
           /\ j >= 1 => Put(f, j, chunk)[1] = f[1]
           /\ j = Len(f) => /\ Put(f, j, chunk) = Append(f, chunk)
                            /\ Len(Put(f, j, chunk)) = Len(f) + 1
<1>1. CASE j < Len(f)
    BY <1>1 DEF Put
<1>2. CASE j = Len(f)
    BY <1>2 DEF Put
<1>. QED
    BY <1>1, <1>2

\* The outcomes of a send.
Success(chunk, k) ==
    /\ k = Len(Writes(Pending(chunk)))
    /\ file' = <<>> /\ at' = 0 /\ open' = TRUE /\ first' = FALSE
    /\ UNCHANGED <<done, replayFailed>>

Failure(k) == open' = FALSE /\ first' = TRUE /\ done' = TRUE

ReplayBroke(chunk, k) ==
    /\ Failure(k)
    /\ replayFailed' = TRUE
    /\ \E j \in 1..Len(file) : file' = Put(file, j, chunk) /\ at' = j + 1

NewOneBroke(chunk, k) ==
    /\ Failure(k)
    /\ k < Len(Writes(Pending(chunk)))
    /\ UNCHANGED replayFailed
    /\ file' = <<chunk>> /\ at' = 1
    /\ Len(file) >= 1 => 2 * (Len(file) + Extra) <= k

\* Sending ends in one of three ways: all is written, the replay of the file
\* broke, or the new chunk did.
LEMMA SendOutcome ==
    ASSUME NEW chunk, NEW cs, Sending(chunk, cs), SendAll(chunk, cs)
    PROVE  \E k \in 0..Len(Writes(Pending(chunk))) :
             /\ conns' = Written(cs, Writes(Pending(chunk)), k)
             /\ bgn' = RememberFirst(Pending(chunk), k)
             /\ Success(chunk, k) \/ ReplayBroke(chunk, k) \/ NewOneBroke(chunk, k)
<1>. DEFINE entries == Pending(chunk)
            W == Writes(entries)
<1>1. /\ entries \in Seq(Chunks) /\ Len(entries) = Len(file) + 1 /\ Len(file) \in Nat
      /\ StreamTypeOK /\ chunk \in Chunks
  <2>1. Ready(chunk, cs)
    BY SendingFacts
  <2>2. StreamTypeOK /\ FileInv /\ chunk \in Chunks
    BY <2>1 DEF Ready, Sending, StreamInv
  <2>. QED
    BY <2>2, PendingFacts
<1>2. /\ Len(WithFirst(entries)) = Len(entries) + Extra /\ Extra \in {0, 1}
      /\ Len(W) = 2 * Len(WithFirst(entries))
    BY <1>1, WithFirstFacts, WritesFacts DEF Extra
<1>3. Len(W) \in Nat /\ Len(W) = 2 * (Len(file) + 1 + Extra)
    BY <1>1, <1>2
<1>. HIDE DEF entries, W
<1>4. CASE /\ conns' = Written(cs, W, Len(W)) /\ bgn' = RememberFirst(entries, Len(W))
           /\ file' = <<>> /\ at' = 0 /\ open' = TRUE /\ first' = FALSE
           /\ UNCHANGED <<done, replayFailed>>
  <2>1. Len(W) \in 0..Len(W)
    BY <1>3
  <2>. QED
    BY <1>4, <2>1 DEF Success, W, entries
<1>5. ASSUME NEW k \in 0..(Len(W) - 1),
             conns' = Written(cs, W, k), bgn' = RememberFirst(entries, k),
             open' = FALSE, first' = TRUE,
             IF InProgress(entries, k) < Len(entries)
             THEN Store(file, InProgress(entries, k), chunk) /\ replayFailed' = TRUE
             ELSE Store(<<>>, 0, chunk) /\ UNCHANGED replayFailed
      PROVE  ReplayBroke(chunk, k) \/ NewOneBroke(chunk, k)
  <2>. DEFINE j == InProgress(entries, k)
  <2>1. k \in Nat /\ k \div 2 \in Nat /\ 2 * (k \div 2) <= k /\ k < 2 * (k \div 2) + 2 /\ k < Len(W)
    BY <1>3
  <2>2. j = IF k \div 2 < Extra THEN 1 ELSE (k \div 2) - Extra + 1
    BY <1>1, <1>2 DEF InProgress
  <2>. HIDE DEF j
  <2>3. j \in Nat /\ 1 <= j /\ j <= Len(file) + 1
    BY <1>1, <1>2, <1>3, <2>1, <2>2
  <2>4. CASE j < Len(entries)
    <3>1. j \in 1..Len(file)
        BY <1>1, <2>3, <2>4
    <3>2. Store(file, j, chunk) /\ replayFailed' = TRUE
        BY <1>5, <2>4 DEF j
    <3>. QED
        BY <1>5, <3>1, <3>2 DEF ReplayBroke, Failure, Store
  <2>5. CASE ~(j < Len(entries))
    <3>1. Store(<<>>, 0, chunk) /\ UNCHANGED replayFailed
        BY <1>5, <2>5 DEF j
    <3>2. file' = <<chunk>> /\ at' = 1 /\ done' = TRUE
      <4>1. Put(<<>>, 0, chunk) = Append(<<>>, chunk)
        BY DEF Put
      <4>2. Append(<<>>, chunk) = <<chunk>>
        OBVIOUS
      <4>. QED
        BY <3>1, <4>1, <4>2 DEF Store
    <3>3. Len(file) >= 1 => 2 * (Len(file) + Extra) <= k
        BY <1>1, <1>2, <2>1, <2>2, <2>3, <2>5
    <3>. QED
        BY <1>5, <2>1, <3>1, <3>2, <3>3 DEF NewOneBroke, Failure, W, entries
  <2>. QED
    BY <2>4, <2>5
<1>6. CASE \E k \in 0..(Len(W) - 1) :
             /\ conns' = Written(cs, W, k) /\ bgn' = RememberFirst(entries, k)
             /\ open' = FALSE /\ first' = TRUE
             /\ IF InProgress(entries, k) < Len(entries)
                THEN Store(file, InProgress(entries, k), chunk) /\ replayFailed' = TRUE
                ELSE Store(<<>>, 0, chunk) /\ UNCHANGED replayFailed
  <2>1. PICK k \in 0..(Len(W) - 1) :
             /\ conns' = Written(cs, W, k) /\ bgn' = RememberFirst(entries, k)
             /\ open' = FALSE /\ first' = TRUE
             /\ IF InProgress(entries, k) < Len(entries)
                THEN Store(file, InProgress(entries, k), chunk) /\ replayFailed' = TRUE
                ELSE Store(<<>>, 0, chunk) /\ UNCHANGED replayFailed
    BY <1>6
  <2>2. k \in 0..Len(W)
    BY <1>3
  <2>. QED
    BY <1>5, <2>1, <2>2 DEF W, entries
<1>. QED
    BY <1>4, <1>6 DEF SendAll, FirstAgain, W, entries

-----------------------------------------------------------------------------
(* finish_entry.                                                           *)

\* The buffers swap: nothing is being made, and the entry counts as finished.
LEMMA SwapFacts ==
    ASSUME StreamTypeOK, BufferInv, values[NextIdx] # <<>>, SwapBuffers, UNCHANGED count
    PROVE  /\ idx' \in 0..1 /\ values' \in [0..1 -> Chunks]
           /\ values'[NextIdx'] = <<>> /\ Fin' = count /\ Fin = count - 1 /\ count >= 1
           /\ values[NextIdx] = <<count>>
<1>1. idx' = 1 - idx /\ NextIdx' = idx /\ values' = [values EXCEPT ![idx] = <<>>]
    BY DEF SwapBuffers, NextIdx, StreamTypeOK
<1>2. <<>> \in Chunks
    BY DEF Chunks
<1>3. values'[NextIdx'] = <<>> /\ idx' \in 0..1 /\ values' \in [0..1 -> Chunks]
    BY <1>1, <1>2 DEF StreamTypeOK
<1>. QED
    BY <1>3 DEF Fin, BufferInv

\* What a send leaves behind.
LEMMA SendKeeps ==
    ASSUME NEW cs, Sending(values[NextIdx], cs), SendAll(values[NextIdx], cs), SwapBuffers,
           UNCHANGED <<streamPhase, count>>, expired' \in BOOLEAN
    PROVE  StreamInv'
<1>. DEFINE chunk == values[NextIdx]
            all == WithFirst(Pending(chunk))
            W == Writes(Pending(chunk))
<1>1. PICK k \in 0..Len(W) :
        /\ conns' = Written(cs, W, k)
        /\ bgn' = RememberFirst(Pending(chunk), k)
        /\ Success(chunk, k) \/ ReplayBroke(chunk, k) \/ NewOneBroke(chunk, k)
    BY SendOutcome
<1>2. StreamInv /\ streamPhase = "running" /\ chunk # <<>>
    BY DEF Sending
<1>3. StreamTypeOK /\ BufferInv /\ FileInv /\ ConnInv /\ FirstInv /\ KeptInv
    BY <1>2 DEF StreamInv
<1>4. /\ idx' \in 0..1 /\ values' \in [0..1 -> Chunks]
      /\ values'[NextIdx'] = <<>> /\ Fin' = count /\ Fin = count - 1 /\ count >= 1
      /\ chunk = <<count>> /\ count \in Nat
    BY <1>2, <1>3, SwapFacts DEF StreamTypeOK
<1>5. chunk \in Chunks /\ Len(chunk) = 1 /\ chunk[1] = count
    BY <1>4 DEF Chunks
<1>6. /\ Pending(chunk) \in Seq(Chunks)
      /\ Len(Pending(chunk)) = Len(file) + 1 /\ Len(file) \in Nat
      /\ \A i \in 1..Len(file) : Pending(chunk)[i] = file[i]
      /\ Pending(chunk)[Len(file) + 1] = chunk
    BY <1>3, <1>5, PendingFacts
<1>7. /\ Extra \in {0, 1} /\ Len(all) = Len(file) + 1 + Extra /\ Len(W) = 2 * Len(all)
      /\ \A i \in 1..(Len(file) + 1) : all[i + Extra] = Pending(chunk)[i]
      /\ Extra = 1 => all[1] = bgn
      /\ all \in Seq(Chunks)
  <2>1. Extra \in {0, 1}
    BY DEF Extra
  <2>2. /\ Len(all) = Len(Pending(chunk)) + Extra
        /\ \A i \in 1..Len(Pending(chunk)) : all[i + Extra] = Pending(chunk)[i]
        /\ Extra = 1 => all[1] = bgn
        /\ all \in Seq(Chunks)
    BY <1>3, <1>6, WithFirstFacts
  <2>3. Len(W) = 2 * Len(all)
    BY <1>3, <1>6, WritesFacts
  <2>. QED
    BY <1>6, <2>1, <2>2, <2>3
<1>8. /\ conns' \in Seq(Seq(Items)) /\ Len(conns') >= 1
      /\ \A c \in 1..Len(conns') : \A i \in 1..Len(conns'[c]) : conns'[c][i].kind = Regular(i)
      /\ k = Len(W) => Len(conns'[Len(conns')]) >= 2 /\ Len(conns'[Len(conns')]) % 2 = 0
      /\ ConnectionsBeginWithTheFirst'
    BY <1>1, SendRegular
<1>9. first /\ bgn = <<>> => Pending(chunk)[1] = <<1>>
    BY SendingFacts DEF Ready
<1>10. \A e : Sent(e)' <=>
         \/ Sent(e)
         \/ \E m \in 1..Len(all) : 2 * m <= k /\ \E j \in 1..Len(all[m]) : all[m][j] = e
    BY <1>1, SentAfter
<1>. HIDE DEF chunk, all, W
<1>11. StreamTypeOK'
  <2>1. file' \in Seq(Chunks) /\ at' \in Nat
    <3>1. CASE Success(chunk, k)
        BY <3>1 DEF Success
    <3>2. CASE ReplayBroke(chunk, k)
        BY <1>3, <1>5, <3>2, PutFacts DEF ReplayBroke, StreamTypeOK
    <3>3. CASE NewOneBroke(chunk, k)
        BY <1>5, <3>3 DEF NewOneBroke
    <3>. QED
        BY <1>1, <3>1, <3>2, <3>3
  <2>2. bgn' \in Chunks
    BY <1>1, <1>3, <1>6 DEF RememberFirst, StreamTypeOK, chunk
  <2>3. open' \in BOOLEAN /\ first' \in BOOLEAN /\ done' \in BOOLEAN /\ replayFailed' \in BOOLEAN
    BY <1>1, <1>3, Zenon DEF Success, ReplayBroke, NewOneBroke, Failure, StreamTypeOK
  <2>. QED
    BY <1>3, <1>4, <1>8, <2>1, <2>2, <2>3 DEF StreamTypeOK
<1>12. BufferInv'
    BY <1>4 DEF BufferInv
<1>13. FileInv'
  <2>1. CASE Success(chunk, k)
    BY <1>3, <2>1 DEF Success, FileInv
  <2>2. CASE ReplayBroke(chunk, k)
    BY <1>3, <1>5, <2>2, PutFacts DEF ReplayBroke, Failure, FileInv, StreamTypeOK
  <2>3. CASE NewOneBroke(chunk, k)
    BY <1>5, <2>3 DEF NewOneBroke, Failure, FileInv
  <2>. QED
    BY <1>1, <2>1, <2>2, <2>3
<1>14. ConnInv'
  <2>1. StreamsWellFormed'
    BY <1>8, RegularIsWellFormedNext DEF AllRegular, Regular
  <2>. QED
    BY <1>1, <1>8, <2>1 DEF ConnInv, Success, ReplayBroke, NewOneBroke, Failure, W
<1>15. FirstInv'
  <2>1. bgn' = <<>> \/ bgn' = <<1>>
    BY <1>1, <1>3, <1>9 DEF RememberFirst, FirstInv, chunk
  <2>2. ASSUME bgn' = <<>>
        PROVE  first' /\ (IF file = <<>> THEN Fin = 0 ELSE file[1] = <<1>>)'
    <3>1. bgn = <<>> /\ first /\ k = 0
        BY <1>1, <1>3, <1>9, <2>2 DEF RememberFirst, FirstInv, chunk, W
    <3>2. CASE Success(chunk, k)
        BY <1>6, <1>7, <3>1, <3>2 DEF Success, W
    <3>3. CASE ReplayBroke(chunk, k)
      <4>1. PICK j \in 1..Len(file) : file' = Put(file, j, chunk)
        BY <3>3 DEF ReplayBroke
      <4>2. file' # <<>> /\ file'[1] = file[1]
        <5>1. file \in Seq(Chunks) /\ j \in 0..Len(file) /\ j >= 1
            BY <1>3, <1>6, <4>1 DEF StreamTypeOK
        <5>2. /\ Len(Put(file, j, chunk)) \in Nat
              /\ j + 1 <= Len(Put(file, j, chunk))
              /\ Put(file, j, chunk)[1] = file[1]
            BY <1>5, <5>1, PutFacts
        <5>3. Len(file') # 0
            BY <1>6, <4>1, <5>1, <5>2
        <5>. QED
            BY <4>1, <5>2, <5>3
      <4>3. file # <<>> /\ first' = TRUE
        BY <1>6, <3>3, <4>1 DEF ReplayBroke, Failure
      <4>. QED
        BY <1>3, <3>1, <4>2, <4>3 DEF FirstInv
    <3>4. CASE NewOneBroke(chunk, k)
        BY <1>3, <1>4, <1>5, <1>6, <1>7, <3>1, <3>4 DEF NewOneBroke, Failure, FirstInv
    <3>. QED
        BY <1>1, <3>2, <3>3, <3>4
  <2>. QED
    BY <1>8, <2>1, <2>2 DEF FirstInv
<1>16. KeptInv'
  <2>. SUFFICES ASSUME ~replayFailed' PROVE KeptInv'
    BY DEF KeptInv
  <2>1. ~ReplayBroke(chunk, k) /\ ~replayFailed
    BY <1>1 DEF ReplayBroke, Success, NewOneBroke
  <2>2. /\ \A i \in 1..Len(file) : Len(file[i]) = 1 /\ file[i][1] \in 1..Fin
        /\ \A e \in Nat : Sent(e) => e \in 1..Fin
        /\ \A i \in 1..Len(file) : file[i][1] = 1 \/ ~Sent(file[i][1])
        /\ \A i, j \in 1..Len(file) : i < j => file[i][1] < file[j][1]
        /\ \A e \in 1..Fin : Sent(e) \/ Stored(e)
    BY <1>3, <2>1 DEF KeptInv
  \* Which entry is sent m-th.
  <2>3. ASSUME NEW m \in 1..Len(all)
        PROVE  \/ m = 1 /\ Extra = 1 /\ all[m] = <<1>>
               \/ m - Extra \in 1..Len(file) /\ all[m] = file[m - Extra]
               \/ m = Len(all) /\ all[m] = chunk
    <3>1. CASE m = 1 /\ Extra = 1
        BY <1>3, <1>7, <3>1 DEF Extra, FirstInv
    <3>2. CASE ~(m = 1 /\ Extra = 1)
      <4>0. Extra \in {0, 1} /\ Len(all) = Len(file) + 1 + Extra /\ Len(file) \in Nat
        BY <1>6, <1>7
      <4>1. PICK i \in 1..(Len(file) + 1) : i = m - Extra /\ m = i + Extra
        <5>1. m - Extra \in 1..(Len(file) + 1) /\ m = (m - Extra) + Extra
            BY <3>2, <4>0
        <5>. QED
            BY <5>1
      <4>2. all[m] = Pending(chunk)[i]
        BY <1>7, <4>1
      <4>3. CASE i = Len(file) + 1
        BY <1>6, <1>7, <4>1, <4>2, <4>3
      <4>4. CASE i # Len(file) + 1
        <5>1. i \in 1..Len(file) /\ i = m - Extra
            BY <1>6, <4>1, <4>4
        <5>. QED
            BY <1>6, <4>2, <5>1
      <4>. QED
        BY <4>3, <4>4
    <3>. QED
        BY <3>1, <3>2
  <2>4. \A e \in Nat : Sent(e)' => e \in 1..count
    <3>. SUFFICES ASSUME NEW e \in Nat, Sent(e)' PROVE e \in 1..count
        OBVIOUS
    <3>1. CASE Sent(e)
        BY <1>4, <2>2, <3>1
    <3>2. CASE ~Sent(e)
      <4>1. PICK m \in 1..Len(all) : \E j \in 1..Len(all[m]) : all[m][j] = e
        BY <1>10, <3>2
      <4>2. CASE all[m] = <<1>>
        BY <1>4, <4>1, <4>2
      <4>3. CASE m - Extra \in 1..Len(file) /\ all[m] = file[m - Extra]
        BY <1>4, <2>2, <4>1, <4>3
      <4>4. CASE all[m] = chunk
        BY <1>4, <1>5, <4>1, <4>4
      <4>. QED
        BY <2>3, <4>2, <4>3, <4>4
    <3>. QED
        BY <3>1, <3>2
  \* A stored entry that goes out, and the new one, when all of it does.
  <2>5. ASSUME NEW i \in 1..Len(file), 2 * (i + Extra) <= k, NEW e, file[i] = <<e>>
        PROVE  Sent(e)'
    <3>1. i + Extra \in 1..Len(all) /\ all[i + Extra] = <<e>>
        BY <1>6, <1>7, <2>5
    <3>2. PICK m \in 1..Len(all) : 2 * m <= k /\ all[m] = <<e>>
        BY <2>5, <3>1
    <3>3. 1 \in 1..Len(all[m]) /\ all[m][1] = e
        BY <3>2
    <3>. QED
        BY <1>10, <3>2, <3>3
  <2>6. CASE Success(chunk, k)
    <3>1. k = 2 * (Len(file) + 1 + Extra)
        BY <1>7, <2>6 DEF Success, W
    <3>2. Sent(count)'
      <4>1. Len(all) \in 1..Len(all) /\ all[Len(all)] = chunk /\ 2 * Len(all) <= k
        BY <1>6, <1>7, <3>1
      <4>. QED
        BY <1>5, <1>10, <4>1
    <3>3. ASSUME NEW e \in 1..count PROVE Sent(e)'
      <4>1. CASE e = count
        BY <3>2, <4>1
      <4>2. CASE e # count
        <5>1. Sent(e) \/ Stored(e)
            BY <1>4, <2>2, <4>2
        <5>2. CASE Stored(e)
          <6>1. PICK i \in 1..Len(file) : file[i] = <<e>>
            BY <5>2 DEF Stored
          <6>2. 2 * (i + Extra) <= k
            BY <1>6, <1>7, <3>1
          <6>. QED
            BY <2>5, <6>1, <6>2
        <5>. QED
            BY <1>10, <5>1, <5>2
      <4>. QED
        BY <4>1, <4>2
    <3>4. Len(file') = 0
        BY <2>6 DEF Success
    <3>. QED
        BY <1>4, <2>4, <3>3, <3>4 DEF KeptInv
  <2>7. CASE NewOneBroke(chunk, k)
    <3>1. /\ file' = <<chunk>> /\ k < Len(W)
          /\ Len(file) >= 1 => 2 * (Len(file) + Extra) <= k
        BY <2>7 DEF NewOneBroke, W
    <3>2. Len(file') = 1 /\ file'[1] = chunk
        BY <3>1
    <3>3. count = 1 \/ ~Sent(count)'
      <4>. SUFFICES ASSUME Sent(count)' PROVE count = 1
        OBVIOUS
      <4>1. ~Sent(count)
        BY <1>4, <2>2
      <4>2. PICK m \in 1..Len(all) :
              2 * m <= k /\ \E j \in 1..Len(all[m]) : all[m][j] = count
        BY <1>10, <4>1
      <4>3. m # Len(all)
        BY <1>6, <1>7, <3>1, <4>2
      <4>4. CASE all[m] = <<1>>
        BY <4>2, <4>4
      <4>5. CASE m - Extra \in 1..Len(file) /\ all[m] = file[m - Extra]
        BY <1>4, <2>2, <4>2, <4>5
      <4>. QED
        BY <2>3, <4>3, <4>4, <4>5
    <3>4. ASSUME NEW e \in 1..count PROVE (Sent(e) \/ Stored(e))'
      <4>1. CASE e = count
        BY <1>4, <3>2, <4>1 DEF Stored
      <4>2. CASE e # count
        <5>1. Sent(e) \/ Stored(e)
            BY <1>4, <2>2, <4>2
        <5>2. CASE Stored(e)
          <6>1. PICK i \in 1..Len(file) : file[i] = <<e>>
            BY <5>2 DEF Stored
          <6>2. 2 * (i + Extra) <= k
            BY <1>1, <1>6, <1>7, <3>1
          <6>. QED
            BY <2>5, <6>1, <6>2
        <5>. QED
            BY <1>10, <5>1, <5>2
      <4>. QED
        BY <4>1, <4>2
    <3>. QED
        BY <1>4, <1>5, <2>4, <3>2, <3>3, <3>4 DEF KeptInv
  <2>. QED
    BY <1>1, <2>1, <2>6, <2>7
<1>. QED
    BY <1>11, <1>12, <1>13, <1>14, <1>15, <1>16 DEF StreamInv

\* What storing the entry leaves behind; there is no connection then.
LEMMA StoreKeeps ==
    ASSUME StreamInv, streamPhase = "running", values[NextIdx] # <<>>, SwapBuffers, ~open,
           StoreEntry, first' = first \/ first' = TRUE, expired' \in BOOLEAN,
           UNCHANGED <<streamPhase, count>>
    PROVE  StreamInv'
<1>. DEFINE chunk == values[NextIdx]
            stored == Put(file, at, chunk)
<1>1. StreamTypeOK /\ BufferInv /\ FileInv /\ ConnInv /\ FirstInv /\ KeptInv
    BY DEF StreamInv
<1>2. /\ idx' \in 0..1 /\ values' \in [0..1 -> Chunks]
      /\ values'[NextIdx'] = <<>> /\ Fin' = count /\ Fin = count - 1 /\ count >= 1
      /\ chunk = <<count>> /\ count \in Nat
    BY <1>1, SwapFacts DEF StreamTypeOK
<1>3. chunk \in Chunks /\ Len(chunk) = 1 /\ chunk[1] = count
    BY <1>2 DEF Chunks
<1>4. /\ file' = stored /\ at' = at + 1 /\ done' = TRUE
      /\ UNCHANGED <<open, bgn, conns, replayFailed, streamPhase, count>>
      /\ first /\ first' = TRUE
    BY <1>1 DEF StoreEntry, Store, ConnInv
<1>5. /\ file \in Seq(Chunks) /\ Len(file) \in Nat /\ at \in Nat /\ at <= Len(file)
      /\ file # <<>> => at >= 1
      /\ ~replayFailed => at = Len(file)
    BY <1>1 DEF StreamTypeOK, FileInv
<1>. HIDE DEF chunk
<1>6. /\ stored \in Seq(Chunks) /\ Len(stored) \in Nat /\ at + 1 <= Len(stored)
      /\ at >= 1 => stored[1] = file[1]
      /\ at = Len(file) => stored = Append(file, chunk) /\ Len(stored) = Len(file) + 1
    BY <1>3, <1>5, PutFacts
<1>. HIDE DEF stored
<1>7. StreamTypeOK'
    BY <1>1, <1>2, <1>4, <1>5, <1>6 DEF StreamTypeOK
<1>8. BufferInv'
    BY <1>2 DEF BufferInv
<1>9. FileInv'
    BY <1>4, <1>5, <1>6 DEF FileInv
<1>10. ConnInv'
    BY <1>1, <1>4 DEF ConnInv, StreamsWellFormed
<1>11. Len(stored) # 0 /\ stored # <<>>
    BY <1>5, <1>6
<1>12. FirstInv'
  <2>1. ConnectionsBeginWithTheFirst' /\ (bgn' = <<>> \/ bgn' = <<1>>)
    BY <1>1, <1>4 DEF FirstInv, ConnectionsBeginWithTheFirst
  <2>2. ASSUME bgn = <<>> PROVE stored[1] = <<1>>
    <3>1. CASE file = <<>>
      <4>1. at = Len(file) /\ Len(file) = 0 /\ count = 1
        BY <1>1, <1>2, <1>5, <2>2, <3>1 DEF FirstInv
      <4>2. stored[1] = chunk
        BY <1>3, <1>5, <1>6, <4>1
      <4>. QED
        BY <1>2, <4>1, <4>2
    <3>2. CASE file # <<>>
        BY <1>1, <1>5, <1>6, <2>2, <3>2 DEF FirstInv
    <3>. QED
        BY <3>1, <3>2
  <2>. QED
    BY <1>4, <1>11, <2>1, <2>2 DEF FirstInv
<1>13. KeptInv'
  <2>. SUFFICES ASSUME ~replayFailed PROVE KeptInv'
    BY <1>4 DEF KeptInv
  <2>1. /\ \A i \in 1..Len(file) : Len(file[i]) = 1 /\ file[i][1] \in 1..Fin
        /\ \A e \in Nat : Sent(e) => e \in 1..Fin
        /\ \A i \in 1..Len(file) : file[i][1] = 1 \/ ~Sent(file[i][1])
        /\ \A i, j \in 1..Len(file) : i < j => file[i][1] < file[j][1]
        /\ \A e \in 1..Fin : Sent(e) \/ Stored(e)
    BY <1>1 DEF KeptInv
  <2>2. /\ file' = stored /\ Len(stored) = Len(file) + 1
        /\ \A i \in 1..Len(file) : stored[i] = file[i]
        /\ stored[Len(file) + 1] = chunk
    BY <1>3, <1>4, <1>5, <1>6, AppendProperties
  <2>3. \A e : Sent(e)' <=> Sent(e)
    BY <1>4 DEF Sent
  <2>4. ASSUME NEW i \in 1..Len(stored)
        PROVE  /\ i \in 1..Len(file) => stored[i] = file[i]
               /\ i \notin 1..Len(file) => i = Len(file) + 1 /\ stored[i] = chunk
    BY <1>5, <2>2
  <2>5. ASSUME NEW i \in 1..Len(stored)
        PROVE  /\ Len(stored[i]) = 1 /\ stored[i][1] \in 1..count
               /\ stored[i][1] = 1 \/ ~Sent(stored[i][1])
    <3>1. CASE i \in 1..Len(file)
        BY <1>2, <2>1, <2>4, <3>1
    <3>2. CASE i \notin 1..Len(file)
      <4>1. count \in 1..count /\ count \notin 1..Fin
        BY <1>2
      <4>2. ~Sent(count)
        <5>1. count \in Nat /\ \A e \in Nat : Sent(e) => e \in 1..Fin
          BY <1>2, <2>1, Zenon
        <5>. QED
          BY <4>1, <5>1, Zenon
      <4>. QED
        BY <1>3, <2>4, <3>2, <4>1, <4>2, Zenon
    <3>. QED
        BY <3>1, <3>2
  <2>6. ASSUME NEW i \in 1..Len(stored), NEW j \in 1..Len(stored), i < j
        PROVE  stored[i][1] < stored[j][1]
    <3>1. i \in 1..Len(file)
        BY <1>5, <2>2, <2>6
    <3>2. CASE j \in 1..Len(file)
        BY <2>1, <2>4, <2>6, <3>1, <3>2
    <3>3. CASE j \notin 1..Len(file)
        BY <1>2, <1>3, <2>1, <2>4, <3>1, <3>3, SMTT(30)
    <3>. QED
        BY <3>2, <3>3
  <2>7. ASSUME NEW e \in 1..count PROVE (Sent(e) \/ Stored(e))'
    <3>1. CASE e = count
      <4>1. Len(file) + 1 \in 1..Len(stored)
        BY <1>5, <2>2
      <4>. QED
        BY <1>2, <2>2, <3>1, <4>1 DEF Stored
    <3>2. CASE e # count
      <4>1. Sent(e) \/ Stored(e)
        BY <1>2, <2>1, <3>2
      <4>2. CASE Stored(e)
        <5>1. PICK i \in 1..Len(file) : file[i] = <<e>>
            BY <4>2 DEF Stored
        <5>2. i \in 1..Len(stored) /\ stored[i] = <<e>>
            BY <1>5, <2>2, <5>1
        <5>. QED
            BY <2>2, <5>2 DEF Stored
      <4>. QED
        BY <2>3, <4>1, <4>2
    <3>. QED
        BY <3>1, <3>2
  <2>8. \A e \in Nat : Sent(e)' => e \in 1..count
    BY <1>2, <2>1, <2>3
  <2>. QED
    BY <1>2, <2>2, <2>3, <2>5, <2>6, <2>7, <2>8 DEF KeptInv
<1>. QED
    BY <1>7, <1>8, <1>9, <1>10, <1>12, <1>13 DEF StreamInv

\* finish_entry as a whole.
LEMMA FinishEntryKeeps ==
    ASSUME StreamInv, FinishEntry
    PROVE  StreamInv'
<1>1. streamPhase = "running" /\ values[NextIdx] # <<>> /\ SwapBuffers
      /\ UNCHANGED <<streamPhase, count>> /\ expired \in BOOLEAN
    BY DEF FinishEntry, StreamInv, StreamTypeOK
<1>2. CASE /\ \/ open /\ UNCHANGED expired
              \/ ~open /\ expired /\ Len(conns) < MaxConns /\ expired' = FALSE
           /\ SendAll(values[NextIdx], IF open THEN conns ELSE Append(conns, <<>>))
  <2>1. expired' \in BOOLEAN
    BY <1>1, <1>2
  <2>2. CASE open
    <3>1. Sending(values[NextIdx], conns) /\ SendAll(values[NextIdx], conns)
        BY <1>1, <1>2, <2>2 DEF Sending
    <3>. QED
        BY <1>1, <2>1, <3>1, SendKeeps
  <2>3. CASE ~open
    <3>1. /\ Sending(values[NextIdx], Append(conns, <<>>))
          /\ SendAll(values[NextIdx], Append(conns, <<>>))
        BY <1>1, <1>2, <2>3 DEF Sending
    <3>. QED
        BY <1>1, <2>1, <3>1, SendKeeps
  <2>. QED
    BY <2>2, <2>3
<1>3. CASE /\ ~open
           /\ \/ ~expired /\ UNCHANGED <<expired, first>>
              \/ expired /\ expired' = FALSE /\ first' = TRUE
           /\ StoreEntry
  <2>1. expired' \in BOOLEAN /\ (first' = first \/ first' = TRUE)
    BY <1>1, <1>3
  <2>. QED
    BY <1>1, <1>3, <2>1, StoreKeeps
<1>. QED
    BY <1>2, <1>3 DEF FinishEntry

-----------------------------------------------------------------------------
(* The other operations.                                                   *)

\* append: an entry is begun, which is not finished yet.
LEMMA EntryAppendKeeps ==
    ASSUME StreamInv, EntryAppend
    PROVE  StreamInv'
<1>1. StreamTypeOK /\ BufferInv /\ FileInv /\ ConnInv /\ FirstInv /\ KeptInv
    BY DEF StreamInv
<1>2. /\ values[NextIdx] = <<>> /\ count' = count + 1 /\ NextIdx \in 0..1 /\ count \in Nat
      /\ values' = [values EXCEPT ![NextIdx] = Append(@, count + 1)]
      /\ UNCHANGED <<streamPhase, idx, open, expired, first, bgn, file, at, done, conns,
                     replayFailed>>
      /\ NextIdx' = NextIdx
    BY <1>1 DEF EntryAppend, StreamTypeOK, NextIdx
<1>3. Append(<<>>, count + 1) = <<count + 1>> /\ <<count + 1>> \in Chunks
    BY <1>2 DEF Chunks
<1>4. values'[NextIdx'] = <<count + 1>> /\ values' \in [0..1 -> Chunks]
    BY <1>1, <1>2, <1>3 DEF StreamTypeOK
<1>5. StreamTypeOK'
    BY <1>1, <1>2, <1>4 DEF StreamTypeOK
<1>6. BufferInv'
    BY <1>2, <1>4 DEF BufferInv
<1>7. Fin' = Fin
  <2>1. Fin = count
    BY <1>2 DEF Fin
  <2>2. values'[NextIdx'] # <<>>
    BY <1>4
  <2>. QED
    BY <1>2, <2>1, <2>2 DEF Fin
<1>8. FileInv' /\ ConnInv'
    BY <1>1, <1>2, ZenonT(40) DEF FileInv, ConnInv, StreamsWellFormed
<1>9. FirstInv'
    BY <1>1, <1>2, <1>7 DEF FirstInv, ConnectionsBeginWithTheFirst
<1>10. KeptInv'
    BY <1>1, <1>2, <1>7, ZenonT(40) DEF KeptInv, Sent, Stored
<1>. QED
    BY <1>5, <1>6, <1>8, <1>9, <1>10 DEF StreamInv

\* The footer: it has no entry in it, and it follows a whole entry or stands alone.
LEMMA FooterFacts ==
    ASSUME NEW cs \in Seq(Seq(Items)), Len(cs) >= 1, NEW k \in 0..1
    PROVE  Extended(Written(cs, <<Footer>>, k), cs, <<Footer>>, k)
<1>1. Footer \in Items
  <2>1. <<>> \in Chunks
    BY DEF Chunks
  <2>. QED
    BY <2>1 DEF Footer, Items
<1>2. <<Footer>> \in Seq(Items) /\ Len(<<Footer>>) = 1
    BY <1>1
<1>. QED
    BY <1>2, WrittenFacts

\* It is written to the connection there is, or to one that was just made.
FooterSent(cs, k) ==
    /\ (open /\ cs = conns) \/ (~open /\ cs = Append(conns, <<>>))
    /\ conns' = Written(cs, <<Footer>>, k)

NothingElseSent ==
    /\ conns' \in Seq(Seq(Items))
    /\ StreamsWellFormed' /\ ConnectionsBeginWithTheFirst'
    /\ \A e : Sent(e)' <=> Sent(e)

\* The last connection got L items, which end with a whole entry.
EndsWhole(cs, L) ==
    /\ cs \in Seq(Seq(Items)) /\ Len(cs) \in Nat /\ Len(cs) >= 1
    /\ L \in Nat /\ L = Len(cs[Len(cs)]) /\ L % 2 = 0
    /\ Len(conns) <= Len(cs)
    /\ \A c \in 1..Len(conns) : cs[c] = conns[c]
    /\ \A c \in 1..Len(cs) : c # Len(cs) \/ L # 0 => c \in 1..Len(conns) /\ cs[c] = conns[c]

\* The footer sends no entry.
LEMMA FooterKeeps ==
    ASSUME StreamInv, streamPhase = "running", NEW cs, NEW k \in 0..1, FooterSent(cs, k)
    PROVE  NothingElseSent
<1>1. StreamTypeOK /\ ConnInv /\ FirstInv
    BY DEF StreamInv
<1>2. conns \in Seq(Seq(Items)) /\ Len(conns) \in Nat
    BY <1>1 DEF StreamTypeOK
<1>30. ASSUME open PROVE EndsWhole(cs, Len(cs[Len(cs)]))
  <2>1. Len(conns) >= 1 /\ Len(conns[Len(conns)]) % 2 = 0
    BY <1>1, <1>30 DEF ConnInv
  <2>2. cs = conns
    BY <1>30 DEF FooterSent
  <2>3. conns[Len(conns)] \in Seq(Items)
    BY <1>2, <2>1
  <2>4. Len(cs[Len(cs)]) \in Nat /\ Len(cs[Len(cs)]) % 2 = 0
    <3>1. Len(conns[Len(conns)]) \in Nat
        BY <2>3
    <3>. QED
        BY <2>1, <2>2, <3>1
  <2>5. \A c \in 1..Len(cs) : c \in 1..Len(conns) /\ cs[c] = conns[c]
    BY <2>2
  <2>6. \A c \in 1..Len(conns) : cs[c] = conns[c]
    BY <2>2
  <2>7. /\ cs \in Seq(Seq(Items)) /\ Len(cs) \in Nat /\ Len(cs) >= 1
        /\ Len(conns) <= Len(cs)
    BY <1>2, <2>1, <2>2
  <2>. QED
    BY <2>4, <2>5, <2>6, <2>7, Zenon DEF EndsWhole
<1>31. ASSUME ~open PROVE EndsWhole(cs, Len(cs[Len(cs)]))
  <2>1. <<>> \in Seq(Items) /\ Len(<<>>) = 0
    OBVIOUS
  <2>2. cs = Append(conns, <<>>)
    BY <1>31 DEF FooterSent
  <2>3. /\ cs \in Seq(Seq(Items)) /\ Len(cs) = Len(conns) + 1 /\ cs[Len(cs)] = <<>>
        /\ \A c \in 1..Len(conns) : cs[c] = conns[c]
    BY <1>2, <2>1, <2>2, AppendProperties
  <2>4. Len(cs[Len(cs)]) = 0 /\ Len(cs[Len(cs)]) % 2 = 0
    BY <2>1, <2>3
  <2>5. \A c \in 1..Len(cs) : c # Len(cs) => c \in 1..Len(conns) /\ cs[c] = conns[c]
    BY <1>2, <2>3
  <2>. QED
    BY <1>2, <2>3, <2>4, <2>5 DEF EndsWhole
<1>32. PICK L \in Nat : EndsWhole(cs, L)
  <2>1. EndsWhole(cs, Len(cs[Len(cs)]))
    BY <1>30, <1>31
  <2>. QED
    BY <2>1 DEF EndsWhole
<1>33. L % 2 = 0 /\ L # 1
  <2>1. L % 2 = 0
    BY <1>32 DEF EndsWhole
  <2>. QED
    BY <2>1
<1>34. \A c \in 1..Len(cs) : c # Len(cs) \/ L # 0 => c \in 1..Len(conns) /\ cs[c] = conns[c]
    BY <1>32 DEF EndsWhole
<1>3. /\ cs \in Seq(Seq(Items)) /\ Len(cs) \in Nat /\ Len(cs) >= 1 /\ L = Len(cs[Len(cs)])
      /\ Len(conns) <= Len(cs)
      /\ \A c \in 1..Len(conns) : cs[c] = conns[c]
    BY <1>32 DEF EndsWhole
<1>4. Extended(conns', cs, <<Footer>>, k)
  <2>1. conns' = Written(cs, <<Footer>>, k)
    BY DEF FooterSent
  <2>. QED
    BY <1>3, <2>1, FooterFacts
<1>5. /\ Len(conns') = Len(cs) /\ conns' \in Seq(Seq(Items))
      /\ \A c \in 1..Len(cs) : c # Len(cs) => conns'[c] = cs[c]
      /\ Len(conns'[Len(cs)]) = L + k
      /\ \A i \in 1..L : conns'[Len(cs)][i] = cs[Len(cs)][i]
      /\ k = 1 => conns'[Len(cs)][L + 1] = Footer
  <2>1. \A i \in 1..k : conns'[Len(cs)][L + i] = <<Footer>>[i]
    BY <1>3, <1>4 DEF Extended
  <2>2. k = 1 => conns'[Len(cs)][L + 1] = Footer
    BY <2>1
  <2>. QED
    BY <1>3, <1>4, <2>2 DEF Extended
\* An item of a connection is one that was there before, or the footer.
<1>6. ASSUME NEW c \in 1..Len(conns'), NEW i \in 1..Len(conns'[c])
      PROVE  \/ /\ c \in 1..Len(conns) /\ i \in 1..Len(conns[c])
                /\ conns'[c][i] = conns[c][i]
             \/ c = Len(cs) /\ i = L + 1 /\ k = 1 /\ conns'[c][i] = Footer
  <2>1. CASE c # Len(cs)
    BY <1>3, <1>34, <1>5, <2>1
  <2>2. CASE c = Len(cs) /\ i \in 1..L
    BY <1>3, <1>34, <1>5, <2>2
  <2>3. CASE c = Len(cs) /\ i \notin 1..L
    <3>1. i \in 1..(L + k)
        BY <1>5, <2>3
    <3>2. i = L + 1 /\ k = 1
        BY <1>3, <2>3, <3>1
    <3>. QED
        BY <1>5, <2>3, <3>2
  <2>. QED
    BY <2>1, <2>2, <2>3
<1>7. \A c \in 1..Len(conns) : /\ c \in 1..Len(conns') /\ Len(conns[c]) <= Len(conns'[c])
                               /\ \A i \in 1..Len(conns[c]) : i \in 1..Len(conns'[c])
                                                           /\ conns'[c][i] = conns[c][i]
  <2>. SUFFICES ASSUME NEW c \in 1..Len(conns)
                PROVE  /\ c \in 1..Len(conns') /\ Len(conns[c]) <= Len(conns'[c])
                       /\ \A i \in 1..Len(conns[c]) : i \in 1..Len(conns'[c])
                                                   /\ conns'[c][i] = conns[c][i]
    OBVIOUS
  <2>1. c \in 1..Len(conns') /\ cs[c] = conns[c] /\ Len(conns[c]) \in Nat
    BY <1>2, <1>3, <1>5, SMTT(30)
  <2>2. CASE c # Len(cs)
    <3>1. conns'[c] = conns[c]
        BY <1>3, <1>5, <2>1, <2>2
    <3>. QED
        BY <2>1, <3>1
  <2>3. CASE c = Len(cs)
    <3>1. L = Len(conns[c]) /\ Len(conns'[c]) = L + k /\ L <= L + k
        BY <1>3, <1>5, <2>1, <2>3
    <3>2. \A i \in 1..L : i \in 1..(L + k) /\ conns'[c][i] = conns[c][i]
        BY <1>3, <1>5, <2>1, <2>3
    <3>. QED
        BY <2>1, <3>1, <3>2
  <2>. QED
    BY <2>1, <2>2, <2>3
<1>8. \A c \in 1..Len(conns) : \A i \in 1..Len(conns[c]) : conns[c][i].kind = Regular(i)
    BY <1>1 DEF ConnInv
<1>9. StreamsWellFormed'
  <2>. SUFFICES ASSUME NEW c \in 1..Len(conns'), NEW i \in 1..Len(conns'[c])
                PROVE  \/ /\ conns'[c][i].kind = "footer" /\ i = Len(conns'[c])
                          /\ i = 1 \/ conns'[c][i - 1].kind = "entry"
                       \/ conns'[c][i].kind = (CASE i = 1 -> "header"
                                                 [] i > 1 /\ i % 2 = 1 -> "sep"
                                                 [] OTHER -> "entry")
    BY DEF StreamsWellFormed
  <2>1. CASE c \in 1..Len(conns) /\ i \in 1..Len(conns[c]) /\ conns'[c][i] = conns[c][i]
    <3>1. conns'[c][i].kind = Regular(i)
        BY <1>8, <2>1
    <3>2. CASE i = 1
        BY <3>1, <3>2 DEF Regular
    <3>3. CASE i # 1 /\ i % 2 = 1
        BY <3>1, <3>3 DEF Regular
    <3>4. CASE i # 1 /\ i % 2 # 1
        BY <3>1, <3>4 DEF Regular
    <3>. QED
        BY <3>2, <3>3, <3>4
  <2>2. CASE c = Len(cs) /\ i = L + 1 /\ k = 1 /\ conns'[c][i] = Footer
    <3>1. conns'[c][i].kind = "footer" /\ i = Len(conns'[c])
        BY <1>5, <2>2 DEF Footer
    <3>2. CASE L = 0
        BY <2>2, <3>1, <3>2
    <3>3. CASE L # 0
      <4>1. c \in 1..Len(conns) /\ cs[c] = conns[c]
        BY <1>3, <1>34, <2>2, <3>3
      <4>2. L \in 1..Len(conns[c]) /\ conns'[c][L] = conns[c][L] /\ i - 1 = L
        BY <1>3, <1>5, <2>2, <3>3, <4>1, SMTT(30)
      <4>3. conns'[c][L].kind = "entry"
        BY <1>33, <1>8, <4>1, <4>2 DEF Regular
      <4>. QED
        BY <3>1, <4>2, <4>3
    <3>. QED
        BY <3>2, <3>3
  <2>. QED
    BY <1>6, <2>1, <2>2
<1>10. ConnectionsBeginWithTheFirst'
  <2>. SUFFICES ASSUME NEW c \in 1..Len(conns'), Len(conns'[c]) >= 2
                PROVE  conns'[c][2] = Entry(<<1>>)
    BY DEF ConnectionsBeginWithTheFirst, Entry
  <2>1. 2 \in 1..Len(conns'[c])
    <3>1. conns'[c] \in Seq(Items)
        BY <1>5
    <3>. QED
        BY <3>1
  <2>2. c \in 1..Len(conns) /\ 2 \in 1..Len(conns[c]) /\ conns'[c][2] = conns[c][2]
    <3>1. 2 # L + 1
        BY <1>33
    <3>. QED
        BY <1>6, <2>1, <3>1
  <2>3. Len(conns[c]) >= 2
    <3>1. conns[c] \in Seq(Items)
        BY <1>2, <2>2
    <3>. QED
        BY <2>2, <3>1
  <2>. QED
    BY <1>1, <2>2, <2>3 DEF FirstInv, ConnectionsBeginWithTheFirst
<1>11. ASSUME NEW e PROVE Sent(e)' <=> Sent(e)
  <2>1. ASSUME Sent(e) PROVE Sent(e)'
    <3>1. PICK c \in 1..Len(conns) : \E i \in 1..Len(conns[c]) :
            \E j \in 1..Len(conns[c][i].chunk) : conns[c][i].chunk[j] = e
        BY <2>1 DEF Sent
    <3>2. PICK i \in 1..Len(conns[c]) :
            \E j \in 1..Len(conns[c][i].chunk) : conns[c][i].chunk[j] = e
        BY <3>1
    <3>3. c \in 1..Len(conns') /\ i \in 1..Len(conns'[c]) /\ conns'[c][i] = conns[c][i]
        BY <1>7
    <3>. QED
        BY <3>2, <3>3 DEF Sent
  <2>2. ASSUME Sent(e)' PROVE Sent(e)
    <3>1. PICK c \in 1..Len(conns') : \E i \in 1..Len(conns'[c]) :
            \E j \in 1..Len(conns'[c][i].chunk) : conns'[c][i].chunk[j] = e
        BY <2>2 DEF Sent
    <3>2. PICK i \in 1..Len(conns'[c]) :
            \E j \in 1..Len(conns'[c][i].chunk) : conns'[c][i].chunk[j] = e
        BY <3>1
    <3>3. conns'[c][i] # Footer
        BY <3>2 DEF Footer
    <3>4. c \in 1..Len(conns) /\ i \in 1..Len(conns[c]) /\ conns'[c][i] = conns[c][i]
        BY <1>6, <3>3
    <3>5. \E j \in 1..Len(conns[c][i].chunk) : conns[c][i].chunk[j] = e
        BY <3>2, <3>4
    <3>. QED
        BY <3>4, <3>5 DEF Sent
  <2>. QED
    BY <2>1, <2>2
<1>. QED
    BY <1>5, <1>9, <1>10, <1>11 DEF NothingElseSent

\* finish_stream.
LEMMA FinishStreamKeeps ==
    ASSUME StreamInv, FinishStream
    PROVE  StreamInv'
<1>1. StreamTypeOK /\ BufferInv /\ FileInv /\ ConnInv /\ FirstInv /\ KeptInv
    BY DEF StreamInv
<1>2. /\ streamPhase = "running" /\ streamPhase' = "finished"
      /\ UNCHANGED <<count, values, idx, bgn, file, at, done, replayFailed>>
    BY DEF FinishStream
<1>3. /\ open' \in BOOLEAN /\ expired' \in BOOLEAN /\ first' \in BOOLEAN
      /\ ~open' => first'
      /\ first' = first \/ first' = TRUE
  <2>1. open \in BOOLEAN /\ expired \in BOOLEAN /\ first \in BOOLEAN /\ (~open => first)
    BY <1>1 DEF StreamTypeOK, ConnInv
  <2>. QED
    BY <2>1, Zenon DEF FinishStream
<1>4. NothingElseSent
  <2>1. CASE UNCHANGED conns
    BY <1>1, <2>1 DEF StreamTypeOK, ConnInv, FirstInv, StreamsWellFormed,
                      ConnectionsBeginWithTheFirst, Sent, NothingElseSent
  <2>2. CASE open /\ conns' = Written(conns, <<Footer>>, 1)
    <3>1. FooterSent(conns, 1)
        BY <2>2 DEF FooterSent
    <3>. QED
        BY <1>2, <3>1, FooterKeeps
  <2>3. CASE ~open /\ \E k \in 0..1 : conns' = Written(Append(conns, <<>>), <<Footer>>, k)
    <3>1. PICK k \in 0..1 : conns' = Written(Append(conns, <<>>), <<Footer>>, k)
        BY <2>3
    <3>2. FooterSent(Append(conns, <<>>), k)
        BY <2>3, <3>1 DEF FooterSent
    <3>. QED
        BY <1>2, <3>2, FooterKeeps
  <2>. QED
    BY <2>1, <2>2, <2>3 DEF FinishStream
<1>5. StreamTypeOK'
    BY <1>1, <1>2, <1>3, <1>4 DEF StreamTypeOK, NothingElseSent
<1>6. BufferInv' /\ Fin' = Fin /\ FileInv'
    BY <1>1, <1>2 DEF BufferInv, Fin, NextIdx, FileInv
<1>7. ConnInv'
    BY <1>2, <1>3, <1>4 DEF ConnInv, NothingElseSent
<1>8. FirstInv'
    BY <1>1, <1>2, <1>3, <1>4, <1>6 DEF FirstInv, NothingElseSent
<1>9. KeptInv'
    BY <1>1, <1>2, <1>4, <1>6 DEF KeptInv, Stored, NothingElseSent
<1>. QED
    BY <1>5, <1>6, <1>7, <1>8, <1>9 DEF StreamInv

\* begin, the timer of the reconnection, and steps of others.
LEMMA OthersKeep ==
    ASSUME StreamInv, streamPhase' \in {"new", "running", "finished"},
           streamPhase' # "finished" => streamPhase # "finished", expired' \in BOOLEAN,
           UNCHANGED <<count, values, idx, open, first, bgn, file, at, done, conns, replayFailed>>
    PROVE  StreamInv'
<1>1. StreamTypeOK /\ BufferInv /\ FileInv /\ ConnInv /\ FirstInv /\ KeptInv
    BY DEF StreamInv
<1>2. NextIdx' = NextIdx /\ Fin' = Fin
    BY DEF NextIdx, Fin
<1>3. StreamTypeOK'
    BY <1>1 DEF StreamTypeOK
<1>4. BufferInv' /\ FileInv'
    BY <1>1, <1>2 DEF BufferInv, FileInv
<1>5. StreamsWellFormed' /\ ConnectionsBeginWithTheFirst'
    BY <1>1 DEF ConnInv, FirstInv, StreamsWellFormed, ConnectionsBeginWithTheFirst
<1>6. ConnInv'
    BY <1>1, <1>5 DEF ConnInv
<1>7. FirstInv'
    BY <1>1, <1>2, <1>5 DEF FirstInv
<1>8. KeptInv'
    BY <1>1, <1>2, ZenonT(40) DEF KeptInv, Sent, Stored
<1>. QED
    BY <1>3, <1>4, <1>6, <1>7, <1>8 DEF StreamInv

\* Every step of the stream keeps the invariant.
LEMMA StreamStepKeeps == StreamInv /\ [StreamNext]_streamVars => StreamInv'
<1>. SUFFICES ASSUME StreamInv, [StreamNext]_streamVars PROVE StreamInv'
    OBVIOUS
<1>1. CASE BeginStream
    BY <1>1, OthersKeep DEF BeginStream, StreamInv, StreamTypeOK
<1>2. CASE EntryAppend
    BY <1>2, EntryAppendKeeps
<1>3. CASE FinishEntry
    BY <1>3, FinishEntryKeeps
<1>4. CASE FinishStream
    BY <1>4, FinishStreamKeeps
<1>5. CASE Expire
    BY <1>5, OthersKeep DEF Expire, StreamInv, StreamTypeOK
<1>6. CASE UNCHANGED streamVars
    BY <1>6, OthersKeep DEF streamVars, StreamInv, StreamTypeOK
<1>. QED
    BY <1>1, <1>2, <1>3, <1>4, <1>5, <1>6 DEF StreamNext

\* Nothing has happened yet.
LEMMA StreamInitially == StreamInit => StreamInv
<1>. SUFFICES ASSUME StreamInit PROVE StreamInv
    OBVIOUS
<1>. USE DEF StreamInit
<1>1. <<>> \in Chunks /\ <<>> \in Seq(Chunks) /\ <<>> \in Seq(Seq(Items)) /\ Len(<<>>) = 0
    BY DEF Chunks
<1>2. NextIdx = 1 /\ values[NextIdx] = <<>> /\ Fin = 0
    BY DEF NextIdx, Fin
<1>3. StreamTypeOK
  <2>1. values \in [0..1 -> Chunks] /\ idx \in 0..1
    BY <1>1
  <2>. QED
    BY <1>1, <2>1, Zenon DEF StreamTypeOK
<1>4. BufferInv /\ FileInv
    BY <1>1, <1>2 DEF BufferInv, FileInv
<1>5. ConnInv /\ FirstInv
    BY <1>1, <1>2 DEF ConnInv, StreamsWellFormed, FirstInv, ConnectionsBeginWithTheFirst
<1>6. KeptInv
    BY <1>1, <1>2 DEF KeptInv, Sent, Stored
<1>. QED
    BY <1>3, <1>4, <1>5, <1>6 DEF StreamInv

(***************************************************************************)
(* The invariant that holds it together: what connections were written,    *)
(* what is remembered as first and what waits in the file, together.       *)
(***************************************************************************)
THEOREM StreamInvHolds == StreamSpec => []StreamInv
<1>. QED
    BY StreamInitially, StreamStepKeeps, PTL DEF StreamSpec

(***************************************************************************)
(* However writes and connections fail, each connection is the header and  *)
(* then entries with separators between them, cut off where it broke, and  *)
(* begins with the first entry of the log (_send_first, _send_sep,         *)
(* finish_stream).                                                         *)
(***************************************************************************)
THEOREM ConnectionsStayWellFormed == StreamSpec => []ConnectionsAreWellFormed
<1>1. StreamInv => ConnectionsAreWellFormed
    BY DEF StreamInv, ConnInv, FirstInv, ConnectionsAreWellFormed
<1>. QED
    BY <1>1, StreamInvHolds, PTL

(***************************************************************************)
(* Unless a connection broke while the stored chunks were sent, a finished *)
(* entry was written or waits in the temporary file, and the file holds    *)
(* unsent entries in the order they were made (finish_entry, add_chunk,    *)
(* for_each_chunk).                                                        *)
(***************************************************************************)
THEOREM EntriesStayKept == StreamSpec => []EntriesAreKept
<1>1. StreamInv => StoredAreUnsentAndInOrder
    BY DEF StreamInv, KeptInv, StoredAreUnsentAndInOrder
<1>2. ASSUME StreamInv, ~replayFailed, NEW e \in Finished PROVE Sent(e) \/ Stored(e)
  <2>1. StreamTypeOK /\ BufferInv /\ \A n \in 1..Fin : Sent(n) \/ Stored(n)
    BY <1>2 DEF StreamInv, KeptInv
  <2>2. e \in 1..count /\ values[NextIdx] # <<e>> /\ count \in Nat
    BY <1>2, <2>1 DEF Finished, StreamTypeOK
  <2>3. e \in 1..Fin
    BY <2>1, <2>2 DEF BufferInv, Fin
  <2>. QED
    BY <2>1, <2>3
<1>3. StreamInv => LostOnlyByFailedReplay
    BY <1>2 DEF LostOnlyByFailedReplay, NothingLost
<1>. QED
    BY <1>1, <1>3, StreamInvHolds, PTL DEF EntriesAreKept

-----------------------------------------------------------------------------
(* The log proxy.                                                          *)

CallSet ==
    [op : {"begin_log", "message", "heartbeat", "describe", "finish_log"},
     thread : Threads, severity : Int]

Numbers == Nat \ {0}
Part == [call : Numbers, part : {"begin", "arg", "finish", "whole"}]

ProxyTypeOK ==
    /\ phase \in {"starting", "failed", "running", "finished"}
    /\ calls \in Seq(CallSet)
    /\ delegate \in BOOLEAN /\ pending \in BOOLEAN
    /\ delayed \in Seq(Numbers)
    /\ configured \in Int /\ severity \in Int
    /\ entry \in [Threads -> Nat]
    /\ backend \in [Threads -> {"none", "proxy", "delegate", "begun", "added"}]
    /\ lock \in Threads \cup {"free"}
    /\ buffer \in Seq(Part)
    /\ out \in Seq(Seq(Part))

(***************************************************************************)
(* Before the configuration the calls are those of the main thread and all *)
(* of them are kept back; after it nothing is kept back any more and no    *)
(* thread holds an entry that would be.                                    *)
(***************************************************************************)
KeptBack ==
    /\ ~delegate /\ pending /\ out = <<>> /\ lock = "free"
    /\ \A t \in Threads : entry[t] # 0 => t = Main /\ backend[t] = "proxy"
    /\ delayed # <<>> /\ delayed[1] = 1

PassedOn ==
    /\ delegate /\ ~pending /\ delayed = <<>>
    /\ \A t \in Threads : entry[t] # 0 => backend[t] # "proxy"
    /\ out # <<>> /\ out[1] = <<Whole(1)>>

Quiet == \A t \in Threads : entry[t] = 0

PhaseInv ==
    /\ KeptBack \/ PassedOn
    /\ phase = "starting" => KeptBack
    /\ phase = "running" => PassedOn
    /\ phase = "failed" => KeptBack /\ Quiet
    /\ phase = "finished" => Quiet
    /\ phase = "finished" /\ out # <<>> => out[Len(out)] = <<Whole(Len(calls))>>

(***************************************************************************)
(* The holder of the lock is the one thread inside of a message, and the   *)
(* buffer holds the parts of that message and nothing else.                *)
(***************************************************************************)
InMessage(t) == backend[t] \in {"begun", "added"}

LockInv ==
    /\ \A t \in Threads : InMessage(t) => lock = t /\ entry[t] # 0
    /\ \A t \in Threads : lock = t => InMessage(t)
    /\ lock = "free" => buffer = <<>>
    /\ \A t \in Threads : backend[t] = "begun" => buffer = <<Begin(entry[t])>>
    /\ \A t \in Threads : backend[t] = "added" => buffer = <<Begin(entry[t]), Arg(entry[t])>>

\* The number of the call that the i-th entry of the log is from.
Logged(i) == out[i][1].call

CallsInv ==
    /\ Len(calls) >= 1 /\ calls[1].op = "begin_log"
    /\ \A t \in Threads : entry[t] # 0 =>
         /\ entry[t] \in 1..Len(calls)
         /\ calls[entry[t]].op = "message" /\ calls[entry[t]].thread = t
    /\ \A i \in 1..Len(out) : Logged(i) \in 1..Len(calls) /\ out[i] = EntryOf(Logged(i))
    /\ \A i \in 1..Len(delayed) : delayed[i] \in 1..Len(calls)

(***************************************************************************)
(* A call that is done is in the log or kept back, one that is not is in   *)
(* neither; a thread's calls are logged in the order of their numbers, and *)
(* so is everything that is kept back.                                     *)
(***************************************************************************)
InLog(n) == \E i \in 1..Len(out) : Logged(i) = n
InDelayed(n) == \E i \in 1..Len(delayed) : delayed[i] = n

DoneInv ==
    \A n \in 1..Len(calls) :
        calls[n].op # "describe" /\ Done(n) => InLog(n) \/ InDelayed(n)

OnceInv ==
    /\ \A i, j \in 1..Len(out) :
         i < j => /\ Logged(i) # Logged(j)
                  /\ calls[Logged(i)].thread = calls[Logged(j)].thread => Logged(i) < Logged(j)
    /\ \A t \in Threads : \A i \in 1..Len(out) :
         entry[t] # 0 => /\ Logged(i) # entry[t]
                         /\ calls[Logged(i)].thread = t => Logged(i) < entry[t]
    /\ \A i, j \in 1..Len(delayed) : i < j => delayed[i] < delayed[j]
    /\ \A t \in Threads : \A i \in 1..Len(delayed) : entry[t] # 0 => delayed[i] < entry[t]

ProxyInv == ProxyTypeOK /\ PhaseInv /\ LockInv /\ CallsInv /\ DoneInv /\ OnceInv

-----------------------------------------------------------------------------
(* Facts about calls and their entries.                                    *)

\* An entry starts with a part that names its call.
LEMMA EntryFacts ==
    ASSUME NEW n \in Numbers
    PROVE  EntryOf(n) \in Seq(Part) /\ EntryOf(n) # <<>> /\ EntryOf(n)[1].call = n
<1>1. Begin(n) \in Part /\ Arg(n) \in Part /\ Finish(n) \in Part /\ Whole(n) \in Part
    BY DEF Begin, Arg, Finish, Whole, Part
<1>2. Begin(n).call = n /\ Whole(n).call = n
    BY DEF Begin, Whole
<1>3. CASE calls[n].op = "message"
    BY <1>1, <1>2, <1>3 DEF EntryOf
<1>4. CASE calls[n].op # "message"
    BY <1>1, <1>2, <1>4 DEF EntryOf
<1>. QED
    BY <1>3, <1>4

\* What goes out last does not change what went out first.
LEMMA AppendToLog ==
    ASSUME NEW S, NEW s \in Seq(S), s # <<>>, NEW x \in S
    PROVE  /\ Append(s, x) # <<>> /\ Append(s, x)[1] = s[1]
           /\ Append(s, x)[Len(Append(s, x))] = x
OBVIOUS

\* A sequence of one part, and another one.
LEMMA TwoParts ==
    ASSUME NEW S, NEW x \in S, NEW y \in S
    PROVE  Append(<<x>>, y) = <<x, y>>
<1>1. /\ Append(<<x>>, y) \in Seq(S) /\ Len(Append(<<x>>, y)) = 2
      /\ Append(<<x>>, y)[1] = x /\ Append(<<x>>, y)[2] = y
    OBVIOUS
<1>. DEFINE s == Append(<<x>>, y)
<1>2. s \in Seq(S) /\ Len(s) = 2 /\ s[1] = x /\ s[2] = y
    BY <1>1
<1>. HIDE DEF s
<1>3. s = <<x, y>>
    BY <1>2
<1>. QED
    BY <1>3 DEF s

\* Another call leaves the earlier ones and their entries as they are.
LEMMA AnotherCall ==
    ASSUME ProxyTypeOK, NEW c \in CallSet, calls' = Append(calls, c)
    PROVE  /\ calls' \in Seq(CallSet)
           /\ Len(calls') = Len(calls) + 1 /\ Len(calls) \in Nat
           /\ calls'[Len(calls) + 1] = c
           /\ \A n \in 1..Len(calls) : calls'[n] = calls[n] /\ EntryOf(n)' = EntryOf(n)
BY DEF ProxyTypeOK, EntryOf, Begin, Arg, Finish, Whole

\* The invariant holds when begin_log is the only call there is.
LEMMA InitInv == Init => ProxyInv
<1>. SUFFICES ASSUME Init PROVE ProxyInv
    OBVIOUS
<1>. USE LogProxyAssumption DEF Init
<1>1. Call("begin_log", Main, 0) \in CallSet
    BY DEF Call, CallSet
<1>2. ProxyTypeOK
  <2>1. configured \in Int /\ severity \in Int
    OBVIOUS
  <2>2. calls \in Seq(CallSet) /\ delayed \in Seq(Numbers)
    BY <1>1 DEF Numbers
  <2>3. buffer \in Seq(Part) /\ out \in Seq(Seq(Part))
    OBVIOUS
  <2>4. entry \in [Threads -> Nat]
        /\ backend \in [Threads -> {"none", "proxy", "delegate", "begun", "added"}]
    OBVIOUS
  <2>. QED
    BY <2>1, <2>2, <2>3, <2>4 DEF ProxyTypeOK
<1>3. PhaseInv
    BY DEF PhaseInv, KeptBack
<1>4. LockInv
    BY DEF LockInv, InMessage
<1>5. CallsInv
    BY DEF CallsInv, Call
<1>6. DoneInv
  <2>. SUFFICES InDelayed(1)
    BY DEF DoneInv
  <2>. QED
    BY DEF InDelayed
<1>7. OnceInv
    BY DEF OnceInv
<1>. QED
    BY <1>2, <1>3, <1>4, <1>5, <1>6, <1>7 DEF ProxyInv

\* MakeEntry: the thread's new entry is neither in the log nor kept back.
LEMMA MakeEntryKeeps ==
    ASSUME ProxyInv, NEW t \in Threads, NEW s \in Severities, MakeEntry(t, s)
    PROVE  ProxyInv'
<1>. USE LogProxyAssumption DEF ProxyInv
<1>. DEFINE c == Call("message", t, s)
<1>1. c \in CallSet /\ c.op = "message" /\ c.thread = t
    BY DEF Call, CallSet
<1>2. calls' = Append(calls, c) /\ entry[t] = 0 /\ entry' = [entry EXCEPT ![t] = Len(calls) + 1]
    BY DEF MakeEntry, Runs, Number
<1>3. UNCHANGED <<phase, delegate, pending, delayed, configured, severity, lock, buffer, out>>
    BY DEF MakeEntry
<1>4. phase # "failed" /\ phase # "finished" /\ (phase = "starting" => t = Main)
    BY DEF MakeEntry, Runs
<1>5. /\ backend' = [backend EXCEPT ![t] = EntryBackend(s)]
      /\ EntryBackend(s) \in {"proxy", "delegate"}
      /\ EntryBackend(s) = "proxy" <=> ~delegate
    BY DEF MakeEntry, EntryBackend, ProxyTypeOK
<1>6. /\ calls' \in Seq(CallSet)
      /\ Len(calls') = Len(calls) + 1 /\ Len(calls) \in Nat
      /\ calls'[Len(calls) + 1] = c
      /\ \A n \in 1..Len(calls) : calls'[n] = calls[n] /\ EntryOf(n)' = EntryOf(n)
    BY <1>1, <1>2, AnotherCall
<1>. HIDE DEF c
<1>7. ProxyTypeOK'
    BY <1>2, <1>3, <1>5, <1>6 DEF ProxyTypeOK
<1>8. PhaseInv'
    BY <1>2, <1>3, <1>4, <1>5, <1>6 DEF PhaseInv, KeptBack, PassedOn, Quiet, ProxyTypeOK, Whole
<1>9. LockInv'
    BY <1>2, <1>3, <1>5 DEF LockInv, InMessage, ProxyTypeOK, Begin, Arg
<1>10. CallsInv'
  <2>1. \A u \in Threads : entry'[u] # 0 =>
          /\ entry'[u] \in 1..Len(calls')
          /\ calls'[entry'[u]].op = "message" /\ calls'[entry'[u]].thread = u
    BY <1>1, <1>2, <1>6 DEF CallsInv, ProxyTypeOK
  <2>2. \A i \in 1..Len(out) :
          Logged(i) \in 1..Len(calls') /\ out[i] = EntryOf(Logged(i))'
    BY <1>3, <1>6 DEF CallsInv, Logged
  <2>. QED
    BY <1>3, <1>6, <2>1, <2>2 DEF CallsInv, Logged
<1>11. DoneInv'
  <2>. SUFFICES ASSUME NEW n \in 1..Len(calls'), calls'[n].op # "describe", Done(n)'
                PROVE  InLog(n) \/ InDelayed(n)
    BY <1>3 DEF DoneInv, InLog, InDelayed, Logged
  <2>1. n \in 1..Len(calls) /\ Done(n)
    BY <1>2, <1>6 DEF Done, ProxyTypeOK
  <2>. QED
    BY <1>6, <2>1 DEF DoneInv
<1>12. OnceInv'
  <2>1. \A i \in 1..Len(out) : calls'[Logged(i)] = calls[Logged(i)] /\ Logged(i) <= Len(calls)
    BY <1>6 DEF CallsInv
  <2>2. \A u \in Threads : u # t => entry'[u] = entry[u]
    BY <1>2 DEF ProxyTypeOK
  <2>3. entry'[t] = Len(calls) + 1
    BY <1>2 DEF ProxyTypeOK
  <2>4. \A i, j \in 1..Len(out) :
          i < j => /\ Logged(i) # Logged(j)
                   /\ calls'[Logged(i)].thread = calls'[Logged(j)].thread => Logged(i) < Logged(j)
    BY <2>1 DEF OnceInv
  <2>5. \A u \in Threads : \A i \in 1..Len(out) :
          entry'[u] # 0 => /\ Logged(i) # entry'[u]
                           /\ calls'[Logged(i)].thread = u => Logged(i) < entry'[u]
    <3>1. \A i \in 1..Len(out) : Logged(i) < Len(calls) + 1 /\ Logged(i) # Len(calls) + 1
        BY <1>6 DEF CallsInv
    <3>. QED
        BY <2>1, <2>2, <2>3, <3>1 DEF OnceInv
  <2>6. \A u \in Threads : \A i \in 1..Len(delayed) : entry'[u] # 0 => delayed[i] < entry'[u]
    BY <1>6, <2>2, <2>3, SMTT(30) DEF OnceInv, CallsInv
  <2>. QED
    BY <1>3, <2>4, <2>5, <2>6 DEF OnceInv, Logged
<1>. QED
    BY <1>7, <1>8, <1>9, <1>10, <1>11, <1>12

-----------------------------------------------------------------------------
(* One call that is done: into the log, or to those that are kept back.    *)

\* The calls up to the n-th: those that were made before, and perhaps the n-th.
Known(n) ==
    /\ calls' \in Seq(CallSet) /\ Len(calls) <= Len(calls') /\ n \in 1..Len(calls')
    /\ \A m \in 1..Len(calls) : calls'[m] = calls[m] /\ EntryOf(m)' = EntryOf(m)
    /\ \A m \in 1..Len(calls') : m = n \/ m \in 1..Len(calls)

\* With call n done the other threads are where they were, and its own thread
\* has none under way.
DoneWith(n) ==
    /\ entry' \in [Threads -> Nat]
    /\ \A u \in Threads : entry'[u] # 0 => entry'[u] = entry[u] /\ entry[u] # n
    /\ \A u \in Threads : entry'[u] # 0 => calls'[n].thread # u
    /\ \A m \in 1..Len(calls) : m # n /\ Done(m)' => Done(m)

\* The call that is done is logged after all earlier ones of its thread.
LEMMA LogOne ==
    ASSUME ProxyTypeOK, CallsInv, DoneInv, OnceInv, NEW n \in Numbers,
           Known(n), DoneWith(n), out' = Append(out, EntryOf(n)'), UNCHANGED delayed,
           \A i \in 1..Len(out) :
               Logged(i) # n /\ (calls[Logged(i)].thread = calls'[n].thread => Logged(i) < n)
    PROVE  CallsInv' /\ DoneInv' /\ OnceInv'
<1>1. /\ Len(out') = Len(out) + 1 /\ Len(out) \in Nat
      /\ \A i \in 1..Len(out) : out'[i] = out[i]
      /\ out'[Len(out) + 1] = EntryOf(n)'
    BY DEF ProxyTypeOK
<1>2. EntryOf(n)'[1].call = n
    BY DEF EntryOf, Begin, Arg, Finish, Whole
<1>3. \A i \in 1..Len(out') :
        \/ i \in 1..Len(out) /\ out'[i] = out[i] /\ Logged(i)' = Logged(i)
        \/ i = Len(out) + 1 /\ out'[i] = EntryOf(n)' /\ Logged(i)' = n
    BY <1>1, <1>2 DEF Logged
<1>4. \A i \in 1..Len(out) : Logged(i) \in 1..Len(calls) /\ calls'[Logged(i)] = calls[Logged(i)]
    BY DEF CallsInv, Known
<1>5. Len(calls) \in Nat /\ Len(calls') \in Nat
    BY DEF Known, ProxyTypeOK
<1>6. CallsInv'
  <2>1. Len(calls') >= 1 /\ calls'[1].op = "begin_log"
    BY <1>5 DEF CallsInv, Known
  <2>2. ASSUME NEW u \in Threads, entry'[u] # 0
        PROVE  /\ entry'[u] \in 1..Len(calls')
               /\ calls'[entry'[u]].op = "message" /\ calls'[entry'[u]].thread = u
    <3>1. entry'[u] = entry[u]
        BY <2>2 DEF DoneWith
    <3>. QED
        BY <1>5, <2>2, <3>1 DEF CallsInv, Known
  <2>3. ASSUME NEW i \in 1..Len(out')
        PROVE  Logged(i)' \in 1..Len(calls') /\ out'[i] = EntryOf(Logged(i))'
    <3>1. CASE i \in 1..Len(out)
      <4>1. PICK m \in 1..Len(calls) : Logged(i) = m /\ out[i] = EntryOf(m)
        BY <3>1 DEF CallsInv
      <4>2. Logged(i)' = m /\ out'[i] = out[i]
        BY <1>1, <1>3, <3>1, <4>1
      <4>3. EntryOf(Logged(i))' = EntryOf(m)'
        BY <4>2 DEF EntryOf, Begin, Arg, Finish, Whole
      <4>. QED
        BY <1>5, <4>1, <4>2, <4>3 DEF Known
    <3>2. CASE i \notin 1..Len(out)
      <4>1. Logged(i)' = n /\ out'[i] = EntryOf(n)'
        BY <1>3, <3>2
      <4>2. EntryOf(Logged(i))' = EntryOf(n)'
        BY <4>1 DEF EntryOf, Begin, Arg, Finish, Whole
      <4>. QED
        BY <4>1, <4>2 DEF Known
    <3>. QED
        BY <3>1, <3>2
  <2>4. \A i \in 1..Len(delayed') : delayed'[i] \in 1..Len(calls')
    BY <1>5 DEF CallsInv, Known
  <2>. QED
    BY <2>1, <2>2, <2>3, <2>4 DEF CallsInv
<1>7. DoneInv'
  <2>. SUFFICES ASSUME NEW m \in 1..Len(calls'), calls'[m].op # "describe", Done(m)'
                PROVE  InLog(m)' \/ InDelayed(m)'
    BY DEF DoneInv
  <2>1. CASE m = n
    <3>1. Len(out) + 1 \in 1..Len(out')
        BY <1>1
    <3>2. PICK i \in 1..Len(out') : i = Len(out) + 1
        BY <3>1
    <3>. QED
        BY <1>1, <1>3, <2>1, <3>2 DEF InLog
  <2>2. CASE m # n
    <3>1. InLog(m) \/ InDelayed(m)
        BY <2>2 DEF DoneInv, Known, DoneWith
    <3>2. CASE InLog(m)
      <4>1. PICK i \in 1..Len(out) : Logged(i) = m
        BY <3>2 DEF InLog
      <4>2. i \in 1..Len(out') /\ Logged(i)' = m
        BY <1>1, <1>3, <4>1
      <4>. QED
        BY <4>2 DEF InLog
    <3>. QED
        BY <3>1, <3>2 DEF InDelayed
  <2>. QED
    BY <2>1, <2>2
<1>8. OnceInv'
  <2>1. ASSUME NEW i \in 1..Len(out'), NEW j \in 1..Len(out'), i < j
        PROVE  /\ Logged(i)' # Logged(j)'
               /\ calls'[Logged(i)'].thread = calls'[Logged(j)'].thread
                    => Logged(i)' < Logged(j)'
    <3>1. i \in 1..Len(out) /\ Logged(i)' = Logged(i)
        BY <1>1, <1>3, <2>1
    <3>2. CASE j \in 1..Len(out)
        BY <1>1, <1>3, <1>4, <2>1, <3>1, <3>2, SMTT(30) DEF OnceInv
    <3>3. CASE j \notin 1..Len(out)
        BY <1>3, <1>4, <3>1, <3>3
    <3>. QED
        BY <3>2, <3>3
  <2>2. ASSUME NEW u \in Threads, NEW i \in 1..Len(out'), entry'[u] # 0
        PROVE  /\ Logged(i)' # entry'[u]
               /\ calls'[Logged(i)'].thread = u => Logged(i)' < entry'[u]
    <3>1. entry'[u] = entry[u] /\ entry[u] # n /\ calls'[n].thread # u
        BY <2>2 DEF DoneWith
    <3>2. CASE i \in 1..Len(out)
        BY <1>1, <1>3, <1>4, <2>2, <3>1, <3>2 DEF OnceInv
    <3>3. CASE i \notin 1..Len(out)
        BY <1>3, <3>1, <3>3
    <3>. QED
        BY <3>2, <3>3
  <2>3. \A u \in Threads : \A i \in 1..Len(delayed') : entry'[u] # 0 => delayed'[i] < entry'[u]
    BY DEF OnceInv, DoneWith
  <2>. QED
    BY <2>1, <2>2, <2>3 DEF OnceInv
<1>. QED
    BY <1>6, <1>7, <1>8

\* A call that is kept back comes after all that are.
LEMMA KeepOne ==
    ASSUME ProxyTypeOK, CallsInv, DoneInv, OnceInv, NEW n \in Numbers,
           Known(n), DoneWith(n), delayed' = Append(delayed, n), UNCHANGED out, out = <<>>,
           \A u \in Threads : entry'[u] = 0,
           \A i \in 1..Len(delayed) : delayed[i] < n
    PROVE  CallsInv' /\ DoneInv' /\ OnceInv'
<1>1. /\ Len(delayed') = Len(delayed) + 1 /\ Len(delayed) \in Nat
      /\ \A i \in 1..Len(delayed) : delayed'[i] = delayed[i]
      /\ delayed'[Len(delayed) + 1] = n
      /\ \A i \in 1..Len(delayed') : i = Len(delayed) + 1 \/ i \in 1..Len(delayed)
    BY DEF ProxyTypeOK
<1>2. Len(out') = 0
    OBVIOUS
<1>3. CallsInv'
  <2>1. Len(calls') >= 1 /\ calls'[1].op = "begin_log"
    <3>1. Len(calls) \in Nat /\ Len(calls') \in Nat
        BY DEF Known, ProxyTypeOK
    <3>. QED
        BY <3>1 DEF CallsInv, Known
  <2>2. \A i \in 1..Len(delayed') : delayed'[i] \in 1..Len(calls')
    BY <1>1 DEF CallsInv, Known, ProxyTypeOK
  <2>. QED
    BY <1>2, <2>1, <2>2 DEF CallsInv
<1>4. DoneInv'
  <2>. SUFFICES ASSUME NEW m \in 1..Len(calls'), calls'[m].op # "describe", Done(m)'
                PROVE  InDelayed(m)'
    BY DEF DoneInv
  <2>1. CASE m = n
    BY <1>1, <2>1 DEF InDelayed
  <2>2. CASE m # n
    <3>1. InLog(m) \/ InDelayed(m)
        BY <2>2 DEF DoneInv, Known, DoneWith
    <3>2. ~InLog(m)
        BY DEF InLog
    <3>. QED
        BY <1>1, <3>1, <3>2 DEF InDelayed
  <2>. QED
    BY <2>1, <2>2
<1>5. OnceInv'
  <2>1. \A i, j \in 1..Len(delayed') : i < j => delayed'[i] < delayed'[j]
    BY <1>1 DEF OnceInv
  <2>. QED
    BY <1>2, <2>1 DEF OnceInv
<1>. QED
    BY <1>3, <1>4, <1>5

-----------------------------------------------------------------------------
(* The steps.                                                              *)

\* Nothing about which calls are done changes.
LEMMA SameCalls ==
    ASSUME CallsInv, DoneInv, OnceInv, UNCHANGED <<calls, entry, delayed, out>>
    PROVE  CallsInv' /\ DoneInv' /\ OnceInv'
<1>1. \A n : EntryOf(n)' = EntryOf(n)
    BY DEF EntryOf, Begin, Arg, Finish, Whole
<1>2. \A i : Logged(i)' = Logged(i)
    BY DEF Logged
<1>3. CallsInv'
  <2>1. ASSUME NEW i \in 1..Len(out)
        PROVE  Logged(i)' \in 1..Len(calls') /\ out'[i] = EntryOf(Logged(i))'
    <3>1. PICK m \in 1..Len(calls) : Logged(i) = m /\ out[i] = EntryOf(m)
        BY DEF CallsInv
    <3>2. EntryOf(Logged(i))' = EntryOf(m)'
        BY <1>2, <3>1 DEF EntryOf, Begin, Arg, Finish, Whole
    <3>. QED
        BY <1>1, <1>2, <3>1, <3>2
  <2>. QED
    BY <2>1 DEF CallsInv
<1>4. DoneInv'
    BY DEF DoneInv, Done, InLog, InDelayed, Logged
<1>5. OnceInv'
    BY DEF OnceInv, Logged
<1>. QED
    BY <1>3, <1>4, <1>5

\* The proxy keeps the message back.
LEMMA DelayMessageKeeps ==
    ASSUME ProxyInv, NEW t \in Threads, DelayMessage(t)
    PROVE  ProxyInv'
<1>. USE LogProxyAssumption DEF ProxyInv
<1>1. /\ entry[t] # 0 /\ backend[t] = "proxy" /\ pending
      /\ delayed' = Append(delayed, entry[t]) /\ entry' = [entry EXCEPT ![t] = 0]
      /\ UNCHANGED <<phase, calls, delegate, pending, configured, severity, backend, lock,
                     buffer, out>>
    BY DEF DelayMessage, KeepEntry
<1>2. PICK n \in Numbers : n = entry[t]
    BY <1>1 DEF ProxyTypeOK, Numbers
<1>3. KeptBack /\ t = Main /\ out = <<>>
    BY <1>1 DEF PhaseInv, KeptBack, PassedOn
<1>4. \A u \in Threads : entry'[u] = 0
    BY <1>1, <1>3 DEF KeptBack, ProxyTypeOK
<1>5. n \in 1..Len(calls) /\ calls[n].thread = t
    BY <1>1, <1>2 DEF CallsInv
<1>6. Known(n)
    BY <1>1, <1>5 DEF Known, ProxyTypeOK, EntryOf, Begin, Arg, Finish, Whole
<1>7. DoneWith(n)
    BY <1>1, <1>2, <1>3, <1>4 DEF DoneWith, Done, ProxyTypeOK, KeptBack
<1>8. \A i \in 1..Len(delayed) : delayed[i] < n
    BY <1>1, <1>2 DEF OnceInv
<1>9. CallsInv' /\ DoneInv' /\ OnceInv'
    BY <1>1, <1>2, <1>3, <1>4, <1>6, <1>7, <1>8, KeepOne
<1>10. ProxyTypeOK'
    BY <1>1, <1>2 DEF ProxyTypeOK
<1>11. PhaseInv'
  <2>1. delayed' # <<>> /\ delayed'[1] = 1
    BY <1>1, <1>2, <1>3 DEF ProxyTypeOK, KeptBack
  <2>. QED
    BY <1>1, <1>3, <1>4, <2>1 DEF PhaseInv, KeptBack, PassedOn, Quiet
<1>12. LockInv'
    BY <1>1 DEF LockInv, InMessage, ProxyTypeOK, Begin, Arg
<1>. QED
    BY <1>9, <1>10, <1>11, <1>12

\* The message takes the lock, which was free, and the buffer, which was empty.
LEMMA BeginMessageKeeps ==
    ASSUME ProxyInv, NEW t \in Threads, BeginMessage(t)
    PROVE  ProxyInv'
<1>. USE LogProxyAssumption DEF ProxyInv
<1>1. /\ entry[t] # 0 /\ backend[t] = "delegate" /\ lock = "free" /\ lock' = t
      /\ buffer' = Append(buffer, Begin(entry[t]))
      /\ backend' = [backend EXCEPT ![t] = "begun"]
      /\ UNCHANGED <<phase, calls, delegate, pending, delayed, configured, severity, entry, out>>
    BY DEF BeginMessage, TakeLock
<1>2. PassedOn
    BY <1>1 DEF PhaseInv, KeptBack
<1>3. CallsInv' /\ DoneInv' /\ OnceInv'
    BY <1>1, SameCalls
<1>4. ProxyTypeOK'
  <2>1. Begin(entry[t]) \in Part
    BY <1>1 DEF Begin, Part, Numbers, ProxyTypeOK
  <2>. QED
    BY <1>1, <2>1 DEF ProxyTypeOK
<1>5. PhaseInv'
    BY <1>1, <1>2 DEF PhaseInv, KeptBack, PassedOn, Quiet, ProxyTypeOK, Whole
<1>6. LockInv'
  <2>1. buffer' = <<Begin(entry[t])>>
    BY <1>1 DEF LockInv, ProxyTypeOK
  <2>2. \A u \in Threads : u # t => backend'[u] = backend[u] /\ ~InMessage(u)
    BY <1>1 DEF LockInv, ProxyTypeOK
  <2>. QED
    BY <1>1, <2>1, <2>2 DEF LockInv, InMessage, ProxyTypeOK, Begin
<1>. QED
    BY <1>3, <1>4, <1>5, <1>6

\* add_string: the thread that holds the lock adds its argument to the buffer.
LEMMA AddArgKeeps ==
    ASSUME ProxyInv, NEW t \in Threads, AddArg(t)
    PROVE  ProxyInv'
<1>. USE LogProxyAssumption DEF ProxyInv
<1>1. /\ backend[t] = "begun"
      /\ buffer' = Append(buffer, Arg(entry[t]))
      /\ backend' = [backend EXCEPT ![t] = "added"]
      /\ UNCHANGED <<phase, calls, delegate, pending, delayed, configured, severity, entry,
                     lock, out>>
    BY DEF AddArg
<1>2. entry[t] # 0 /\ lock = t /\ buffer = <<Begin(entry[t])>>
    BY <1>1 DEF LockInv, InMessage
<1>3. PassedOn
    BY <1>1, <1>2 DEF PhaseInv, KeptBack
<1>4. CallsInv' /\ DoneInv' /\ OnceInv'
    BY <1>1, SameCalls
<1>5. ProxyTypeOK'
  <2>1. Arg(entry[t]) \in Part
    BY <1>2 DEF Arg, Part, Numbers, ProxyTypeOK
  <2>. QED
    BY <1>1, <2>1 DEF ProxyTypeOK
<1>6. PhaseInv'
    BY <1>1, <1>3 DEF PhaseInv, KeptBack, PassedOn, Quiet, ProxyTypeOK, Whole
<1>7. LockInv'
  <2>1. buffer' = <<Begin(entry[t]), Arg(entry[t])>>
    <3>1. Begin(entry[t]) \in Part /\ Arg(entry[t]) \in Part
        BY <1>2 DEF Begin, Arg, Part, Numbers, ProxyTypeOK
    <3>. QED
        BY <1>1, <1>2, <3>1, TwoParts
  <2>2. \A u \in Threads : u # t => backend'[u] = backend[u] /\ ~InMessage(u)
    BY <1>1, <1>2 DEF LockInv, ProxyTypeOK
  <2>. QED
    BY <1>1, <1>2, <2>1, <2>2 DEF LockInv, InMessage, ProxyTypeOK, Begin, Arg
<1>. QED
    BY <1>4, <1>5, <1>6, <1>7

\* The message is whole when it goes out, and the next one of its thread.
LEMMA FinishMessageKeeps ==
    ASSUME ProxyInv, NEW t \in Threads, FinishMessage(t)
    PROVE  ProxyInv'
<1>. USE LogProxyAssumption DEF ProxyInv
<1>1. /\ backend[t] = "added"
      /\ out' = Append(out, Append(buffer, Finish(entry[t]))) /\ buffer' = <<>>
      /\ lock' = "free" /\ entry' = [entry EXCEPT ![t] = 0]
      /\ backend' = [backend EXCEPT ![t] = "none"]
      /\ UNCHANGED <<phase, calls, delegate, pending, delayed, configured, severity>>
    BY DEF FinishMessage, Unlock
<1>2. entry[t] # 0 /\ lock = t /\ buffer = <<Begin(entry[t]), Arg(entry[t])>>
    BY <1>1 DEF LockInv, InMessage
<1>3. PICK n \in Numbers : n = entry[t]
    BY <1>2 DEF ProxyTypeOK, Numbers
<1>4. n \in 1..Len(calls) /\ calls[n].op = "message" /\ calls[n].thread = t
    BY <1>2, <1>3 DEF CallsInv
<1>5. EntryOf(n)' = EntryOf(n) /\ EntryOf(n) = Append(buffer, Finish(n))
    BY <1>1, <1>2, <1>3, <1>4 DEF EntryOf, Begin, Arg, Finish, Whole
<1>6. out' = Append(out, EntryOf(n)')
    BY <1>1, <1>3, <1>5
<1>7. Known(n)
    BY <1>1, <1>4 DEF Known, ProxyTypeOK, EntryOf, Begin, Arg, Finish, Whole
<1>8. DoneWith(n)
    BY <1>1, <1>3, <1>4 DEF DoneWith, Done, ProxyTypeOK, CallsInv
<1>9. \A i \in 1..Len(out) :
        Logged(i) # n /\ (calls[Logged(i)].thread = calls'[n].thread => Logged(i) < n)
    BY <1>1, <1>2, <1>3, <1>4 DEF OnceInv
<1>10. CallsInv' /\ DoneInv' /\ OnceInv'
    BY <1>1, <1>6, <1>7, <1>8, <1>9, LogOne
<1>11. ProxyTypeOK'
  <2>1. out' \in Seq(Seq(Part))
    BY <1>5, <1>6, EntryFacts DEF ProxyTypeOK
  <2>. QED
    BY <1>1, <2>1 DEF ProxyTypeOK
<1>12. PhaseInv'
  <2>1. PassedOn /\ phase # "finished"
    BY <1>1, <1>2 DEF PhaseInv, KeptBack, Quiet
  <2>2. out' # <<>> /\ out'[1] = out[1]
    <3>1. out \in Seq(Seq(Part)) /\ out # <<>> /\ EntryOf(n)' \in Seq(Part)
      BY <1>5, <2>1, EntryFacts DEF PassedOn, ProxyTypeOK
    <3>. QED
      BY <1>6, <3>1, AppendToLog
  <2>. QED
    BY <1>1, <2>1, <2>2 DEF PhaseInv, KeptBack, PassedOn, Quiet, ProxyTypeOK, Whole
<1>13. LockInv'
  <2>1. \A u \in Threads : u # t => backend'[u] = backend[u] /\ ~InMessage(u)
    BY <1>1, <1>2 DEF LockInv, ProxyTypeOK
  <2>. QED
    BY <1>1, <2>1 DEF LockInv, InMessage, ProxyTypeOK
<1>. QED
    BY <1>10, <1>11, <1>12, <1>13

\* A step that makes a call and is done with it at once.
LEMMA CallAtOnce ==
    ASSUME ProxyInv, NEW c \in CallSet, calls' = Append(calls, c), entry' = entry,
           entry[c.thread] = 0, NEW n \in Numbers, n = Len(calls) + 1
    PROVE  /\ Known(n) /\ DoneWith(n) /\ Len(calls') = n
           /\ c.op # "message" => EntryOf(n)' = <<Whole(n)>>
           /\ \A i \in 1..Len(out) : Logged(i) \in Numbers /\ Logged(i) < n
           /\ \A i \in 1..Len(delayed) : delayed[i] < n
<1>. USE DEF ProxyInv
<1>1. /\ calls' \in Seq(CallSet)
      /\ Len(calls') = n /\ Len(calls) \in Nat
      /\ calls'[n] = c
      /\ \A m \in 1..Len(calls) : calls'[m] = calls[m] /\ EntryOf(m)' = EntryOf(m)
    BY AnotherCall
<1>2. Known(n)
    BY <1>1 DEF Known
<1>3. DoneWith(n)
  <2>1. \A u \in Threads : entry[u] # 0 => entry[u] \in 1..Len(calls) /\ calls'[n].thread # u
    BY <1>1 DEF CallsInv
  <2>. QED
    BY <1>1, <2>1 DEF DoneWith, Done, ProxyTypeOK
<1>4. c.op # "message" => EntryOf(n)' = <<Whole(n)>>
    BY <1>1 DEF EntryOf, Whole
<1>5. /\ \A i \in 1..Len(out) : Logged(i) \in Numbers /\ Logged(i) < n
      /\ \A i \in 1..Len(delayed) : delayed[i] < n
    BY <1>1 DEF CallsInv, Numbers
<1>. QED
    BY <1>1, <1>2, <1>3, <1>4, <1>5

\* heartbeat: before the configuration it is kept back, after it goes out whole.
LEMMA HeartbeatKeeps ==
    ASSUME ProxyInv, NEW t \in Threads, Heartbeat(t)
    PROVE  ProxyInv'
<1>. USE LogProxyAssumption DEF ProxyInv
<1>. DEFINE c == Call("heartbeat", t, 0)
<1>1. c \in CallSet /\ c.op = "heartbeat" /\ c.thread = t
    BY DEF Call, CallSet
<1>2. /\ calls' = Append(calls, c)
      /\ UNCHANGED <<phase, delegate, pending, configured, severity, entry, backend, lock, buffer>>
      /\ entry[t] = 0 /\ phase \in {"starting", "running"} /\ (phase = "starting" => t = Main)
    BY DEF Heartbeat, Runs
<1>. HIDE DEF c
<1>3. PICK n \in Numbers : n = Len(calls) + 1
    BY DEF ProxyTypeOK, Numbers
<1>4. /\ Known(n) /\ DoneWith(n) /\ EntryOf(n)' = <<Whole(n)>> /\ Len(calls') = n
      /\ \A i \in 1..Len(out) : Logged(i) \in Numbers /\ Logged(i) < n
      /\ \A i \in 1..Len(delayed) : delayed[i] < n
  <2>1. entry[c.thread] = 0 /\ c.op # "message"
    BY <1>1, <1>2
  <2>. QED
    BY <1>1, <1>2, <1>3, <2>1, CallAtOnce
<1>5. <<Whole(n)>> \in Seq(Part)
    BY DEF Whole, Part
<1>6. LockInv'
    BY <1>2 DEF LockInv, InMessage, ProxyTypeOK, Begin, Arg
<1>7. CASE delegate
  <2>1. lock = "free" /\ out' = Append(out, <<Whole(n)>>) /\ UNCHANGED delayed
    BY <1>3, <1>7 DEF Heartbeat, Number, Whole
  <2>2. PassedOn /\ phase = "running"
    BY <1>2, <1>7 DEF PhaseInv, KeptBack
  <2>3. \A i \in 1..Len(out) :
          Logged(i) # n /\ (calls[Logged(i)].thread = calls'[n].thread => Logged(i) < n)
    BY <1>4 DEF Numbers
  <2>4. CallsInv' /\ DoneInv' /\ OnceInv'
    BY <1>4, <2>1, <2>3, LogOne
  <2>5. ProxyTypeOK'
    BY <1>2, <1>4, <1>5, <2>1 DEF ProxyTypeOK, Known
  <2>6. PhaseInv'
    <3>1. out' # <<>> /\ out'[1] = out[1]
      <4>1. out \in Seq(Seq(Part)) /\ out # <<>>
        BY <2>2 DEF PassedOn, ProxyTypeOK
      <4>. QED
        BY <1>5, <2>1, <4>1, AppendToLog
    <3>2. PassedOn'
        BY <1>2, <2>1, <2>2, <3>1 DEF PassedOn, Whole
    <3>. QED
        BY <1>2, <2>2, <3>2 DEF PhaseInv
  <2>. QED
    BY <1>6, <2>4, <2>5, <2>6
<1>8. CASE ~delegate
  <2>1. delayed' = Append(delayed, n) /\ UNCHANGED out
    BY <1>3, <1>8 DEF Heartbeat, Number
  <2>2. KeptBack /\ phase = "starting" /\ t = Main
    BY <1>2, <1>8 DEF PhaseInv, PassedOn
  <2>3. out = <<>> /\ \A u \in Threads : entry'[u] = 0
    BY <1>2, <2>2 DEF KeptBack
  <2>4. CallsInv' /\ DoneInv' /\ OnceInv'
    BY <1>4, <2>1, <2>3, KeepOne
  <2>5. ProxyTypeOK'
    BY <1>2, <1>4, <2>1 DEF ProxyTypeOK, Known
  <2>6. PhaseInv'
    <3>1. delayed' # <<>> /\ delayed'[1] = 1
      <4>1. delayed \in Seq(Numbers) /\ delayed # <<>> /\ delayed[1] = 1
        BY <2>2 DEF ProxyTypeOK, KeptBack
      <4>. QED
        BY <2>1, <4>1, AppendToLog
    <3>. QED
        BY <1>2, <2>1, <2>2, <2>3, <3>1 DEF PhaseInv, PassedOn, KeptBack, Quiet
  <2>. QED
    BY <1>6, <2>4, <2>5, <2>6
<1>. QED
    BY <1>7, <1>8 DEF ProxyTypeOK

\* A description that comes when nothing is kept back any more is dropped.
LEMMA DropOne ==
    ASSUME ProxyTypeOK, CallsInv, DoneInv, OnceInv, NEW n \in Numbers,
           Known(n), DoneWith(n), calls'[n].op = "describe", UNCHANGED <<entry, delayed, out>>
    PROVE  CallsInv' /\ DoneInv' /\ OnceInv'
<1>1. \A i : Logged(i)' = Logged(i)
    BY DEF Logged
<1>2. Len(calls) \in Nat /\ Len(calls') \in Nat
    BY DEF ProxyTypeOK, Known
<1>3. \A i \in 1..Len(out) : Logged(i) \in 1..Len(calls) /\ calls'[Logged(i)] = calls[Logged(i)]
    BY DEF CallsInv, Known
<1>4. CallsInv'
  <2>1. Len(calls') >= 1 /\ calls'[1].op = "begin_log"
    BY <1>2 DEF CallsInv, Known
  <2>2. \A u \in Threads : entry'[u] # 0 =>
          /\ entry'[u] \in 1..Len(calls')
          /\ calls'[entry'[u]].op = "message" /\ calls'[entry'[u]].thread = u
    BY <1>2 DEF CallsInv, Known
  <2>3. ASSUME NEW i \in 1..Len(out)
        PROVE  Logged(i)' \in 1..Len(calls') /\ out'[i] = EntryOf(Logged(i))'
    <3>1. PICK m \in 1..Len(calls) : Logged(i) = m /\ out[i] = EntryOf(m)
        BY DEF CallsInv
    <3>2. EntryOf(Logged(i))' = EntryOf(m)'
        BY <1>1, <3>1 DEF EntryOf, Begin, Arg, Finish, Whole
    <3>. QED
        BY <1>1, <1>2, <3>1, <3>2 DEF Known
  <2>4. \A i \in 1..Len(delayed) : delayed[i] \in 1..Len(calls')
    BY <1>2 DEF CallsInv, Known
  <2>. QED
    BY <2>1, <2>2, <2>3, <2>4 DEF CallsInv
<1>5. DoneInv'
  <2>. SUFFICES ASSUME NEW m \in 1..Len(calls'), calls'[m].op # "describe", Done(m)'
                PROVE  InLog(m) \/ InDelayed(m)
    BY DEF DoneInv, InLog, InDelayed, Logged
  <2>. QED
    BY DEF DoneInv, Known, DoneWith
<1>6. OnceInv'
  <2>1. \A i, j \in 1..Len(out) :
          i < j => /\ Logged(i) # Logged(j)
                   /\ calls'[Logged(i)].thread = calls'[Logged(j)].thread => Logged(i) < Logged(j)
    BY <1>3 DEF OnceInv
  <2>2. \A u \in Threads : \A i \in 1..Len(out) :
          entry[u] # 0 => /\ Logged(i) # entry[u]
                          /\ calls'[Logged(i)].thread = u => Logged(i) < entry[u]
    BY <1>3 DEF OnceInv
  <2>. QED
    BY <1>1, <2>1, <2>2 DEF OnceInv
<1>. QED
    BY <1>4, <1>5, <1>6

\* A description is kept back while the proxy waits, and dropped after that.
LEMMA DescribeKeeps ==
    ASSUME ProxyInv, NEW t \in Threads, Describe(t)
    PROVE  ProxyInv'
<1>. USE LogProxyAssumption DEF ProxyInv
<1>. DEFINE c == Call("describe", t, 0)
<1>1. c \in CallSet /\ c.op = "describe" /\ c.thread = t
    BY DEF Call, CallSet
<1>2. /\ calls' = Append(calls, c)
      /\ UNCHANGED <<phase, delegate, pending, configured, severity, entry, backend, lock,
                     buffer, out>>
      /\ entry[t] = 0 /\ phase \in {"starting", "running"} /\ (phase = "starting" => t = Main)
    BY DEF Describe, Runs
<1>. HIDE DEF c
<1>3. PICK n \in Numbers : n = Len(calls) + 1
    BY DEF ProxyTypeOK, Numbers
<1>4. /\ Known(n) /\ DoneWith(n) /\ Len(calls') = n /\ calls'[n].op = "describe"
      /\ \A i \in 1..Len(delayed) : delayed[i] < n
  <2>1. entry[c.thread] = 0
    BY <1>1, <1>2
  <2>. QED
    BY <1>1, <1>2, <1>3, <2>1, CallAtOnce, AnotherCall
<1>5. LockInv'
    BY <1>2 DEF LockInv, InMessage, ProxyTypeOK, Begin, Arg
<1>6. CASE pending
  <2>1. delayed' = Append(delayed, n)
    BY <1>3, <1>6 DEF Describe, Number
  <2>2. KeptBack /\ phase = "starting" /\ t = Main
    BY <1>2, <1>6 DEF PhaseInv, PassedOn
  <2>3. out = <<>> /\ \A u \in Threads : entry'[u] = 0
    BY <1>2, <2>2 DEF KeptBack
  <2>4. CallsInv' /\ DoneInv' /\ OnceInv'
    BY <1>2, <1>4, <2>1, <2>3, KeepOne
  <2>5. ProxyTypeOK'
    BY <1>2, <1>4, <2>1 DEF ProxyTypeOK, Known
  <2>6. PhaseInv'
    <3>1. delayed' # <<>> /\ delayed'[1] = 1
      <4>1. delayed \in Seq(Numbers) /\ delayed # <<>> /\ delayed[1] = 1
        BY <2>2 DEF ProxyTypeOK, KeptBack
      <4>. QED
        BY <2>1, <4>1, AppendToLog
    <3>. QED
        BY <1>2, <2>1, <2>2, <2>3, <3>1 DEF PhaseInv, PassedOn, KeptBack, Quiet
  <2>. QED
    BY <1>5, <2>4, <2>5, <2>6
<1>7. CASE ~pending
  <2>1. UNCHANGED delayed
    BY <1>7 DEF Describe
  <2>2. PassedOn /\ phase = "running"
    BY <1>2, <1>7 DEF PhaseInv, KeptBack
  <2>3. CallsInv' /\ DoneInv' /\ OnceInv'
    BY <1>2, <1>4, <2>1, DropOne
  <2>4. ProxyTypeOK'
    BY <1>2, <1>4, <2>1 DEF ProxyTypeOK, Known
  <2>5. PhaseInv'
    BY <1>2, <2>1, <2>2 DEF PhaseInv, PassedOn, KeptBack, Quiet, Whole
  <2>. QED
    BY <1>5, <2>3, <2>4, <2>5
<1>. QED
    BY <1>6, <1>7

\* SIGUSR1 and SIGUSR2 change the severity and nothing else.
LEMMA SetVerbosityKeeps ==
    ASSUME ProxyInv, NEW s \in Severities, SetVerbosity(s)
    PROVE  ProxyInv'
<1>. USE LogProxyAssumption DEF ProxyInv
<1>1. /\ severity' \in Int
      /\ UNCHANGED <<phase, calls, delegate, pending, delayed, configured, entry, backend,
                     lock, buffer, out>>
    BY DEF SetVerbosity
<1>2. CallsInv' /\ DoneInv' /\ OnceInv'
    BY <1>1, SameCalls
<1>3. ProxyTypeOK' /\ LockInv'
    BY <1>1 DEF ProxyTypeOK, LockInv, InMessage, Begin, Arg
<1>4. PhaseInv'
    BY <1>1 DEF PhaseInv, KeptBack, PassedOn, Quiet, Whole
<1>. QED
    BY <1>2, <1>3, <1>4

\* The configuration: what is kept back goes out in its order, or, when the
\* backend cannot be made, stays.
LEMMA ConfigureKeeps ==
    ASSUME ProxyInv, Configure
    PROVE  ProxyInv'
<1>. USE LogProxyAssumption DEF ProxyInv
<1>1. /\ phase = "starting" /\ entry[Main] = 0
      /\ UNCHANGED <<calls, configured, entry, backend, lock, buffer>>
    BY DEF Configure
<1>2. KeptBack /\ Quiet
    BY <1>1 DEF PhaseInv, KeptBack, Quiet
<1>3. LockInv'
    BY <1>1 DEF LockInv, InMessage, Begin, Arg
<1>4. CASE phase' = "running"
  <2>1. /\ delegate' = TRUE /\ severity' = configured /\ out' = out \o Replayed
        /\ delayed' = <<>> /\ pending' = FALSE
    BY <1>4 DEF Configure
  <2>2. \A i \in 1..Len(delayed) :
          /\ delayed[i] \in 1..Len(calls) /\ delayed[i] \in Numbers
          /\ EntryOf(delayed[i]) \in Seq(Part) /\ EntryOf(delayed[i])[1].call = delayed[i]
    BY EntryFacts DEF CallsInv, ProxyTypeOK
  <2>3. Replayed \in Seq(Seq(Part)) /\ Len(Replayed) = Len(delayed)
    BY <2>2 DEF Replayed, ProxyTypeOK
  <2>4. /\ out' \in Seq(Seq(Part)) /\ Len(out') = Len(delayed) /\ Len(delayed) \in Nat
        /\ \A i \in 1..Len(delayed) : out'[i] = EntryOf(delayed[i])
    BY <1>2, <2>1, <2>3 DEF KeptBack, Replayed, ProxyTypeOK
  <2>5. \A i \in 1..Len(delayed) : Logged(i)' = delayed[i]
    BY <2>2, <2>4 DEF Logged
  <2>6. \A m : EntryOf(m)' = EntryOf(m)
    BY <1>1 DEF EntryOf, Begin, Arg, Finish, Whole
  <2>7. CallsInv'
    <3>1. ASSUME NEW i \in 1..Len(delayed)
          PROVE  Logged(i)' \in 1..Len(calls) /\ out'[i] = EntryOf(Logged(i))'
      <4>1. PICK m \in 1..Len(calls) : delayed[i] = m
        BY <2>2
      <4>2. EntryOf(Logged(i))' = EntryOf(m)'
        BY <2>5, <4>1 DEF EntryOf, Begin, Arg, Finish, Whole
      <4>. QED
        BY <2>4, <2>5, <2>6, <4>1, <4>2
    <3>. QED
        BY <1>1, <1>2, <2>1, <2>4, <3>1 DEF CallsInv, Quiet
  <2>8. DoneInv'
    <3>. SUFFICES ASSUME NEW m \in 1..Len(calls), calls[m].op # "describe", Done(m)
                  PROVE  InLog(m)'
        BY <1>1 DEF DoneInv, Done
    <3>1. InDelayed(m)
        BY <1>2 DEF DoneInv, InLog, KeptBack
    <3>. QED
        BY <2>4, <2>5, <3>1 DEF InLog, InDelayed
  <2>9. OnceInv'
    <3>1. \A i, j \in 1..Len(out') :
            i < j => /\ Logged(i)' # Logged(j)'
                     /\ calls'[Logged(i)'].thread = calls'[Logged(j)'].thread
                          => Logged(i)' < Logged(j)'
      <4>. SUFFICES ASSUME NEW i \in 1..Len(out'), NEW j \in 1..Len(out'), i < j
                    PROVE  Logged(i)' # Logged(j)' /\ Logged(i)' < Logged(j)'
        OBVIOUS
      <4>1. i \in 1..Len(delayed) /\ j \in 1..Len(delayed)
        BY <2>4
      <4>2. delayed[i] < delayed[j]
        BY <4>1 DEF OnceInv
      <4>3. delayed[i] \in Nat /\ delayed[j] \in Nat
        BY <2>2, <4>1 DEF Numbers
      <4>4. Logged(i)' = delayed[i] /\ Logged(j)' = delayed[j]
        BY <2>5, <4>1
      <4>. QED
        BY <4>2, <4>3, <4>4
    <3>2. \A u \in Threads : entry'[u] = 0
        BY <1>1, <1>2 DEF Quiet
    <3>3. Len(delayed') = 0
        BY <2>1
    <3>. QED
        BY <3>1, <3>2, <3>3 DEF OnceInv
  <2>10. ProxyTypeOK'
    <3>1. delayed' \in Seq(Numbers) /\ severity' \in Int
        BY <2>1 DEF ProxyTypeOK
    <3>2. delegate' \in BOOLEAN /\ pending' \in BOOLEAN
        BY <2>1, Zenon
    <3>. QED
        BY <1>1, <1>4, <2>4, <3>1, <3>2 DEF ProxyTypeOK
  <2>11. PhaseInv'
    <3>1. Len(out') >= 1 /\ out' # <<>> /\ out'[1] = EntryOf(1)
        BY <1>2, <2>4 DEF KeptBack, ProxyTypeOK
    <3>2. EntryOf(1) = <<Whole(1)>>
        BY DEF EntryOf, CallsInv
    <3>. QED
        BY <1>1, <1>2, <1>4, <2>1, <3>1, <3>2 DEF PhaseInv, PassedOn, KeptBack, Quiet, Whole
  <2>. QED
    BY <1>3, <2>7, <2>8, <2>9, <2>10, <2>11
<1>5. CASE phase' = "failed"
  <2>1. UNCHANGED <<delegate, severity, out, delayed, pending>>
    BY <1>5 DEF Configure
  <2>2. CallsInv' /\ DoneInv' /\ OnceInv'
    BY <1>1, <2>1, SameCalls
  <2>3. ProxyTypeOK'
    BY <1>1, <1>5, <2>1 DEF ProxyTypeOK
  <2>4. PhaseInv'
    BY <1>1, <1>2, <1>5, <2>1 DEF PhaseInv, PassedOn, KeptBack, Quiet
  <2>. QED
    BY <1>3, <2>2, <2>3, <2>4
<1>. QED
    BY <1>4, <1>5 DEF Configure

\* finish_log is the last call, and the last entry of a log that is written.
LEMMA FinishLogKeeps ==
    ASSUME ProxyInv, FinishLog
    PROVE  ProxyInv'
<1>. USE LogProxyAssumption DEF ProxyInv
<1>. DEFINE c == Call("finish_log", Main, 0)
<1>1. c \in CallSet /\ c.op = "finish_log" /\ c.thread = Main
    BY DEF Call, CallSet
<1>2. /\ calls' = Append(calls, c) /\ phase' = "finished"
      /\ UNCHANGED <<delegate, pending, configured, severity, entry, backend, lock, buffer>>
      /\ \A t \in Threads : entry[t] = 0
      /\ phase \in {"running", "failed"}
    BY DEF FinishLog
<1>. HIDE DEF c
<1>3. PICK n \in Numbers : n = Len(calls) + 1
    BY DEF ProxyTypeOK, Numbers
<1>4. /\ Known(n) /\ DoneWith(n) /\ EntryOf(n)' = <<Whole(n)>> /\ Len(calls') = n
      /\ \A i \in 1..Len(out) : Logged(i) \in Numbers /\ Logged(i) < n
      /\ \A i \in 1..Len(delayed) : delayed[i] < n
  <2>1. entry[c.thread] = 0 /\ c.op # "message"
    BY <1>1, <1>2
  <2>. QED
    BY <1>1, <1>2, <1>3, <2>1, CallAtOnce
<1>5. <<Whole(n)>> \in Seq(Part)
    BY DEF Whole, Part
<1>6. LockInv'
    BY <1>2 DEF LockInv, InMessage, ProxyTypeOK, Begin, Arg
<1>7. CASE delegate
  <2>1. lock = "free" /\ out' = Append(out, <<Whole(n)>>) /\ UNCHANGED delayed
    BY <1>3, <1>7 DEF FinishLog, Number, Whole
  <2>2. PassedOn
    BY <1>7 DEF PhaseInv, KeptBack
  <2>3. \A i \in 1..Len(out) :
          Logged(i) # n /\ (calls[Logged(i)].thread = calls'[n].thread => Logged(i) < n)
    BY <1>4 DEF Numbers
  <2>4. CallsInv' /\ DoneInv' /\ OnceInv'
    BY <1>4, <2>1, <2>3, LogOne
  <2>5. ProxyTypeOK'
    BY <1>2, <1>4, <1>5, <2>1 DEF ProxyTypeOK, Known
  <2>6. PhaseInv'
    <3>1. out' # <<>> /\ out'[1] = out[1] /\ out'[Len(out')] = <<Whole(n)>>
      <4>1. out \in Seq(Seq(Part)) /\ out # <<>>
        BY <2>2 DEF PassedOn, ProxyTypeOK
      <4>. QED
        BY <1>5, <2>1, <4>1, AppendToLog
    <3>2. PassedOn' /\ Quiet'
        BY <1>2, <2>1, <2>2, <3>1 DEF PassedOn, Quiet, Whole
    <3>. QED
        BY <1>2, <1>4, <3>1, <3>2 DEF PhaseInv, Whole
  <2>. QED
    BY <1>6, <2>4, <2>5, <2>6
<1>8. CASE ~delegate
  <2>1. delayed' = Append(delayed, n) /\ UNCHANGED out
    BY <1>3, <1>8 DEF FinishLog, Number
  <2>2. KeptBack
    BY <1>8 DEF PhaseInv, PassedOn
  <2>3. out = <<>> /\ \A u \in Threads : entry'[u] = 0
    BY <1>2, <2>2 DEF KeptBack
  <2>4. CallsInv' /\ DoneInv' /\ OnceInv'
    BY <1>4, <2>1, <2>3, KeepOne
  <2>5. ProxyTypeOK'
    BY <1>2, <1>4, <2>1 DEF ProxyTypeOK, Known
  <2>6. PhaseInv'
    <3>1. delayed' # <<>> /\ delayed'[1] = 1
      <4>1. delayed \in Seq(Numbers) /\ delayed # <<>> /\ delayed[1] = 1
        BY <2>2 DEF ProxyTypeOK, KeptBack
      <4>. QED
        BY <2>1, <4>1, AppendToLog
    <3>. QED
        BY <1>2, <2>1, <2>2, <2>3, <3>1 DEF PhaseInv, PassedOn, KeptBack, Quiet
  <2>. QED
    BY <1>6, <2>4, <2>5, <2>6
<1>. QED
    BY <1>7, <1>8 DEF ProxyTypeOK

\* Every step of the proxy keeps the invariant.
LEMMA StepKeeps == ASSUME ProxyInv, [Next]_vars PROVE ProxyInv'
<1>1. ASSUME NEW t \in Threads, Thread(t) PROVE ProxyInv'
    BY <1>1, MakeEntryKeeps, DelayMessageKeeps, BeginMessageKeeps, AddArgKeeps,
       FinishMessageKeeps, HeartbeatKeeps, DescribeKeeps
    DEF Thread
<1>2. ASSUME NEW s \in Severities, SetVerbosity(s) PROVE ProxyInv'
    BY <1>2, SetVerbosityKeeps
<1>3. CASE Configure
    BY <1>3, ConfigureKeeps
<1>4. CASE FinishLog
    BY <1>4, FinishLogKeeps
<1>5. CASE UNCHANGED vars
  <2>1. CallsInv' /\ DoneInv' /\ OnceInv'
    BY <1>5, SameCalls DEF vars, ProxyInv
  <2>2. ProxyTypeOK' /\ LockInv' /\ PhaseInv'
    BY <1>5
    DEF vars, ProxyInv, ProxyTypeOK, LockInv, InMessage, Begin, Arg, PhaseInv, KeptBack,
        PassedOn, Quiet, Whole
  <2>. QED
    BY <2>1, <2>2 DEF ProxyInv
<1>. QED
    BY <1>1, <1>2, <1>3, <1>4, <1>5 DEF Next

\* The inductive invariant, whatever thread takes the next step.
THEOREM ProxyInvHolds == Spec => []ProxyInv
    BY InitInv, StepKeeps, PTL DEF Spec

-----------------------------------------------------------------------------
(* What follows from it.                                                   *)

\* The threads share one buffer, yet an entry of the log is all of one message
\* or one other call (begin_message to finish_message of json_log_backend).
THEOREM EntriesStayWhole == Spec => []EntriesAreWhole
<1>1. ProxyInv => EntriesAreWhole
    BY DEF ProxyInv, CallsInv, EntriesAreWhole, Logged
<1>. QED
    BY <1>1, ProxyInvHolds, PTL

\* A call that is in one place only is counted once.
LEMMA CountedOnce ==
    ASSUME ProxyInv, NEW n \in 1..Len(calls), calls[n].op # "describe", Done(n)
    PROVE  Cardinality(Position(n)) + Cardinality(Delayed(n)) = 1
<1>. USE DEF ProxyInv
<1>1. \A i, j \in Position(n) : i = j
  <2>. SUFFICES ASSUME NEW i \in Position(n), NEW j \in Position(n) PROVE i = j
    OBVIOUS
  <2>1. i \in 1..Len(out) /\ j \in 1..Len(out) /\ Logged(i) = Logged(j)
    BY DEF Position, Logged
  <2>2. ~(i < j) /\ ~(j < i)
    BY <2>1 DEF OnceInv
  <2>. QED
    BY <2>1, <2>2
<1>2. \A i, j \in Delayed(n) : i = j
  <2>. SUFFICES ASSUME NEW i \in Delayed(n), NEW j \in Delayed(n) PROVE i = j
    OBVIOUS
  <2>1. i \in 1..Len(delayed) /\ j \in 1..Len(delayed) /\ delayed[i] = delayed[j]
    BY DEF Delayed
  <2>2. delayed[i] \in Int
    BY <2>1 DEF ProxyTypeOK, Numbers
  <2>3. ~(i < j) /\ ~(j < i)
    BY <2>1, <2>2 DEF OnceInv
  <2>. QED
    BY <2>1, <2>3
<1>3. Position(n) = {} \/ Delayed(n) = {}
    BY DEF PhaseInv, KeptBack, PassedOn, Position, Delayed
<1>4. Position(n) # {} \/ Delayed(n) # {}
    BY DEF DoneInv, InLog, InDelayed, Position, Delayed, Logged
<1>5. Cardinality({}) = 0 /\ \A x : Cardinality({x}) = 1
    BY FS_EmptySet, FS_Singleton
<1>6. CASE Position(n) = {}
  <2>1. PICK i \in Delayed(n) : Delayed(n) = {i}
    BY <1>2, <1>4, <1>6
  <2>2. Cardinality(Delayed(n)) = 1 /\ Cardinality(Position(n)) = 0
    BY <1>5, <1>6, <2>1, Zenon
  <2>. QED
    BY <2>2
<1>7. CASE Delayed(n) = {}
  <2>1. PICK i \in Position(n) : Position(n) = {i}
    BY <1>1, <1>4, <1>7
  <2>2. Cardinality(Position(n)) = 1 /\ Cardinality(Delayed(n)) = 0
    BY <1>5, <1>7, <2>1, Zenon
  <2>. QED
    BY <2>2
<1>. QED
    BY <1>3, <1>6, <1>7

\* Every message and every heartbeat is logged once or kept back once, and each
\* thread's calls are logged in the order in which it made them, before, at
\* and after the configuration (proxy_log_backend, _delayed).
THEOREM LogStaysComplete == Spec => []LogIsComplete
<1>1. ProxyInv => MessagesReachTheLog
    BY CountedOnce DEF MessagesReachTheLog
<1>2. ProxyInv => LogIsInOrder
  <2>. SUFFICES ASSUME ProxyInv PROVE LogIsInOrder
    OBVIOUS
  <2>1. ASSUME NEW i \in 1..Len(out), NEW j \in 1..Len(out), i < j,
               calls[Logged(i)].thread = calls[Logged(j)].thread
        PROVE  Logged(i) < Logged(j)
    BY <2>1 DEF ProxyInv, OnceInv
  <2>2. out # <<>> => out[1] = <<Whole(1)>>
    BY DEF ProxyInv, PhaseInv, KeptBack, PassedOn
  <2>3. out # <<>> /\ phase = "finished" => out[Len(out)] = <<Whole(Len(calls))>>
    BY DEF ProxyInv, PhaseInv
  <2>. QED
    BY <2>1, <2>2, <2>3 DEF LogIsInOrder, Logged
<1>. QED
    BY <1>1, <1>2, ProxyInvHolds, PTL DEF LogIsComplete
=============================================================================
