-------------------------- MODULE SearchFileProofs --------------------------
(***************************************************************************)
(* search_file and zfile.c, for files, buffers and reads of every size:    *)
(* what is searched is the content from its beginning, nothing of a file   *)
(* that stays as it is is missed, no buffer is overrun, and no descriptor  *)
(* is left open.                                                           *)
(***************************************************************************)
EXTENDS SearchFile, SequenceTheorems, WellFoundedInduction, TLAPS

-----------------------------------------------------------------------------
(* The operators                                                            *)

\* The lowest number of a set is one of it.
LEMMA LowestExists ==
  ASSUME NEW S, S \subseteq Nat, S # {}
  PROVE  Min(S) \in S
<1> DEFINE Lower == {ss \in Nat \X Nat : ss[1] < ss[2]}
<1>1. IsWellFoundedOn(Lower, Nat)
  BY NatLessThanWellFounded DEF OpToRel
<1>2. PICK x \in S : \A y \in S : <<y, x>> \notin Lower
  <2> HIDE DEF Lower
  <2> QED  BY <1>1, WFMin
<1>3. \A y, z \in Nat : y < z => <<y, z>> \in Lower
  BY Zenon
<1>4. \A y \in S : x =< y
  <2> SUFFICES ASSUME NEW y \in S, ~(x =< y) PROVE FALSE  OBVIOUS
  <2>1. x \in Nat /\ y \in Nat  BY <1>2
  <2>2. y < x  BY <2>1
  <2> HIDE DEF Lower
  <2> QED  BY <1>2, <1>3, <2>1, <2>2
<1> QED  BY <1>2, <1>4 DEF Min

\* A function on 1..n is a sequence of n values.
LEMMA SequenceOf ==
  ASSUME NEW S, NEW n \in Nat, NEW f \in [1..n -> S]
  PROVE  f \in Seq(S) /\ Len(f) = n
<1>1. f \in Seq(S)  OBVIOUS
<1>2. Len(f) \in Nat /\ DOMAIN f = 1..Len(f) /\ DOMAIN f = 1..n
  BY <1>1, LenProperties
<1> QED  BY <1>1, <1>2

\* More units never come to fewer bytes, and all of them to all of the bytes.
LEMMA UnitsAdd ==
  ASSUME NEW f \in Compressed
  PROVE  /\ Units(f) \in Nat /\ TotalBytes(f) \in Nat
         /\ FileLength(f) \in Nat /\ FileLength(f) >= Units(f)
         /\ f.ending \in Endings
         /\ f.ending = "cut" <=> FileLength(f) = Units(f)
         /\ \A n \in Nat : BytesOf(f, n) \in Nat /\ BytesOf(f, n) <= TotalBytes(f)
         /\ \A m, n \in Nat : m <= n => BytesOf(f, m) <= BytesOf(f, n)
         /\ \A n \in Nat : n >= Units(f) => BytesOf(f, n) = TotalBytes(f)
<1>1. f.upto \in Seq(Nat) /\ f.ending \in Endings
  BY SearchFileAssumption
<1>2. /\ Len(f.upto) \in Nat /\ DOMAIN f.upto = 1..Len(f.upto)
      /\ \A i \in 1..Len(f.upto) : f.upto[i] \in Nat
      /\ Len(f.upto) = 0 <=> f.upto = <<>>
  BY <1>1, LenProperties, EmptySeq
<1>3. \A i, j \in 1..Len(f.upto) : i <= j => f.upto[i] <= f.upto[j]
  BY <1>2, SearchFileAssumption
<1>4. /\ Units(f) \in Nat
      /\ FileLength(f) \in Nat /\ FileLength(f) >= Units(f)
      /\ f.ending = "cut" <=> FileLength(f) = Units(f)
  <2>1. Units(f) \in Nat  BY <1>2 DEF Units
  <2>2. f.ending = "cut" => FileLength(f) = Units(f) + 0
    BY DEF FileLength
  <2>3. f.ending # "cut" => FileLength(f) \in {Units(f) + 1, Units(f) + 2}
    BY DEF FileLength
  <2> QED  BY <2>1, <2>2, <2>3
<1>5. \A n \in Nat : BytesOf(f, n) \in Nat
  BY <1>2 DEF BytesOf, Units, Smaller
<1>6. \A m, n \in Nat : m <= n => BytesOf(f, m) <= BytesOf(f, n)
  BY <1>2, <1>3 DEF BytesOf, Units, Smaller
<1>7. \A n \in Nat : n >= Units(f) => BytesOf(f, n) = TotalBytes(f)
  BY <1>2 DEF BytesOf, Units, Smaller, TotalBytes
<1>8. \A n \in Nat : BytesOf(f, n) <= TotalBytes(f)
  BY <1>4, <1>5, <1>6, <1>7
<1>9. TotalBytes(f) \in Nat  BY <1>4, <1>5 DEF TotalBytes
<1> QED  BY <1>1, <1>4, <1>5, <1>6, <1>7, <1>8, <1>9

-----------------------------------------------------------------------------
(* The types, by the part of the state                                      *)

PathTypes ==
  /\ kind \in Kinds /\ kind_opened \in Kinds
  /\ fd \in Descriptor \cup {0} /\ other_fd \in Descriptor \cup {0}
  /\ owner \in [Descriptor -> {"free", "me", "other"}]
  /\ other \in {"idle", "open", "fclosed"}

LoadTypes ==
  /\ position \in Nat
  /\ disk_size \in Nat /\ f_len \in Nat /\ bytes_read \in Nat
  /\ changed \in BOOLEAN /\ overrun \in BOOLEAN

DecoderTypes ==
  /\ avail_in \in Nat /\ taken \in Nat /\ made \in Nat
  /\ ret \in {"ok", "end", "error"}
  /\ result_size \in Nat /\ avail_out \in Nat

StreamTypes ==
  /\ zstate \in {"closed", "idle", "drain", "input", "inflate", "exited"}
  /\ outbuf \in [0..(OutSize - 1) -> Nat]
  /\ next_out \in 0..OutSize /\ outbuf_start \in 0..next_out
  /\ logic_offset \in Nat /\ decode_offset \in Nat
  /\ eof \in BOOLEAN
  /\ size \in 0..ReadSize /\ total \in Seq(Nat)

\* The parts make up the types.
LEMMA TypesOfTheParts ==
  TypeOK <=> /\ PathTypes /\ LoadTypes /\ DecoderTypes /\ StreamTypes
             /\ buf \in Seq(Nat) /\ searched \in Seq(Nat)
  BY DEF TypeOK, ZTypeOK, PathTypes, LoadTypes, DecoderTypes, StreamTypes

\* open() gives the lowest descriptor that is free.
LEMMA LowestFreeIsFree ==
  ASSUME PathTypes, \E d \in Descriptor : owner[d] = "free"
  PROVE  LowestFree \in Descriptor /\ owner[LowestFree] = "free"
<1> DEFINE S == {d \in Descriptor : owner[d] = "free"}
<1>1. S \subseteq Nat /\ S # {}  BY SearchFileAssumption
<1>2. Min(S) \in S  BY <1>1, LowestExists
<1> QED  BY <1>2 DEF LowestFree

\* Of two descriptors one is free for a thread that has none.
LEMMA OneIsFree ==
  ASSUME PathTypes, DescriptorInv, pc = "open"
  PROVE  \E d \in Descriptor : owner[d] = "free"
<1>1. \A d \in Descriptor : owner[d] # "me"
  BY SearchFileAssumption DEF DescriptorInv, PathTypes
<1>2. PICK d \in Descriptor, e \in Descriptor : d # e  BY SearchFileAssumption
<1> QED  BY <1>1, <1>2 DEF DescriptorInv, PathTypes

-----------------------------------------------------------------------------
(* The steps, by the part of the state                                      *)

\* The program stays where its code is.
LEMMA InputStep ==
  ASSUME InputOK, [Next]_vars
  PROVE  InputOK'
<1>1. CASE \/ Stat \/ Open \/ Fstat \/ IsZipped \/ Search \/ SearchPipe
           \/ Cleanup
  BY <1>1
  DEF Stat, Open, Fstat, IsZipped, Search, SearchPipe, Close, Cleanup, Goto,
      InputOK, Unread, Loading, Whole, Inflating, Over, AfterFstat,
      AfterInflate, vars, zvars, input, loading, growing, elsewhere, decoder,
      window, call
<1>2. CASE \/ ReadFirst \/ ReadMore \/ Loaded
  BY <1>2
  DEF ReadFirst, Read, Into, Verdicts, Smaller, ReadMore, Loaded, Goto,
      InputOK, Unread, Loading, Whole, Inflating, Over, AfterFstat,
      AfterInflate, vars, zvars, input, loading, growing, elsewhere, decoder,
      window, call
<1>3. CASE \/ OpenStream \/ SearchLines \/ CloseStream
           \/ (ReadStream /\ (ReadCall \/ Drain \/ FillInput
                              \/ TruncatedFile \/ InputLeft \/ Inflate
                              \/ InflateFails))
  BY <1>3
  DEF OpenStream, DecompressOpen, Close, ReadStream, ReadCall, Drain,
      DrainedTo, Smaller, FillInput, TruncatedFile, InputLeft, Inflate,
      Decodes, ResultOf, AtTrailer, InflateFails, MeetsDamage, SearchLines,
      CloseStream, ZClose, Goto, InputOK, Unread, Loading, Whole, Inflating,
      Over, AfterFstat, AfterInflate, vars, zvars, input, loading, growing,
      elsewhere, decoder, window, call
<1>4. CASE \/ Decompress \/ Grow \/ InflateAll \/ InflateAllFails
           \/ SearchDecompressed
  BY <1>4
  DEF Decompress, Grow, Room, InflateAll, Decodes, ResultOf, AtTrailer,
      InflateAllFails, MeetsDamage, SearchDecompressed, Goto, InputOK, Unread,
      Loading, Whole, Inflating, Over, AfterFstat, AfterInflate, vars, zvars,
      input, loading, growing, elsewhere, decoder, window, call
<1>5. CASE \/ ReplacePath \/ ChangeFile \/ OtherOpens \/ OtherCloses
           \/ OtherClosesAgain \/ UNCHANGED vars
  BY <1>5
  DEF ReplacePath, ChangeFile, OtherOpens, Others, OtherCloses, Close, Robbed,
      OtherClosesAgain, Goto, InputOK, Unread, Loading, Whole, Inflating, Over,
      AfterFstat, AfterInflate, vars, zvars, input, loading, growing,
      elsewhere, decoder, window, call
<1> QED
  BY <1>1, <1>2, <1>3, <1>4, <1>5
  DEF Next, SearchFile, ReadStream, ZRead

\* Only open() and close() change who has which descriptor.
LEMMA PathTypesStep ==
  ASSUME PathTypes, DescriptorInv, [Next]_vars
  PROVE  PathTypes'
<1>1. CASE \/ Stat \/ Open \/ Fstat \/ IsZipped \/ Search \/ SearchPipe
           \/ Cleanup
  BY <1>1, LowestFreeIsFree, OneIsFree, SearchFileAssumption
  DEF Stat, Open, Fstat, AfterFstat, IsZipped, Search, SearchPipe, Close,
      Cleanup, Goto, PathTypes, DescriptorInv, Kinds, vars, zvars, input,
      loading, growing, elsewhere, decoder, window, call
<1>2. CASE \/ ReadFirst \/ ReadMore \/ Loaded
  BY <1>2
  DEF ReadFirst, Read, Into, Verdicts, Smaller, ReadMore, Loaded, Goto,
      PathTypes, DescriptorInv, Kinds, vars, zvars, input, loading, growing,
      elsewhere, decoder, window, call
<1>3. CASE \/ OpenStream \/ SearchLines \/ CloseStream
           \/ (ReadStream /\ (ReadCall \/ Drain \/ FillInput
                              \/ TruncatedFile \/ InputLeft \/ Inflate
                              \/ InflateFails))
  BY <1>3
  DEF OpenStream, DecompressOpen, Close, ReadStream, ReadCall, Drain,
      DrainedTo, Smaller, FillInput, TruncatedFile, InputLeft, Inflate,
      Decodes, ResultOf, AtTrailer, InflateFails, MeetsDamage, SearchLines,
      CloseStream, ZClose, Goto, PathTypes, DescriptorInv, Kinds, vars, zvars,
      input, loading, growing, elsewhere, decoder, window, call
<1>4. CASE \/ Decompress \/ Grow \/ InflateAll \/ InflateAllFails
           \/ SearchDecompressed
  BY <1>4
  DEF Decompress, Grow, Room, InflateAll, Decodes, ResultOf, AtTrailer,
      AfterInflate, InflateAllFails, MeetsDamage, SearchDecompressed, Goto,
      PathTypes, DescriptorInv, Kinds, vars, zvars, input, loading, growing,
      elsewhere, decoder, window, call
<1>5. CASE \/ ReplacePath \/ ChangeFile \/ OtherOpens \/ OtherCloses
           \/ OtherClosesAgain \/ UNCHANGED vars
  BY <1>5, LowestFreeIsFree, OneIsFree, SearchFileAssumption
  DEF ReplacePath, ChangeFile, OtherOpens, Others, OtherCloses, Close, Robbed,
      OtherClosesAgain, Goto, PathTypes, DescriptorInv, Kinds, vars, zvars,
      input, loading, growing, elsewhere, decoder, window, call
<1> QED
  BY <1>1, <1>2, <1>3, <1>4, <1>5
  DEF Next, SearchFile, ReadStream, ZRead

\* A descriptor is closed by the thread that has it, or by one that closes
\* twice.
LEMMA DescriptorStep ==
  ASSUME InputOK, PathTypes, DescriptorInv, [Next]_vars
  PROVE  DescriptorInv'
<1>1. CASE \/ Stat \/ Open \/ Fstat \/ IsZipped \/ Search \/ SearchPipe
           \/ Cleanup
  BY <1>1, LowestFreeIsFree, OneIsFree, SearchFileAssumption
  DEF Stat, Open, Fstat, IsZipped, Search, SearchPipe, Close, Cleanup, Goto,
      PathTypes, DescriptorInv, InputOK, Unsafe, AsArchive, Stolen, AfterFstat,
      AfterInflate, Settings, Kinds, vars, zvars, input, loading, growing,
      elsewhere, decoder, window, call
<1>2. CASE \/ ReadFirst \/ ReadMore \/ Loaded
  BY <1>2
  DEF ReadFirst, Read, Into, Verdicts, Smaller, ReadMore, Loaded, Goto,
      PathTypes, DescriptorInv, InputOK, Unsafe, AsArchive, Stolen, AfterFstat,
      AfterInflate, Settings, Kinds, vars, zvars, input, loading, growing,
      elsewhere, decoder, window, call
<1>3. CASE \/ OpenStream \/ SearchLines \/ CloseStream
           \/ (ReadStream /\ (ReadCall \/ Drain \/ FillInput
                              \/ TruncatedFile \/ InputLeft \/ Inflate
                              \/ InflateFails))
  BY <1>3
  DEF OpenStream, DecompressOpen, Close, ReadStream, ReadCall, Drain,
      DrainedTo, Smaller, FillInput, TruncatedFile, InputLeft, Inflate,
      Decodes, ResultOf, AtTrailer, InflateFails, MeetsDamage, SearchLines,
      CloseStream, ZClose, Goto, PathTypes, DescriptorInv, InputOK, Unsafe,
      AsArchive, Stolen, AfterFstat, AfterInflate, Settings, Kinds, vars,
      zvars, input, loading, growing, elsewhere, decoder, window, call
<1>4. CASE \/ Decompress \/ Grow \/ InflateAll \/ InflateAllFails
           \/ SearchDecompressed
  BY <1>4
  DEF Decompress, Grow, Room, InflateAll, Decodes, ResultOf, AtTrailer,
      InflateAllFails, MeetsDamage, SearchDecompressed, Goto, PathTypes,
      DescriptorInv, InputOK, Unsafe, AsArchive, Stolen, AfterFstat,
      AfterInflate, Settings, Kinds, vars, zvars, input, loading, growing,
      elsewhere, decoder, window, call
<1>5. CASE \/ ReplacePath \/ ChangeFile \/ OtherOpens \/ OtherCloses
           \/ OtherClosesAgain \/ UNCHANGED vars
  BY <1>5, LowestFreeIsFree, OneIsFree, SearchFileAssumption
  DEF ReplacePath, ChangeFile, OtherOpens, Others, OtherCloses, Close, Robbed,
      OtherClosesAgain, Goto, PathTypes, DescriptorInv, InputOK, Unsafe,
      AsArchive, Stolen, AfterFstat, AfterInflate, Settings, Kinds, vars,
      zvars, input, loading, growing, elsewhere, decoder, window, call
<1> QED
  BY <1>1, <1>2, <1>3, <1>4, <1>5
  DEF Next, SearchFile, ReadStream, ZRead

\* A read() of n bytes puts them where they belong in the buffer.
LEMMA ReadPlaces ==
  ASSUME LoadTypes, LoadInv, pc \in Loading, NEW most \in Nat, Read(most)
  PROVE  \E n \in Nat :
           /\ position + n <= disk_size
           /\ bytes_read' = bytes_read + n /\ position' = position + n
           /\ overrun' = (overrun \/ bytes_read + n > f_len)
           /\ buf' \in [1..f_len -> Nat]
           /\ \A k \in 1..f_len : k <= bytes_read + n => buf'[k] = k
<1>1. PICK n \in 1..Smaller(most, disk_size - position) :
        /\ buf' = [k \in 1..f_len |-> IF Into(k, n) THEN position + k - bytes_read
                                      ELSE buf[k]]
        /\ overrun' = (overrun \/ bytes_read + n > f_len)
        /\ bytes_read' = bytes_read + n
        /\ position' = position + n
  BY DEF Read
<1>2. n \in Nat /\ position + n <= disk_size
  BY DEF Smaller, LoadTypes
<1>3. position = bytes_read  BY DEF LoadInv
<1>4. \A k \in 1..f_len : Into(k, n) => position + k - bytes_read = k
  BY <1>3 DEF LoadTypes
<1>5. \A k \in 1..f_len : buf[k] \in Nat  BY DEF LoadInv
<1>6. buf' = [k \in 1..f_len |-> IF Into(k, n) THEN k ELSE buf[k]]
  BY <1>1, <1>4
<1>7. buf' \in [1..f_len -> Nat]
  BY <1>5, <1>6
<1>8. \A k \in 1..f_len : k <= bytes_read + n => buf'[k] = k
  BY <1>2, <1>6 DEF Into, LoadInv, LoadTypes
<1> QED  BY <1>1, <1>2, <1>7, <1>8

\* The first read(), which may find nothing.
LEMMA FirstReadPlaces ==
  ASSUME LoadTypes, LoadInv, ReadFirst
  PROVE  \E n \in Nat :
           /\ n > 0 => position + n <= disk_size
           /\ bytes_read' = bytes_read + n /\ position' = position + n
           /\ overrun' => overrun \/ bytes_read + n > f_len
           /\ overrun' \in BOOLEAN
           /\ buf' \in [1..f_len -> Nat]
           /\ \A k \in 1..f_len : k <= bytes_read + n => buf'[k] = k
<1>1. CASE Read(Smaller(f_len, FirstRead))
  <2>1. Smaller(f_len, FirstRead) \in Nat
    BY SearchFileAssumption DEF Smaller, LoadTypes
  <2> QED  BY <1>1, <2>1, ReadPlaces DEF ReadFirst, Loading
<1>2. CASE UNCHANGED <<buf, bytes_read, overrun, position>>
  <2>1. bytes_read + 0 = bytes_read /\ position + 0 = position
    BY DEF LoadTypes
  <2> QED  BY <1>2, <2>1 DEF LoadInv, LoadTypes
<1> QED  BY <1>1, <1>2 DEF ReadFirst

\* What is loaded stays well typed.
LEMMA LoadTypesStep ==
  ASSUME InputOK, LoadTypes, LoadInv, [Next]_vars
  PROVE  LoadTypes'
<1>1. FileLength(file) \in Nat  BY UnitsAdd DEF InputOK
<1>2. CASE \/ Stat \/ Open \/ Fstat \/ IsZipped \/ Search \/ SearchPipe
           \/ Cleanup
  BY <1>2
  DEF Stat, Open, Fstat, AfterFstat, IsZipped, Search, SearchPipe, Close,
      Cleanup, Goto, LoadTypes, InputOK, vars, zvars, input, loading, growing,
      elsewhere, decoder, window, call
<1>3. CASE ReadMore
  BY <1>3
  DEF ReadMore, Read, Into, Smaller, Goto, LoadTypes, InputOK, vars, zvars,
      input, loading, growing, elsewhere, decoder, window, call
<1>4. CASE Loaded
  BY <1>4
  DEF Loaded, Goto, LoadTypes, InputOK, vars, zvars, input, loading, growing,
      elsewhere, decoder, window, call
<1>5. CASE \/ OpenStream \/ SearchLines \/ CloseStream
           \/ (ReadStream /\ (ReadCall \/ Drain \/ TruncatedFile
                              \/ InputLeft \/ Inflate \/ InflateFails))
  BY <1>5
  DEF OpenStream, DecompressOpen, Close, ReadStream, ReadCall, Drain,
      DrainedTo, Smaller, TruncatedFile, InputLeft, Inflate, Decodes, ResultOf,
      AtTrailer, InflateFails, MeetsDamage, SearchLines, CloseStream, ZClose,
      Goto, LoadTypes, InputOK, vars, zvars, input, loading, growing,
      elsewhere, decoder, window, call
<1>6. CASE \/ Decompress \/ Grow \/ InflateAll \/ InflateAllFails
           \/ SearchDecompressed
  BY <1>6
  DEF Decompress, Grow, Room, InflateAll, Decodes, ResultOf, AtTrailer,
      AfterInflate, InflateAllFails, MeetsDamage, SearchDecompressed, Goto,
      LoadTypes, InputOK, vars, zvars, input, loading, growing, elsewhere,
      decoder, window, call
<1>7. CASE ReplacePath
  BY <1>7
  DEF ReplacePath, Goto, LoadTypes, InputOK, vars, zvars, input, loading,
      growing, elsewhere, decoder, window, call
<1>8. CASE ChangeFile
  BY <1>8
  DEF ChangeFile, Goto, LoadTypes, InputOK, vars, zvars, input, loading,
      growing, elsewhere, decoder, window, call
<1>9. CASE OtherOpens
  BY <1>9
  DEF OtherOpens, Others, Goto, LoadTypes, InputOK, vars, zvars, input,
      loading, growing, elsewhere, decoder, window, call
<1>10. CASE \/ OtherCloses \/ OtherClosesAgain \/ UNCHANGED vars
  BY <1>10
  DEF OtherCloses, Others, Close, Robbed, OtherClosesAgain, Goto, LoadTypes,
      InputOK, vars, zvars, input, loading, growing, elsewhere, decoder,
      window, call
<1>11. CASE ReadFirst
  BY <1>11, FirstReadPlaces
  DEF LoadTypes, ReadFirst, vars, elsewhere, input
<1>12. CASE ReadStream /\ FillInput
  <2>1. position' \in Nat
    BY <1>12, <1>1, ZFileAssumption DEF FillInput, Smaller, LoadTypes
  <2> QED
    BY <1>12, <2>1 DEF LoadTypes, ReadStream, elsewhere, input, loading, growing
<1> QED
  BY <1>2, <1>3, <1>4, <1>5, <1>6, <1>7, <1>8, <1>9, <1>10, <1>11, <1>12
  DEF Next, SearchFile, ReadStream, ZRead

\* What has been read stays in its place.
LEMMA LoadStep ==
  ASSUME InputOK, PathTypes, LoadTypes, DescriptorInv, LoadInv, [Next]_vars
  PROVE  LoadInv'
<1>1. CASE \/ Stat \/ Open \/ Fstat \/ IsZipped \/ Search \/ SearchPipe
           \/ Cleanup
  BY <1>1
  DEF Stat, Open, Fstat, IsZipped, Search, SearchPipe, Close, Cleanup, Goto,
      LoadTypes, LoadInv, InputOK, Settings, AfterFstat, AfterInflate,
      DescriptorInv, Unread, Loading, Whole, Inflating, Over, vars, zvars,
      input, loading, growing, elsewhere, decoder, window, call
<1>2. CASE ReadMore
  BY <1>2
  DEF ReadMore, Read, Into, Smaller, Goto, LoadTypes, LoadInv, InputOK,
      Settings, AfterFstat, AfterInflate, DescriptorInv, Unread, Loading,
      Whole, Inflating, Over, vars, zvars, input, loading, growing, elsewhere,
      decoder, window, call
<1>3. CASE Loaded
  BY <1>3
  DEF Loaded, Goto, LoadTypes, LoadInv, InputOK, Settings, AfterFstat,
      AfterInflate, DescriptorInv, Unread, Loading, Whole, Inflating, Over,
      vars, zvars, input, loading, growing, elsewhere, decoder, window, call
<1>4. CASE \/ OpenStream \/ SearchLines \/ CloseStream
           \/ (ReadStream /\ (ReadCall \/ Drain \/ FillInput
                              \/ TruncatedFile \/ InputLeft \/ Inflate
                              \/ InflateFails))
  BY <1>4
  DEF OpenStream, DecompressOpen, Close, ReadStream, ReadCall, Drain,
      DrainedTo, Smaller, FillInput, TruncatedFile, InputLeft, Inflate,
      Decodes, ResultOf, AtTrailer, InflateFails, MeetsDamage, SearchLines,
      CloseStream, ZClose, Goto, LoadTypes, LoadInv, InputOK, Settings,
      AfterFstat, AfterInflate, DescriptorInv, Unread, Loading, Whole,
      Inflating, Over, vars, zvars, input, loading, growing, elsewhere,
      decoder, window, call
<1>5. CASE \/ Decompress \/ Grow \/ InflateAll \/ InflateAllFails
           \/ SearchDecompressed
  BY <1>5
  DEF Decompress, Grow, Room, InflateAll, Decodes, ResultOf, AtTrailer,
      InflateAllFails, MeetsDamage, SearchDecompressed, Goto, LoadTypes,
      LoadInv, InputOK, Settings, AfterFstat, AfterInflate, DescriptorInv,
      Unread, Loading, Whole, Inflating, Over, vars, zvars, input, loading,
      growing, elsewhere, decoder, window, call
<1>6. CASE \/ ReplacePath \/ ChangeFile \/ OtherOpens \/ OtherCloses
           \/ OtherClosesAgain \/ UNCHANGED vars
  BY <1>6
  DEF ReplacePath, ChangeFile, OtherOpens, Others, OtherCloses, Close, Robbed,
      OtherClosesAgain, Goto, LoadTypes, LoadInv, InputOK, Settings,
      AfterFstat, AfterInflate, DescriptorInv, Unread, Loading, Whole,
      Inflating, Over, vars, zvars, input, loading, growing, elsewhere,
      decoder, window, call
<1>7. CASE ReadFirst
  <2>1. PICK n \in Nat :
          /\ n > 0 => position + n <= disk_size
          /\ bytes_read' = bytes_read + n /\ position' = position + n
          /\ overrun' => overrun \/ bytes_read + n > f_len
          /\ buf' \in [1..f_len -> Nat]
          /\ \A k \in 1..f_len : k <= bytes_read + n => buf'[k] = k
    BY <1>7, FirstReadPlaces
  <2>2. pc = "first_read" /\ pc' \in {"read", "cleanup"}
    BY <1>7 DEF ReadFirst, Goto
  <2>3. UNCHANGED <<opts, file, format, kind_opened, disk_size, changed, f_len>>
    BY <1>7 DEF ReadFirst, input
  <2> QED  BY <2>1, <2>2, <2>3
           DEF LoadTypes, LoadInv, Unread, Loading, Whole, Inflating
<1> QED
  BY <1>1, <1>2, <1>3, <1>4, <1>5, <1>6, <1>7
  DEF Next, SearchFile, ReadStream, ZRead

\* Input is read as far as the file and the buffer go.
LEMMA FillsInput ==
  ASSUME InputOK, LoadTypes, FillInput
  PROVE  \E n \in Nat :
           /\ avail_in = 0 /\ avail_in' = n /\ position' = position + n
           /\ position + n <= FileLength(file)
<1>1. FileLength(file) \in Nat  BY UnitsAdd DEF InputOK
<1> DEFINE n == Smaller(InSize, FileLength(file) - position)
<1>2. n \in Nat /\ position + n <= FileLength(file)
  BY <1>1, ZFileAssumption DEF FillInput, Smaller, LoadTypes
<1> QED  BY <1>2 DEF FillInput

\* What a call of the decoder does: it comes closer to the end of the content,
\* and ends there, or has used up its room or its input.
LEMMA Decoded ==
  ASSUME InputOK, DecoderTypes, DecoderInv,
         NEW t \in 0..avail_in, NEW space \in Nat, NEW m \in 0..space,
         Decodes(t, m, space)
  PROVE  /\ taken + t \in Nat /\ made + m \in Nat /\ avail_in - t \in Nat
         /\ made + m <= BytesOf(file, taken + t)
         /\ taken + t <= Units(file) + 1
         /\ taken + t > Units(file) =>
              made + m = TotalBytes(file) /\ file.ending # "damaged"
         /\ ResultOf(t) = IF taken + t > Units(file) THEN "end" ELSE "ok"
         /\ (taken + t) + (avail_in - t) = taken + avail_in
         /\ \/ m = space \/ taken + t > Units(file)
            \/ t = avail_in /\ made + m = BytesOf(file, taken + t)
<1>1. Units(file) \in Nat  BY UnitsAdd DEF InputOK
<1> QED  BY <1>1 DEF DecoderTypes, Decodes, AtTrailer, ResultOf

\* The decoder stays well typed.
LEMMA DecoderTypesStep ==
  ASSUME InputOK, LoadTypes, DecoderTypes, DecoderInv, [Next]_vars
  PROVE  DecoderTypes'
<1>1. CASE \/ Stat \/ Open \/ Fstat \/ IsZipped \/ Search \/ SearchPipe
           \/ Cleanup
  BY <1>1
  DEF Stat, Open, Fstat, AfterFstat, IsZipped, Search, SearchPipe, Close,
      Cleanup, Goto, DecoderTypes, vars, zvars, input, loading, growing,
      elsewhere, decoder, window, call
<1>2. CASE \/ ReadFirst \/ ReadMore \/ Loaded
  BY <1>2
  DEF ReadFirst, Read, Into, Verdicts, Smaller, ReadMore, Loaded, Goto,
      DecoderTypes, vars, zvars, input, loading, growing, elsewhere, decoder,
      window, call
<1>3. CASE \/ OpenStream \/ (ReadStream /\ ReadCall)
  BY <1>3
  DEF OpenStream, DecompressOpen, Close, ReadStream, ReadCall, Goto,
      DecoderTypes, vars, zvars, input, loading, growing, elsewhere, decoder,
      window, call
<1>4. CASE ReadStream /\ Drain
  BY <1>4
  DEF ReadStream, Drain, DrainedTo, Smaller, Goto, DecoderTypes, vars, zvars,
      input, loading, growing, elsewhere, decoder, window, call
<1>5. CASE ReadStream /\ TruncatedFile
  BY <1>5
  DEF ReadStream, TruncatedFile, Goto, DecoderTypes, vars, zvars, input,
      loading, growing, elsewhere, decoder, window, call
<1>6. CASE \/ SearchLines \/ CloseStream
           \/ (ReadStream /\ (InputLeft \/ InflateFails))
  BY <1>6
  DEF ReadStream, InputLeft, InflateFails, MeetsDamage, SearchLines,
      CloseStream, ZClose, Close, Goto, DecoderTypes, vars, zvars, input,
      loading, growing, elsewhere, decoder, window, call
<1>7. CASE Decompress
  BY <1>7
  DEF Decompress, Goto, DecoderTypes, LoadTypes, vars, zvars, input, loading,
      growing, elsewhere, decoder, window, call
<1>8. CASE Grow
  BY <1>8
  DEF Grow, Room, Goto, DecoderTypes, vars, zvars, input, loading, growing,
      elsewhere, decoder, window, call
<1>9. CASE \/ InflateAllFails \/ SearchDecompressed
  BY <1>9
  DEF InflateAllFails, MeetsDamage, SearchDecompressed, Goto, DecoderTypes,
      vars, zvars, input, loading, growing, elsewhere, decoder, window, call
<1>10. CASE \/ ReplacePath \/ ChangeFile \/ OtherOpens \/ OtherCloses
            \/ OtherClosesAgain \/ UNCHANGED vars
  BY <1>10
  DEF ReplacePath, ChangeFile, OtherOpens, Others, OtherCloses, Close, Robbed,
      OtherClosesAgain, Goto, DecoderTypes, vars, zvars, input, loading,
      growing, elsewhere, decoder, window, call
<1>11. CASE ReadStream /\ FillInput
  <2>1. avail_in' \in Nat  BY <1>11, FillsInput
  <2> QED
    BY <1>11, <2>1 DEF DecoderTypes, ReadStream, FillInput, growing
<1>12. CASE ReadStream /\ Inflate
  <2>1. PICK t \in 0..avail_in, m \in 0..OutSize :
          /\ Decodes(t, m, OutSize)
          /\ taken' = taken + t /\ made' = made + m /\ avail_in' = avail_in - t
          /\ ret' = ResultOf(t)
    BY <1>12 DEF Inflate
  <2>2. UNCHANGED growing  BY <1>12 DEF ReadStream
  <2> QED  BY <2>1, <2>2, Decoded, ZFileAssumption DEF DecoderTypes, growing
<1>13. CASE InflateAll
  <2>1. PICK t \in 0..avail_in, m \in 0..avail_out :
          /\ Decodes(t, m, avail_out)
          /\ taken' = taken + t /\ made' = made + m /\ avail_in' = avail_in - t
          /\ ret' = ResultOf(t)
    BY <1>13 DEF InflateAll
  <2>2. UNCHANGED growing  BY <1>13 DEF InflateAll
  <2> QED  BY <2>1, <2>2, Decoded DEF DecoderTypes, growing
<1> QED
  BY <1>1, <1>2, <1>3, <1>4, <1>5, <1>6, <1>7, <1>8, <1>9, <1>10, <1>11, <1>12,
     <1>13
  DEF Next, SearchFile, ReadStream, ZRead

\* The decoder never runs past the content, nor past its room.
LEMMA DecoderStep ==
  ASSUME InputOK, LoadTypes, LoadInv, DecoderTypes, DecoderInv, StreamInv,
         [Next]_vars
  PROVE  DecoderInv'
<1>1. /\ Units(file) \in Nat /\ TotalBytes(file) \in Nat
      /\ FileLength(file) \in Nat /\ FileLength(file) >= Units(file)
      /\ file.ending \in Endings
      /\ file.ending = "cut" <=> FileLength(file) = Units(file)
      /\ \A n \in Nat : BytesOf(file, n) \in Nat
                        /\ BytesOf(file, n) <= TotalBytes(file)
      /\ \A m, n \in Nat : m <= n => BytesOf(file, m) <= BytesOf(file, n)
      /\ \A n \in Nat : n >= Units(file) => BytesOf(file, n) = TotalBytes(file)
  BY UnitsAdd DEF InputOK
<1>2. CASE \/ Stat \/ Open \/ Fstat \/ IsZipped \/ Search \/ SearchPipe
           \/ Cleanup
  BY <1>2, <1>1, ZenonT(60)
  DEF Stat, Open, Fstat, IsZipped, Search, SearchPipe, Close, Cleanup, Goto,
      DecoderTypes, DecoderInv, InputOK, AfterFstat, AsArchive, Unread,
      Loading, Whole, Inflating, Over, vars, zvars, input, loading, growing,
      elsewhere, decoder, window, call
<1>3. CASE \/ ReadFirst \/ ReadMore \/ Loaded
  BY <1>3, <1>1
  DEF ReadFirst, Read, Into, Verdicts, Smaller, ReadMore, Loaded, Goto,
      DecoderTypes, DecoderInv, InputOK, AfterFstat, AsArchive, Unread,
      Loading, Whole, Inflating, Over, vars, zvars, input, loading, growing,
      elsewhere, decoder, window, call
<1>4. CASE \/ OpenStream \/ (ReadStream /\ (ReadCall \/ Drain \/ TruncatedFile))
  BY <1>4, <1>1
  DEF OpenStream, DecompressOpen, Close, ReadStream, ReadCall, Drain,
      DrainedTo, Smaller, TruncatedFile, Goto, DecoderTypes, DecoderInv,
      InputOK, AfterFstat, AsArchive, Unread, Loading, Whole, Inflating, Over,
      vars, zvars, input, loading, growing, elsewhere, decoder, window, call
<1>5. CASE ReadStream /\ InputLeft
  BY <1>5, <1>1
  DEF ReadStream, InputLeft, Goto, DecoderTypes, DecoderInv, InputOK,
      AfterFstat, AsArchive, Unread, Loading, Whole, Inflating, Over, vars,
      zvars, input, loading, growing, elsewhere, decoder, window, call
<1>6. CASE \/ SearchLines \/ CloseStream \/ (ReadStream /\ InflateFails)
  BY <1>6, <1>1
  DEF ReadStream, InflateFails, MeetsDamage, SearchLines, CloseStream, ZClose,
      Close, Goto, DecoderTypes, DecoderInv, InputOK, AfterFstat, AsArchive,
      Unread, Loading, Whole, Inflating, Over, vars, zvars, input, loading,
      growing, elsewhere, decoder, window, call
<1>7. CASE Grow
  BY <1>7, <1>1
  DEF Grow, Room, Goto, DecoderTypes, DecoderInv, InputOK, AfterFstat,
      AsArchive, Unread, Loading, Whole, Inflating, Over, vars, zvars, input,
      loading, growing, elsewhere, decoder, window, call
<1>8. CASE \/ InflateAllFails \/ SearchDecompressed
  BY <1>8, <1>1
  DEF InflateAllFails, MeetsDamage, SearchDecompressed, Goto, DecoderTypes,
      DecoderInv, InputOK, AfterFstat, AsArchive, Unread, Loading, Whole,
      Inflating, Over, vars, zvars, input, loading, growing, elsewhere,
      decoder, window, call
<1>9. CASE \/ ReplacePath \/ ChangeFile \/ OtherOpens \/ OtherCloses
           \/ OtherClosesAgain \/ UNCHANGED vars
  BY <1>9, <1>1
  DEF ReplacePath, ChangeFile, OtherOpens, Others, OtherCloses, Close, Robbed,
      OtherClosesAgain, Goto, DecoderTypes, DecoderInv, InputOK, AfterFstat,
      AsArchive, Unread, Loading, Whole, Inflating, Over, vars, zvars, input,
      loading, growing, elsewhere, decoder, window, call
<1>10. CASE ReadStream /\ FillInput
  <2>1. PICK n \in Nat :
          /\ avail_in = 0 /\ avail_in' = n /\ position' = position + n
          /\ position + n <= FileLength(file)
    BY <1>10, FillsInput
  <2>2. /\ pc = "stream" /\ pc' \in {"stream", "died"}
        /\ UNCHANGED <<taken, made, ret, file, opts, format, f_len>>
    BY <1>10 DEF ReadStream, FillInput, Goto, input, loading
  <2>3. taken <= position  BY <2>1, <2>2 DEF StreamInv, DecoderTypes
  <2>4. taken + avail_in' <= FileLength(file)
    BY <1>1, <2>1, <2>3 DEF DecoderTypes, LoadTypes
  <2> QED  BY <2>2, <2>4
           DEF DecoderInv, AsArchive, Unread, Loading, Whole, Inflating
<1>11. CASE ReadStream /\ Inflate
  <2>1. PICK t \in 0..avail_in, m \in 0..OutSize :
          /\ Decodes(t, m, OutSize)
          /\ taken' = taken + t /\ made' = made + m /\ avail_in' = avail_in - t
          /\ ret' = ResultOf(t)
    BY <1>11 DEF Inflate
  <2>2. /\ pc = "stream" /\ pc' \in {"stream", "died"}
        /\ UNCHANGED <<file, opts, format, f_len>>
    BY <1>11 DEF ReadStream, Inflate, Goto, input, loading
  <2>3. OutSize \in Nat  BY ZFileAssumption
  <2> QED  BY <2>1, <2>2, <2>3, Decoded
           DEF DecoderInv, AsArchive, Unread, Loading, Whole, Inflating
<1>12. CASE Decompress
  <2>1. format = "stream" => f_len = FileLength(file)
    BY <1>12 DEF LoadInv, Decompress, Whole, Unread
  <2>2. /\ pc = "decompress" /\ taken = 0 /\ made = 0
        /\ pc' = IF format = "stream" THEN "grow" ELSE "cleanup"
        /\ avail_in' = f_len /\ result_size' = f_len
        /\ UNCHANGED <<taken, made, ret, file, opts, format, f_len>>
    BY <1>12 DEF Decompress, Goto, input, loading, DecoderInv, Whole
  <2> QED  BY <1>1, <2>1, <2>2
           DEF DecoderInv, DecoderTypes, LoadTypes, AsArchive, Unread, Loading,
               Whole, Inflating
<1>13. CASE InflateAll
  <2>1. PICK t \in 0..avail_in, m \in 0..avail_out :
          /\ Decodes(t, m, avail_out)
          /\ taken' = taken + t /\ made' = made + m /\ avail_in' = avail_in - t
          /\ ret' = ResultOf(t) /\ pc' = AfterInflate(t, m)
    BY <1>13 DEF InflateAll, Goto
  <2>2. /\ pc = "inflate_all"
        /\ UNCHANGED <<file, opts, format, f_len, result_size, avail_out>>
    BY <1>13 DEF InflateAll, input, loading, growing
  <2>3. avail_out \in Nat  BY DEF DecoderTypes
  <2>4. /\ taken' \in Nat /\ made' \in Nat /\ avail_in' \in Nat
        /\ made' <= BytesOf(file, taken') /\ taken' <= Units(file) + 1
        /\ taken' > Units(file) =>
             made' = TotalBytes(file) /\ file.ending # "damaged"
        /\ ret' = IF taken' > Units(file) THEN "end" ELSE "ok"
        /\ taken' + avail_in' = taken + avail_in
    BY <2>1, <2>3, Decoded
  <2>5. pc' \in {"grow", "decompressed", "cleanup"}
    BY <2>1 DEF AfterInflate
  <2>6. pc' = "decompressed" => taken' > Units(file)
    BY <2>1, <2>4 DEF AfterInflate
  <2>7. made' <= result_size
    BY <2>1, <2>2, <2>3 DEF DecoderInv, DecoderTypes
  <2> QED  BY <1>1, <2>2, <2>4, <2>5, <2>6, <2>7
           DEF DecoderInv, DecoderTypes, AsArchive, Unread, Loading, Whole,
               Inflating
<1> QED
  BY <1>2, <1>3, <1>4, <1>5, <1>6, <1>7, <1>8, <1>9, <1>10, <1>11, <1>12, <1>13
  DEF Next, SearchFile, ReadStream, ZRead

\* zfile_read copies what the output buffer holds, as far as it is asked for.
LEMMA Drained ==
  ASSUME StreamTypes, Drain
  PROVE  /\ total' \in Seq(Nat)
         /\ \E n \in Nat :
              /\ n <= size /\ n <= next_out - outbuf_start
              /\ n = size \/ n = next_out - outbuf_start
              /\ total' = total \o [k \in 1..n |-> outbuf[outbuf_start + k - 1]]
              /\ Len(total') = Len(total) + n
              /\ \A i \in 1..Len(total') :
                   total'[i] = IF i <= Len(total) THEN total[i]
                               ELSE outbuf[outbuf_start + (i - Len(total)) - 1]
              /\ size' = size - n /\ outbuf_start' = outbuf_start + n
              /\ logic_offset' = logic_offset + n
              /\ decode_offset' = decode_offset + n
              /\ eof' \in BOOLEAN /\ zstate' \in {"idle", "input"}
              /\ eof' = (size' > 0 /\ ret = "end")
              /\ zstate' = IF size' = 0 \/ ret = "end" THEN "idle" ELSE "input"
              /\ UNCHANGED <<outbuf, next_out>>
<1> DEFINE n == Smaller(next_out - outbuf_start, size)
           s == [k \in 1..n |-> outbuf[outbuf_start + k - 1]]
<1>1. /\ n \in Nat /\ n <= size /\ n <= next_out - outbuf_start
      /\ n = size \/ n = next_out - outbuf_start
  BY ZFileAssumption DEF Smaller, StreamTypes
<1>2. /\ total' = total \o s /\ size' = size - n
      /\ outbuf_start' = outbuf_start + n
      /\ logic_offset' = logic_offset + n /\ decode_offset' = decode_offset + n
      /\ eof' = (size' > 0 /\ ret = "end")
      /\ zstate' = IF size' = 0 \/ ret = "end" THEN "idle" ELSE "input"
      /\ UNCHANGED <<outbuf, next_out>>
  BY DEF Drain, DrainedTo
<1> HIDE DEF n
<1>3. \A k \in 1..n : outbuf_start + k - 1 \in 0..(OutSize - 1)
  BY <1>1, ZFileAssumption DEF StreamTypes
<1>4. s \in [1..n -> Nat]  BY <1>3 DEF StreamTypes
<1>5. s \in Seq(Nat) /\ Len(s) = n  BY <1>1, <1>4, SequenceOf
<1>6. \A k \in 1..n : s[k] = outbuf[outbuf_start + k - 1]  OBVIOUS
<1> HIDE DEF s
<1>7. total \in Seq(Nat) /\ Len(total) \in Nat
  BY LenProperties DEF StreamTypes
<1>8. /\ total' \in Seq(Nat) /\ Len(total') = Len(total) + n
      /\ \A i \in 1..Len(total) + n :
           total'[i] = IF i <= Len(total) THEN total[i] ELSE s[i - Len(total)]
  BY <1>2, <1>5, <1>7, ConcatProperties
<1>9. \A i \in 1..Len(total') :
        total'[i] = IF i <= Len(total) THEN total[i]
                    ELSE outbuf[outbuf_start + (i - Len(total)) - 1]
  <2> SUFFICES ASSUME NEW i \in 1..Len(total'), i > Len(total)
               PROVE  total'[i] = outbuf[outbuf_start + (i - Len(total)) - 1]
    BY <1>1, <1>7, <1>8
  <2>1. total'[i] = s[i - Len(total)]  BY <1>1, <1>7, <1>8
  <2>2. i - Len(total) \in 1..n  BY <1>1, <1>7, <1>8
  <2> QED  BY <1>6, <2>1, <2>2
<1> QED  BY <1>1, <1>2, <1>8, <1>9 DEF s

\* The stream stays well typed.
LEMMA StreamTypesStep ==
  ASSUME InputOK, DecoderTypes, StreamTypes, [Next]_vars
  PROVE  StreamTypes'
<1>1. CASE \/ Stat \/ Open \/ Fstat \/ IsZipped \/ Search \/ SearchPipe
           \/ Cleanup
  BY <1>1
  DEF Stat, Open, Fstat, AfterFstat, IsZipped, Search, SearchPipe, Close,
      Cleanup, Goto, StreamTypes, vars, zvars, input, loading, growing,
      elsewhere, decoder, window, call
<1>2. CASE \/ ReadFirst \/ ReadMore \/ Loaded
  BY <1>2
  DEF ReadFirst, Read, Into, Verdicts, Smaller, ReadMore, Loaded, Goto,
      StreamTypes, vars, zvars, input, loading, growing, elsewhere, decoder,
      window, call
<1>3. CASE ReadStream /\ ReadCall
  BY <1>3, ZFileAssumption
  DEF ReadStream, ReadCall, Goto, StreamTypes, vars, zvars, input, loading,
      growing, elsewhere, decoder, window, call
<1>4. CASE ReadStream /\ (FillInput \/ TruncatedFile)
  BY <1>4
  DEF ReadStream, FillInput, Smaller, TruncatedFile, Goto, StreamTypes, vars,
      zvars, input, loading, growing, elsewhere, decoder, window, call
<1>5. CASE ReadStream /\ InputLeft
  BY <1>5
  DEF ReadStream, InputLeft, Goto, StreamTypes, vars, zvars, input, loading,
      growing, elsewhere, decoder, window, call
<1>6. CASE ReadStream /\ InflateFails
  BY <1>6, ZFileAssumption
  DEF ReadStream, InflateFails, MeetsDamage, Goto, StreamTypes, vars, zvars,
      input, loading, growing, elsewhere, decoder, window, call
<1>7. CASE CloseStream
  BY <1>7
  DEF CloseStream, ZClose, Close, Goto, StreamTypes, vars, zvars, input,
      loading, growing, elsewhere, decoder, window, call
<1>8. CASE \/ Decompress \/ Grow \/ InflateAll \/ InflateAllFails
           \/ SearchDecompressed
  BY <1>8
  DEF Decompress, Grow, Room, InflateAll, Decodes, ResultOf, AtTrailer,
      AfterInflate, InflateAllFails, MeetsDamage, SearchDecompressed, Goto,
      StreamTypes, vars, zvars, input, loading, growing, elsewhere, decoder,
      window, call
<1>9. CASE \/ ReplacePath \/ ChangeFile \/ OtherOpens \/ OtherCloses
           \/ OtherClosesAgain \/ UNCHANGED vars
  BY <1>9
  DEF ReplacePath, ChangeFile, OtherOpens, Others, OtherCloses, Close, Robbed,
      OtherClosesAgain, Goto, StreamTypes, vars, zvars, input, loading,
      growing, elsewhere, decoder, window, call
<1>10. CASE OpenStream
  <2>1. CASE format = "stream"
    <3>1. /\ zstate' = "idle" /\ next_out' = 0 /\ outbuf_start' = 0
          /\ logic_offset' = 0 /\ decode_offset' = 0 /\ eof' = FALSE
          /\ UNCHANGED <<outbuf, size, total>>
      BY <1>10, <2>1 DEF OpenStream, DecompressOpen, call
    <3> QED  BY <3>1, ZFileAssumption DEF StreamTypes
  <2>2. CASE format # "stream"
    <3>1. UNCHANGED <<zstate, window, eof, call>>
      BY <1>10, <2>2 DEF OpenStream, zvars
    <3> QED  BY <3>1 DEF StreamTypes, window, call
  <2> QED  BY <2>1, <2>2
<1>11. CASE ReadStream /\ Inflate
  <2>1. PICK t \in 0..avail_in, m \in 0..OutSize :
          /\ outbuf' = [k \in 0..(OutSize - 1) |->
                          IF k < m THEN made + k + 1 ELSE outbuf[k]]
          /\ next_out' = m
    BY <1>11 DEF Inflate
  <2>2. outbuf' \in [0..(OutSize - 1) -> Nat]
    BY <2>1 DEF StreamTypes, DecoderTypes
  <2>3. next_out' \in 0..OutSize /\ 0 \in 0..next_out'
    BY <2>1, ZFileAssumption
  <2>4. /\ outbuf_start' = 0 /\ zstate' = "drain"
        /\ UNCHANGED <<logic_offset, decode_offset, eof, size, total>>
    BY <1>11 DEF Inflate, call
  <2> QED  BY <2>2, <2>3, <2>4 DEF StreamTypes
<1>12. CASE ReadStream /\ Drain
  <2>1. PICK n \in Nat :
          /\ n <= size /\ n <= next_out - outbuf_start
          /\ total' = total \o [k \in 1..n |-> outbuf[outbuf_start + k - 1]]
          /\ size' = size - n /\ outbuf_start' = outbuf_start + n
          /\ logic_offset' = logic_offset + n
          /\ decode_offset' = decode_offset + n
          /\ eof' \in BOOLEAN /\ zstate' \in {"idle", "input"}
          /\ UNCHANGED <<outbuf, next_out>>
    BY <1>12, Drained
  <2>2. total' \in Seq(Nat)  BY <1>12, Drained
  <2> QED  BY <2>1, <2>2, ZFileAssumption DEF StreamTypes
<1>13. CASE SearchLines
  <2>1. total' = <<>> /\ total' \in Seq(Nat)  BY <1>13 DEF SearchLines
  <2> QED  BY <1>13, <2>1 DEF SearchLines, StreamTypes, window
<1> QED
  BY <1>1, <1>2, <1>3, <1>4, <1>5, <1>6, <1>7, <1>8, <1>9, <1>10, <1>11, <1>12,
     <1>13
  DEF Next, SearchFile, ReadStream, ZRead

\* A step that leaves the stream alone, whatever its thread does elsewhere.
LEMMA StreamRests ==
  ASSUME StreamInv, pc \notin {"stream", "died"}, pc' # "stream",
         UNCHANGED <<file, zstate, logic_offset, eof, size, total>>,
         pc' \in Unread \cup Loading \cup Whole \cup Inflating =>
           pc \in Unread \cup Loading \cup Whole \cup Inflating,
         ret' = ret \/ pc \in Inflating
  PROVE  StreamInv'
<1>1. zstate' = "closed"  BY DEF StreamInv
<1>2. pc \in Inflating => total = <<>> /\ ~eof  BY DEF StreamInv
<1>3. ret' = "error" => total' = <<>>  BY <1>2 DEF StreamInv
<1>4. eof' => /\ ret' = "end" /\ file'.ending \in {"whole", "more"}
              /\ logic_offset' = TotalBytes(file')
  BY <1>2 DEF StreamInv
<1>5. pc' \in Unread \cup Loading \cup Whole \cup Inflating =>
        total' = <<>> /\ ~eof'
  BY DEF StreamInv
<1> QED  BY <1>1, <1>3, <1>4, <1>5 DEF StreamInv, InRead

\* What another thread does leaves the stream as it is.
LEMMA StreamFrame ==
  ASSUME StreamInv, UNCHANGED <<zvars, pc, opts, format, searched>>
  PROVE  StreamInv'
<1>1. UNCHANGED <<file, position, zstate, avail_in, taken, made, ret, outbuf,
                  next_out, outbuf_start, logic_offset, eof, size, total>>
  BY DEF zvars, decoder, window, call
<1>2. Aligned' = Aligned  BY <1>1 DEF Aligned
<1> QED  BY <1>1, <1>2 DEF StreamInv

\* What the decoder has made reaches the search in order, and the end of the
\* stream is the end of the content.
LEMMA StreamStep ==
  ASSUME InputOK, LoadTypes, LoadInv, DecoderTypes, DecoderInv, StreamTypes,
         StreamInv, OutcomeInv, searched \in Seq(Nat), [Next]_vars
  PROVE  StreamInv'
<1>1. /\ Units(file) \in Nat /\ TotalBytes(file) \in Nat
      /\ FileLength(file) \in Nat /\ FileLength(file) >= Units(file)
      /\ file.ending \in Endings
      /\ file.ending = "cut" <=> FileLength(file) = Units(file)
      /\ \A n \in Nat : BytesOf(file, n) \in Nat
                        /\ BytesOf(file, n) <= TotalBytes(file)
      /\ \A m, n \in Nat : m <= n => BytesOf(file, m) <= BytesOf(file, n)
      /\ \A n \in Nat : n >= Units(file) => BytesOf(file, n) = TotalBytes(file)
  BY UnitsAdd DEF InputOK
<1>2. Len(searched) \in Nat /\ Len(total) \in Nat
  BY LenProperties DEF StreamTypes
<1>3. CASE \/ Stat \/ Open \/ Fstat \/ IsZipped \/ Search \/ SearchPipe
           \/ Cleanup
  BY <1>3, StreamRests
  DEF Stat, Open, Fstat, IsZipped, Search, SearchPipe, Close, Cleanup, Goto,
      Unread, Loading, Whole, Inflating, Over, AfterFstat, AfterInflate, vars,
      zvars, input, loading, growing, elsewhere, decoder, window, call
<1>4. CASE \/ ReadFirst \/ ReadMore \/ Loaded
  BY <1>4, StreamRests
  DEF ReadFirst, Read, Into, Verdicts, Smaller, ReadMore, Loaded, Goto, Unread,
      Loading, Whole, Inflating, Over, AfterFstat, AfterInflate, vars, zvars,
      input, loading, growing, elsewhere, decoder, window, call
<1>5. CASE \/ Decompress \/ Grow \/ InflateAll \/ InflateAllFails
           \/ SearchDecompressed
  BY <1>5, StreamRests
  DEF Decompress, Grow, Room, InflateAll, Decodes, ResultOf, AtTrailer,
      InflateAllFails, MeetsDamage, SearchDecompressed, Goto, Unread, Loading,
      Whole, Inflating, Over, AfterFstat, AfterInflate, vars, zvars, input,
      loading, growing, elsewhere, decoder, window, call
<1>6. CASE \/ ReplacePath \/ ChangeFile \/ OtherOpens \/ OtherCloses
           \/ OtherClosesAgain \/ UNCHANGED vars
  BY <1>6, StreamFrame
  DEF ReplacePath, ChangeFile, OtherOpens, Others, OtherCloses, Close, Robbed,
      OtherClosesAgain, Goto, Unread, Loading, Whole, Inflating, Over,
      AfterFstat, AfterInflate, vars, zvars, input, loading, growing,
      elsewhere, decoder, window, call
<1>7. CASE OpenStream
  <2>1. CASE format = "stream"
    <3>1. /\ pc = "zopen" /\ pc' = "stream" /\ zstate' = "idle"
          /\ avail_in' = 0 /\ taken' = 0 /\ made' = 0 /\ ret' = "ok"
          /\ next_out' = 0 /\ outbuf_start' = 0
          /\ logic_offset' = 0 /\ eof' = FALSE
          /\ UNCHANGED <<file, position, size, total, opts, format, searched>>
      BY <1>7, <2>1 DEF OpenStream, DecompressOpen, Goto, call, input
    <3>2. /\ total = <<>> /\ Len(total) = 0
          /\ searched = <<>> /\ Len(searched) = 0
      BY <3>1 DEF StreamInv, OutcomeInv, Whole
    <3>3. /\ position <= FileLength(file) /\ 0 <= position
          /\ opts.mmap => position = 0
      BY <1>1, <2>1, <3>1
      DEF LoadInv, LoadTypes, Whole, Unread
    <3>4. Aligned'  BY <3>1, <3>2 DEF Aligned
    <3> QED  BY <1>1, <2>1, <3>1, <3>2, <3>3, <3>4
             DEF StreamInv, InRead, Unread, Loading, Whole, Inflating
  <2>2. CASE format # "stream"
    <3>1. pc = "zopen" /\ pc' = "died" /\ UNCHANGED zvars
      BY <1>7, <2>2 DEF OpenStream, Goto
    <3> QED  BY <3>1, StreamRests
             DEF zvars, decoder, window, call, Unread, Loading, Whole, Inflating
  <2> QED  BY <2>1, <2>2
<1>8. CASE ReadStream /\ ReadCall
  <2>1. /\ pc = "stream" /\ format = "stream"
        /\ UNCHANGED <<file, opts, format, searched>>
    BY <1>8 DEF ReadStream, ReadCall, input, StreamInv
  <2>2. /\ zstate = "idle" /\ ~eof /\ zstate' = "drain" /\ pc' = "stream"
        /\ size' = ReadSize /\ total' = <<>> /\ ret' = "ok" /\ total = <<>>
        /\ ret # "error"
        /\ UNCHANGED <<position, avail_in, taken, made, outbuf, next_out,
                       outbuf_start, logic_offset, eof>>
    BY <1>8 DEF ReadStream, ReadCall, Goto, window
  <2>3. Aligned  BY <2>1, <2>2 DEF StreamInv
  <2>4. Aligned'  BY <2>1, <2>2, <2>3 DEF Aligned
  <2>5. Len(total') + size' = ReadSize  BY <2>2, ZFileAssumption
  <2>6. taken' > Units(file') => TotalBytes(file') >= ReadSize
    BY <2>1, <2>2 DEF StreamInv
  <2> QED  BY <1>1, <2>1, <2>2, <2>4, <2>5, <2>6
           DEF StreamInv, InRead, Unread, Loading, Whole, Inflating
<1>9. CASE ReadStream /\ Drain
  <2>1. /\ pc = "stream" /\ format = "stream"
        /\ UNCHANGED <<file, opts, format, searched>>
    BY <1>9 DEF ReadStream, Drain, input, StreamInv
  <2>2. /\ zstate = "drain" /\ pc' = "stream"
        /\ UNCHANGED <<position, avail_in, taken, made, ret>>
    BY <1>9 DEF ReadStream, Drain, Goto, decoder
  <2>3. PICK n \in Nat :
          /\ n <= size /\ n <= next_out - outbuf_start
          /\ n = size \/ n = next_out - outbuf_start
          /\ Len(total') = Len(total) + n
          /\ \A i \in 1..Len(total') :
               total'[i] = IF i <= Len(total) THEN total[i]
                           ELSE outbuf[outbuf_start + (i - Len(total)) - 1]
          /\ size' = size - n /\ outbuf_start' = outbuf_start + n
          /\ logic_offset' = logic_offset + n
          /\ eof' = (size' > 0 /\ ret = "end")
          /\ zstate' = IF size' = 0 \/ ret = "end" THEN "idle" ELSE "input"
          /\ UNCHANGED <<outbuf, next_out>>
    BY <1>9, Drained
  <2>4. /\ ret \in {"ok", "end"} /\ ~eof /\ Len(total) + size = ReadSize
        /\ Aligned
    BY <2>1, <2>2 DEF StreamInv, InRead, DecoderTypes
  <2>5. /\ Len(total) \in Nat /\ Len(searched) \in Nat /\ size \in Nat
        /\ next_out \in Nat /\ outbuf_start \in Nat /\ outbuf_start <= next_out
        /\ logic_offset \in Nat /\ made \in Nat /\ taken \in Nat
        /\ avail_in \in Nat /\ position \in Nat
        /\ Units(file) \in Nat /\ TotalBytes(file) \in Nat
        /\ FileLength(file) \in Nat
    BY <1>1, <1>2, ZFileAssumption DEF StreamTypes, DecoderTypes, LoadTypes
  <2>6. /\ logic_offset + (next_out - outbuf_start) = made
        /\ Len(searched) + Len(total) = logic_offset
        /\ \A k \in 0..(next_out - 1) : outbuf[k] = made - next_out + k + 1
        /\ \A i \in 1..Len(total) : total[i] = Len(searched) + i
    BY <2>4 DEF Aligned
  <2>7. /\ n \in Nat /\ n <= size /\ n <= next_out - outbuf_start
        /\ n = size \/ n = next_out - outbuf_start
        /\ Len(total') = Len(total) + n
        /\ size' = size - n /\ outbuf_start' = outbuf_start + n
        /\ logic_offset' = logic_offset + n
    BY <2>3
  <2>8. /\ logic_offset + (next_out - outbuf_start) = made
        /\ Len(searched) + Len(total) = logic_offset
        /\ Len(total) + size = ReadSize
    BY <2>4 DEF Aligned
  <2>9. /\ searched' = searched /\ Len(searched') = Len(searched)
        /\ TotalBytes(file') = TotalBytes(file)
        /\ Len(total') \in Nat /\ size' \in Nat
    BY <2>1, <2>5, <2>7
  <2>10. Aligned'
    <3>1. logic_offset' + (next_out' - outbuf_start') = made'
      BY <2>2, <2>3, <2>5, <2>6
    <3>2. Len(searched') + Len(total') = logic_offset'
      BY <2>5, <2>7, <2>8, <2>9
    <3>3. \A k \in 0..(next_out' - 1) : outbuf'[k] = made' - next_out' + k + 1
      BY <2>2, <2>3, <2>6
    <3>4. ASSUME NEW i \in 1..Len(total')
          PROVE  total'[i] = Len(searched') + i
      <4>1. CASE i <= Len(total)
        BY <2>3, <2>5, <2>6, <2>9, <4>1
      <4>2. CASE i > Len(total)
        <5> DEFINE k == outbuf_start + (i - Len(total)) - 1
        <5>1. k \in 0..(next_out - 1)  BY <2>3, <2>5, <4>2
        <5>2. total'[i] = outbuf[k]  BY <2>3, <2>5, <4>2
        <5>3. outbuf[k] = made - next_out + k + 1  BY <2>6, <5>1
        <5>4. made - next_out + k + 1 = Len(searched) + i
          BY <2>5, <2>8, SMTT(60)
        <5> QED  BY <2>9, <5>2, <5>3, <5>4
      <4> QED  BY <2>3, <2>5, <4>1, <4>2
    <3> QED  BY <3>1, <3>2, <3>3, <3>4 DEF Aligned
  <2>11. made <= TotalBytes(file)
    BY <1>1, <2>5 DEF DecoderInv
  <2>12. logic_offset' <= made /\ made <= TotalBytes(file)
    BY <2>5, <2>7, <2>8, <2>11
  <2>13. size' = 0 => TotalBytes(file) >= ReadSize
    BY <2>5, <2>7, <2>8, <2>12, ZFileAssumption
  <2>14. ret = "end" => /\ made = TotalBytes(file) /\ taken > Units(file)
                        /\ file.ending \in {"whole", "more"}
    <3> SUFFICES ASSUME ret = "end"
                 PROVE  /\ made = TotalBytes(file) /\ taken > Units(file)
                        /\ file.ending \in {"whole", "more"}
      OBVIOUS
    <3>1. /\ made = TotalBytes(file) /\ taken > Units(file)
          /\ file.ending # "damaged"
      BY DEF DecoderInv
    <3>2. taken + avail_in <= FileLength(file)
      BY <2>1 DEF DecoderInv
    <3>3. FileLength(file) # Units(file)
      BY <2>5, <3>1, <3>2
    <3> QED  BY <1>1, <3>1, <3>3 DEF Endings
  <2>15. eof' => /\ ret' = "end" /\ file'.ending \in {"whole", "more"}
                 /\ logic_offset' = TotalBytes(file')
    <3> SUFFICES ASSUME eof'
                 PROVE  /\ ret' = "end" /\ file'.ending \in {"whole", "more"}
                        /\ logic_offset' = TotalBytes(file')
      OBVIOUS
    <3>1. size' > 0 /\ ret = "end"  BY <2>3
    <3>2. n = next_out - outbuf_start  BY <2>3, <2>5, <3>1
    <3>3. logic_offset' = made  BY <2>3, <2>5, <2>6, <3>2
    <3> QED  BY <2>1, <2>2, <2>9, <2>14, <3>1, <3>3
  <2>16. zstate' = "input" =>
           /\ ret' = "ok" /\ outbuf_start' = next_out' /\ ~eof'
    <3> SUFFICES ASSUME zstate' = "input"
                 PROVE  ret' = "ok" /\ outbuf_start' = next_out' /\ ~eof'
      OBVIOUS
    <3>1. size' # 0 /\ ret # "end"  BY <2>3
    <3>2. n = next_out - outbuf_start  BY <2>3, <2>5, <3>1
    <3>3. outbuf_start' = next_out'  BY <2>3, <2>5, <3>2
    <3> QED  BY <2>2, <2>3, <2>4, <3>1, <3>3
  <2>17. Len(total') + size' = ReadSize
    BY <2>5, <2>7, <2>8, <2>9, ZFileAssumption, SMTT(60)
  <2>18. zstate' = "idle" /\ ret' = "end" /\ ~eof' =>
           TotalBytes(file') >= ReadSize
    <3> SUFFICES ASSUME zstate' = "idle", ret' = "end", ~eof'
                 PROVE  TotalBytes(file') >= ReadSize
      OBVIOUS
    <3>1. ~(size' > 0)  BY <2>2, <2>3
    <3>2. size' = 0  BY <2>9, <3>1
    <3> QED  BY <2>9, <2>13, <3>2
  <2>19. zstate' \in {"idle", "input"}  BY <2>3
  <2>20. /\ ret' # "error"
         /\ UNCHANGED <<file, opts, format, position, avail_in, taken, ret>>
    BY <2>1, <2>2, <2>4
  <2>21. pc' = "stream" =>
           /\ position' <= FileLength(file') /\ taken' + avail_in' <= position'
           /\ opts'.mmap => taken' + avail_in' = position'
           /\ ret' # "error" => Aligned'
           /\ taken' > Units(file') =>
                ret' = "end" \/ TotalBytes(file') >= ReadSize
    BY <2>1, <2>10, <2>20 DEF StreamInv
  <2>22. /\ pc' \in Unread \cup Loading \cup Whole \cup Inflating =>
             total' = <<>> /\ ~eof'
         /\ pc' \notin {"stream", "died"} => zstate' = "closed"
         /\ pc' = "stream" =>
             /\ zstate' \in {"drain", "input", "inflate"} \cup {"idle"}
             /\ format' = "stream"
    BY <2>1, <2>2, <2>19, <2>20 DEF Unread, Loading, Whole, Inflating
  <2> QED
    BY <2>15, <2>16, <2>17, <2>18, <2>19, <2>20, <2>21, <2>22
    DEF StreamInv, InRead
<1>10. CASE ReadStream /\ FillInput
  <2>1. /\ pc = "stream" /\ format = "stream"
        /\ UNCHANGED <<file, opts, format, searched>>
    BY <1>10 DEF ReadStream, FillInput, input, StreamInv
  <2>2. PICK n \in Nat :
          /\ avail_in = 0 /\ avail_in' = n /\ position' = position + n
          /\ position + n <= FileLength(file)
    BY <1>10, FillsInput
  <2>3. /\ zstate = "input" /\ zstate' = "inflate" /\ pc' = "stream"
        /\ UNCHANGED <<taken, made, ret, outbuf, next_out, outbuf_start,
                       logic_offset, eof, size, total>>
    BY <1>10 DEF ReadStream, FillInput, Goto, window, call
  <2>4. Aligned /\ Aligned'
    BY <2>1, <2>3 DEF StreamInv, InRead, Aligned
  <2>5. /\ taken + avail_in' <= position'
        /\ opts.mmap => taken + avail_in' = position'
    BY <2>1, <2>2 DEF StreamInv, DecoderTypes, LoadTypes
  <2> QED  BY <2>1, <2>2, <2>3, <2>4, <2>5
           DEF StreamInv, InRead, Unread, Loading, Whole, Inflating
<1>11. CASE ReadStream /\ TruncatedFile
  <2>1. /\ pc' = "died" /\ zstate' = "exited"
        /\ UNCHANGED <<ret, total, eof, file, logic_offset>>
    BY <1>11 DEF ReadStream, TruncatedFile, Goto, decoder, call, window
  <2> QED  BY <2>1 DEF StreamInv, InRead, Unread, Loading, Whole, Inflating
<1>12. CASE ReadStream /\ InputLeft
  <2>1. /\ pc = "stream" /\ format = "stream"
        /\ UNCHANGED <<file, opts, format, searched>>
    BY <1>12 DEF ReadStream, InputLeft, input, StreamInv
  <2>2. /\ zstate = "input" /\ zstate' = "inflate" /\ pc' = "stream"
        /\ UNCHANGED <<position, avail_in, taken, made, ret, outbuf, next_out,
                       outbuf_start, logic_offset, eof, size, total>>
    BY <1>12 DEF ReadStream, InputLeft, Goto, decoder, window, call
  <2>3. Aligned' = Aligned  BY <2>1, <2>2 DEF Aligned
  <2> QED  BY <2>1, <2>2, <2>3
           DEF StreamInv, InRead, Unread, Loading, Whole, Inflating
<1>13. CASE ReadStream /\ Inflate
  <2>1. /\ pc = "stream" /\ format = "stream"
        /\ UNCHANGED <<file, opts, format, searched>>
    BY <1>13 DEF ReadStream, Inflate, input, StreamInv
  <2>2. PICK t \in 0..avail_in, m \in 0..OutSize :
          /\ Decodes(t, m, OutSize)
          /\ outbuf' = [k \in 0..(OutSize - 1) |->
                          IF k < m THEN made + k + 1 ELSE outbuf[k]]
          /\ next_out' = m
          /\ taken' = taken + t /\ made' = made + m /\ avail_in' = avail_in - t
          /\ ret' = ResultOf(t)
    BY <1>13 DEF Inflate
  <2>3. /\ zstate = "inflate" /\ zstate' = "drain" /\ pc' = "stream"
        /\ outbuf_start' = 0
        /\ UNCHANGED <<position, logic_offset, eof, size, total>>
    BY <1>13 DEF ReadStream, Inflate, Goto, call
  <2>4. OutSize \in Nat  BY ZFileAssumption
  <2>5. /\ ret' = IF taken' > Units(file) THEN "end" ELSE "ok"
        /\ taken' + avail_in' = taken + avail_in
    BY <2>2, <2>4, Decoded
  <2>6. /\ Aligned /\ outbuf_start = next_out /\ ret = "ok"
        /\ ~eof /\ Len(total) + size = ReadSize
    BY <2>1, <2>3 DEF StreamInv, InRead
  <2>7. Aligned'
    <3>1. logic_offset' + (next_out' - outbuf_start') = made'
      BY <2>2, <2>3, <2>6 DEF Aligned, StreamTypes, DecoderTypes
    <3>2. \A k \in 0..(next_out' - 1) : outbuf'[k] = made' - next_out' + k + 1
      BY <2>2, <2>4 DEF DecoderTypes
    <3> QED  BY <2>1, <2>3, <2>6, <3>1, <3>2 DEF Aligned
  <2> QED  BY <2>1, <2>3, <2>5, <2>6, <2>7
           DEF StreamInv, InRead, Unread, Loading, Whole, Inflating
<1>14. CASE ReadStream /\ InflateFails
  <2>1. /\ pc = "stream" /\ format = "stream"
        /\ UNCHANGED <<file, opts, format, searched>>
    BY <1>14 DEF ReadStream, InflateFails, input, StreamInv
  <2>2. /\ zstate = "inflate" /\ zstate' = "idle" /\ pc' = "stream"
        /\ total' = <<>> /\ ret' = "error"
        /\ file.ending = "damaged"
        /\ UNCHANGED <<position, avail_in, taken, eof>>
    BY <1>14 DEF ReadStream, InflateFails, MeetsDamage, Goto
  <2>3. ~eof  BY <2>2 DEF StreamInv, InRead
  <2>4. taken <= Units(file)  BY <1>1, <2>2 DEF DecoderInv, DecoderTypes
  <2> QED  BY <1>1, <2>1, <2>2, <2>3, <2>4
           DEF StreamInv, DecoderTypes, InRead, Unread, Loading, Whole, Inflating
<1>15. CASE SearchLines
  <2>1. /\ pc = "stream" /\ zstate = "idle" /\ total # <<>> /\ total' = <<>>
        /\ searched' = searched \o total
        /\ UNCHANGED <<pc, file, opts, format, position, zstate, avail_in, taken,
                       made, ret, outbuf, next_out, outbuf_start, logic_offset, eof>>
    BY <1>15 DEF SearchLines, decoder, window, input
  <2>2. ret # "error" /\ Aligned  BY <2>1 DEF StreamInv
  <2>3. Len(searched') = Len(searched) + Len(total)
    BY <2>1, ConcatProperties DEF StreamTypes
  <2>4. Aligned'
    BY <1>2, <2>1, <2>2, <2>3 DEF Aligned
  <2> QED  BY <2>1, <2>2, <2>4
           DEF StreamInv, InRead, Unread, Loading, Whole, Inflating
<1>16. CASE CloseStream
  <2>1. /\ pc = "stream" /\ pc' = "cleanup" /\ zstate' = "closed"
        /\ UNCHANGED <<file, ret, logic_offset, eof, total>>
    BY <1>16 DEF CloseStream, ZClose, Goto, decoder, window, call
  <2> QED  BY <2>1 DEF StreamInv, InRead, Unread, Loading, Whole, Inflating
<1> QED
  BY <1>3, <1>4, <1>5, <1>6, <1>7, <1>8, <1>9, <1>10, <1>11, <1>12, <1>13,
     <1>14, <1>15, <1>16
  DEF Next, SearchFile, ReadStream, ZRead

-----------------------------------------------------------------------------
(* What is searched                                                         *)

\* What has been searched is the content, and a search ends as it has to.
LEMMA OutcomeStep ==
  ASSUME InputOK, DescriptorInv, LoadTypes, LoadInv, DecoderTypes,
         DecoderInv, StreamTypes, StreamInv, OutcomeInv,
         searched \in Seq(Nat), [Next]_vars
  PROVE  OutcomeInv'
<1>1. /\ Units(file) \in Nat /\ TotalBytes(file) \in Nat
      /\ FileLength(file) \in Nat /\ FileLength(file) >= Units(file)
      /\ file.ending \in Endings
      /\ file.ending = "cut" <=> FileLength(file) = Units(file)
      /\ \A n \in Nat : BytesOf(file, n) \in Nat
                        /\ BytesOf(file, n) <= TotalBytes(file)
      /\ \A m, n \in Nat : m <= n => BytesOf(file, m) <= BytesOf(file, n)
      /\ \A n \in Nat : n >= Units(file) => BytesOf(file, n) = TotalBytes(file)
  BY UnitsAdd DEF InputOK
<1>2. CASE \/ Stat \/ Open \/ IsZipped \/ SearchPipe \/ Cleanup
  BY <1>2, <1>1, ZenonT(60)
  DEF Stat, Open, IsZipped, SearchPipe, Close, Cleanup, Goto, OutcomeInv,
      LoadInv, DecoderInv, DescriptorInv, InputOK, Settings, Wanted, AsArchive,
      AfterFstat, AfterInflate, Unread, Loading, Whole, Inflating, Over, vars,
      zvars, input, loading, growing, elsewhere, decoder, window, call
<1>3. CASE ReadMore
  BY <1>3, <1>1
  DEF ReadMore, Read, Into, Smaller, Goto, OutcomeInv, LoadInv, DecoderInv,
      DescriptorInv, InputOK, Settings, Wanted, AsArchive, AfterFstat,
      AfterInflate, Unread, Loading, Whole, Inflating, Over, vars, zvars,
      input, loading, growing, elsewhere, decoder, window, call
<1>4. CASE \/ OpenStream
           \/ (ReadStream /\ (ReadCall \/ Drain \/ FillInput \/ InputLeft
                              \/ Inflate \/ InflateFails))
  BY <1>4, <1>1
  DEF OpenStream, DecompressOpen, Close, ReadStream, ReadCall, Drain,
      DrainedTo, Smaller, FillInput, InputLeft, Inflate, Decodes, ResultOf,
      AtTrailer, InflateFails, MeetsDamage, Goto, OutcomeInv, LoadInv,
      DecoderInv, DescriptorInv, InputOK, Settings, Wanted, AsArchive,
      AfterFstat, AfterInflate, Unread, Loading, Whole, Inflating, Over, vars,
      zvars, input, loading, growing, elsewhere, decoder, window, call
<1>5. CASE \/ Decompress \/ Grow
  BY <1>5, <1>1
  DEF Decompress, Grow, Room, Goto, OutcomeInv, LoadInv, DecoderInv,
      DescriptorInv, InputOK, Settings, Wanted, AsArchive, AfterFstat,
      AfterInflate, Unread, Loading, Whole, Inflating, Over, vars, zvars,
      input, loading, growing, elsewhere, decoder, window, call
<1>6. CASE InflateAllFails
  BY <1>6, <1>1
  DEF InflateAllFails, MeetsDamage, Goto, OutcomeInv, LoadInv, DecoderInv,
      DescriptorInv, InputOK, Settings, Wanted, AsArchive, AfterFstat,
      AfterInflate, Unread, Loading, Whole, Inflating, Over, vars, zvars,
      input, loading, growing, elsewhere, decoder, window, call
<1>7. CASE \/ ReplacePath \/ ChangeFile \/ OtherOpens
  BY <1>7, <1>1, ZenonT(60)
  DEF ReplacePath, ChangeFile, OtherOpens, Others, Goto, OutcomeInv, LoadInv,
      DecoderInv, DescriptorInv, InputOK, Settings, Wanted, AsArchive,
      AfterFstat, AfterInflate, Unread, Loading, Whole, Inflating, Over, vars,
      zvars, input, loading, growing, elsewhere, decoder, window, call
<1>8. CASE \/ OtherCloses \/ OtherClosesAgain \/ UNCHANGED vars
  BY <1>8, <1>1, ZenonT(60)
  DEF OtherCloses, Others, Close, Robbed, OtherClosesAgain, Goto, OutcomeInv,
      LoadInv, DecoderInv, DescriptorInv, InputOK, Settings, Wanted, AsArchive,
      AfterFstat, AfterInflate, Unread, Loading, Whole, Inflating, Over, vars,
      zvars, input, loading, growing, elsewhere, decoder, window, call
<1>9. CASE Fstat
  <2>1. /\ pc = "fstat" /\ pc' = AfterFstat(f_len') /\ f_len' = disk_size
        /\ UNCHANGED <<searched, opts, format, binary, kind_opened>>
    BY <1>9 DEF Fstat, Goto, input
  <2>2. searched = <<>> /\ Len(searched) = 0
    BY <2>1 DEF OutcomeInv, Unread
  <2>3. pc' = "cleanup" => ~Wanted'
    BY <2>1, SearchFileAssumption DEF AfterFstat, Wanted, LoadTypes
  <2>4. pc' \notin {"done", "died"}
    BY <2>1 DEF AfterFstat
  <2> QED  BY <2>1, <2>2, <2>3, <2>4 DEF OutcomeInv
<1>10. CASE ReadFirst
  <2>1. /\ pc = "first_read" /\ pc' \in {"cleanup", "read"}
        /\ UNCHANGED <<searched, f_len, opts, format, binary, kind_opened>>
    BY <1>10 DEF ReadFirst, Goto, input
  <2>2. searched = <<>> /\ Len(searched) = 0
    BY <2>1 DEF OutcomeInv, Loading
  <2>3. PICK verdict \in Verdicts(bytes_read') :
          pc' = IF verdict THEN "cleanup" ELSE "read"
    BY <1>10 DEF ReadFirst, Goto
  <2>4. PICK n \in Nat : bytes_read' = bytes_read + n
    BY <1>10, FirstReadPlaces
  <2>5. /\ bytes_read' \in Nat /\ Smaller(f_len, FirstRead) \in Nat
        /\ opts.mmap = FALSE /\ opts.search_binary_files = FALSE
    BY <2>1, <2>4, SearchFileAssumption
    DEF LoadTypes, LoadInv, Loading, Smaller, InputOK, Settings
  <2>6. pc' = "cleanup" /\ bytes_read' >= Smaller(f_len, FirstRead) => binary
    BY <2>3, <2>5 DEF Verdicts
  <2>7. /\ pc' = "cleanup"
        /\ opts'.mmap \/ bytes_read' >= Smaller(f_len', FirstRead)
        => ~Wanted'
    BY <2>1, <2>5, <2>6 DEF Wanted
  <2> QED  BY <2>1, <2>2, <2>7 DEF OutcomeInv
<1>11. CASE Loaded
  <2>1. /\ pc = "read" /\ pc' = IF bytes_read = f_len THEN "zipped" ELSE "died"
        /\ bytes_read >= f_len
        /\ UNCHANGED <<searched, changed>>
    BY <1>11 DEF Loaded, Goto
  <2>2. searched = <<>> /\ Len(searched) = 0
    BY <2>1 DEF OutcomeInv, Loading
  <2>3. pc' = "died" => changed'
    BY <2>1 DEF LoadInv, LoadTypes
  <2> QED  BY <2>1, <2>2, <2>3 DEF OutcomeInv
<1>12. CASE Search
  <2> DEFINE skips == opts.mmap /\ binary /\ ~opts.search_binary_files
  <2>1. /\ pc = "search"
        /\ searched' = IF skips THEN searched
                       ELSE IF opts.mmap THEN [k \in 1..f_len |-> k] ELSE buf
        /\ pc' = IF opts.mmap /\ disk_size < f_len THEN "died" ELSE "cleanup"
        /\ UNCHANGED <<opts, format, binary, file, f_len, kind_opened, changed>>
    BY <1>12 DEF Search, Goto, zvars, input, loading
  <2>2. searched = <<>> /\ Len(searched) = 0
    BY <2>1 DEF OutcomeInv, Whole
  <2>3. pc' = "died" => changed'
    BY <2>1 DEF LoadInv, LoadTypes, Whole, Unread
  <2>4. f_len \in Nat  BY DEF LoadTypes
  <2>5. ~skips => Len(searched') = f_len /\ \A k \in 1..f_len : searched'[k] = k
    <3>1. CASE opts.mmap
      <4> DEFINE content == [k \in 1..f_len |-> k]
      <4>1. content \in [1..f_len -> Nat] /\ \A k \in 1..f_len : content[k] = k
        BY <2>4
      <4>2. ~skips => searched' = content  BY <2>1, <3>1
      <4> HIDE DEF content
      <4>3. Len(content) = f_len  BY <2>4, <4>1, SequenceOf
      <4> HIDE DEF skips
      <4> QED  BY <4>1, <4>2, <4>3
    <3>2. CASE ~opts.mmap
      <4>1. buf \in [1..f_len -> Nat] /\ \A k \in 1..f_len : buf[k] = k
        BY <2>1, <2>4, <3>2 DEF LoadInv, Whole
      <4>2. Len(buf) = f_len  BY <2>4, <4>1, SequenceOf
      <4> QED  BY <2>1, <3>2, <4>1, <4>2
    <3> QED  BY <3>1, <3>2
  <2>6. \A k \in 1..Len(searched') : searched'[k] = k
    <3> HIDE DEF skips
    <3>1. CASE skips  BY <2>1, <2>2, <3>1
    <3>2. CASE ~skips  BY <2>5, <3>2
    <3> QED  BY <3>1, <3>2
  <2>7. Wanted' => ~skips /\ ~AsArchive'
    BY <2>1, <2>4 DEF Wanted, AsArchive, DecoderInv
  <2>8. Wanted' => Len(searched') = f_len' /\ ~AsArchive'
    <3> HIDE DEF skips
    <3> QED  BY <2>1, <2>5, <2>7
  <2> QED  BY <2>1, <2>3, <2>6, <2>8
           DEF OutcomeInv, Unread, Loading, Whole
<1>13. CASE ReadStream /\ TruncatedFile
  <2>1. /\ pc = "stream" /\ pc' = "died" /\ zstate = "input" /\ avail_in = 0
        /\ position >= FileLength(file)
        /\ UNCHANGED <<searched, file, opts, format>>
    BY <1>13 DEF ReadStream, TruncatedFile, Goto, input
  <2>2. AsArchive'  BY <2>1 DEF DescriptorInv, AsArchive
  <2>3. opts.mmap /\ file.ending # "cut" => TotalBytes(file) >= ReadSize
    <3> SUFFICES ASSUME opts.mmap, file.ending # "cut"
                 PROVE  TotalBytes(file) >= ReadSize
      OBVIOUS
    <3>1. /\ position <= FileLength(file) /\ taken + avail_in = position
          /\ ret = "ok"
          /\ taken > Units(file) => ret = "end" \/ TotalBytes(file) >= ReadSize
      BY <2>1 DEF StreamInv
    <3>2. taken = FileLength(file)
      BY <1>1, <2>1, <3>1 DEF DecoderTypes, LoadTypes
    <3>3. taken > Units(file)  BY <1>1, <3>2
    <3> QED  BY <3>1, <3>3
  <2> QED  BY <2>1, <2>2, <2>3 DEF OutcomeInv, Unread, Loading, Whole
<1>14. CASE SearchLines
  <2>1. /\ pc = "stream" /\ zstate = "idle" /\ total # <<>>
        /\ searched' = searched \o total /\ UNCHANGED pc
    BY <1>14 DEF SearchLines
  <2>2. \A i \in 1..Len(total) : total[i] = Len(searched) + i
    BY <2>1 DEF StreamInv, Aligned
  <2>3. /\ Len(searched') = Len(searched) + Len(total)
        /\ \A k \in 1..Len(searched') :
             searched'[k] = IF k <= Len(searched) THEN searched[k]
                            ELSE total[k - Len(searched)]
    BY <2>1, ConcatProperties DEF StreamTypes
  <2>4. Len(searched) \in Nat /\ Len(total) \in Nat
    BY LenProperties DEF StreamTypes
  <2>5. \A k \in 1..Len(searched) : searched[k] = k  BY DEF OutcomeInv
  <2>6. ASSUME NEW k \in 1..Len(searched')
        PROVE  searched'[k] = k
    <3>1. CASE k <= Len(searched)  BY <2>3, <2>4, <2>5, <3>1
    <3>2. CASE k > Len(searched)
      <4>1. k - Len(searched) \in 1..Len(total)  BY <2>3, <2>4, <3>2
      <4>2. total[k - Len(searched)] = Len(searched) + (k - Len(searched))
        BY <2>2, <4>1
      <4> QED  BY <2>3, <2>4, <3>2, <4>2
    <3> QED  BY <2>3, <2>4, <3>1, <3>2
  <2> QED  BY <2>1, <2>6 DEF OutcomeInv, Unread, Loading, Whole
<1>15. CASE CloseStream
  <2>1. /\ pc = "stream" /\ pc' = "cleanup"
        /\ total = <<>>
        /\ eof \/ ret = "error"
        /\ UNCHANGED <<searched, file, opts, format>>
    BY <1>15 DEF CloseStream, ZClose, Goto, input
  <2>2. AsArchive'  BY <2>1 DEF DescriptorInv, AsArchive
  <2>3. ret = "error" => file.ending = "damaged"  BY DEF DecoderInv
  <2>4. Len(searched) \in Nat  BY LenProperties
  <2>5. Len(total) = 0  BY <2>1
  <2>6. eof => Len(searched) = TotalBytes(file)
    <3> SUFFICES ASSUME eof PROVE Len(searched) = TotalBytes(file)  OBVIOUS
    <3>1. ret = "end" /\ logic_offset = TotalBytes(file)  BY DEF StreamInv
    <3>2. Aligned  BY <2>1, <3>1 DEF StreamInv
    <3>3. Len(searched) + Len(total) = logic_offset  BY <3>2 DEF Aligned
    <3> QED  BY <2>4, <2>5, <3>1, <3>3
  <2> QED  BY <2>1, <2>2, <2>3, <2>6 DEF OutcomeInv, Unread, Loading, Whole
<1>16. CASE SearchDecompressed
  <2>1. /\ pc = "decompressed" /\ pc' = "cleanup"
        /\ searched' = [k \in 1..made |-> k]
        /\ UNCHANGED <<file, opts, format>>
    BY <1>16 DEF SearchDecompressed, Goto, zvars, input
  <2>2. AsArchive' /\ made = TotalBytes(file)
    BY <2>1 DEF DecoderInv, Inflating, AsArchive
  <2>3. made \in Nat  BY DEF DecoderTypes
  <2>4. searched' \in [1..made -> Nat]  BY <2>1, <2>3
  <2>5. Len(searched') = made  BY <2>3, <2>4, SequenceOf
  <2>6. \A k \in 1..Len(searched') : searched'[k] = k  BY <2>1, <2>5
  <2> QED  BY <2>1, <2>2, <2>5, <2>6 DEF OutcomeInv, Unread, Loading, Whole
<1>17. CASE InflateAll
  <2>1. PICK t \in 0..avail_in, m \in 0..avail_out :
          /\ Decodes(t, m, avail_out) /\ pc' = AfterInflate(t, m)
    BY <1>17 DEF InflateAll, Goto
  <2>2. /\ pc = "inflate_all" /\ UNCHANGED <<searched, file, opts, format>>
    BY <1>17 DEF InflateAll, input
  <2>3. AsArchive'  BY <2>2 DEF DecoderInv, Inflating, AsArchive
  <2>4. pc' \in {"grow", "decompressed", "cleanup"}
    BY <2>1 DEF AfterInflate
  <2>5. pc' = "cleanup" => file.ending = "cut"
    <3> SUFFICES ASSUME pc' = "cleanup" PROVE file.ending = "cut"  OBVIOUS
    <3>1. m # avail_out /\ ResultOf(t) # "end" /\ t = 0 /\ m = 0
      BY <2>1 DEF AfterInflate
    <3>2. avail_out \in Nat  BY DEF DecoderTypes
    <3>3. avail_in = 0 /\ ~(taken + 0 > Units(file))
      BY <2>1, <3>1, <3>2, Decoded
    <3>4. taken + avail_in = FileLength(file)  BY <2>2 DEF DecoderInv
    <3> QED  BY <1>1, <3>3, <3>4 DEF DecoderTypes
  <2> QED  BY <2>2, <2>3, <2>4, <2>5 DEF OutcomeInv, Unread, Loading, Whole
<1> QED
  BY <1>2, <1>3, <1>4, <1>5, <1>6, <1>7, <1>8, <1>9, <1>10, <1>11, <1>12, <1>13,
     <1>14, <1>15, <1>16, <1>17
  DEF Next, SearchFile, ReadStream, ZRead

-----------------------------------------------------------------------------
(* The whole of it                                                          *)

\* What is searched is a sequence of bytes.
LEMMA SearchedStep ==
  ASSUME LoadTypes, LoadInv, DecoderTypes, StreamTypes,
         searched \in Seq(Nat), [Next]_vars
  PROVE  searched' \in Seq(Nat)
<1>1. CASE \/ Stat \/ Open \/ Fstat \/ ReadFirst \/ ReadMore \/ Loaded
           \/ IsZipped \/ OpenStream \/ CloseStream \/ SearchPipe \/ Decompress
           \/ Grow \/ InflateAll \/ InflateAllFails \/ Cleanup \/ ReplacePath
           \/ ChangeFile \/ OtherOpens \/ OtherCloses \/ OtherClosesAgain
           \/ UNCHANGED vars
           \/ (ReadStream /\ (ReadCall \/ Drain \/ FillInput
                              \/ TruncatedFile \/ InputLeft \/ Inflate
                              \/ InflateFails))
  BY <1>1
  DEF Stat, Open, Fstat, AfterFstat, ReadFirst, Read, Into, Verdicts, Smaller,
      ReadMore, Loaded, IsZipped, OpenStream, DecompressOpen, Close,
      ReadStream, ReadCall, Drain, DrainedTo, FillInput, TruncatedFile,
      InputLeft, Inflate, Decodes, ResultOf, AtTrailer, InflateFails,
      MeetsDamage, CloseStream, ZClose, SearchPipe, Decompress, Grow, Room,
      InflateAll, AfterInflate, InflateAllFails, Cleanup, ReplacePath,
      ChangeFile, OtherOpens, Others, OtherCloses, Robbed, OtherClosesAgain,
      Goto, vars, zvars, input, loading, growing, elsewhere, decoder, window,
      call
<1>2. CASE Search
  <2>1. [k \in 1..f_len |-> k] \in Seq(Nat) /\ buf \in Seq(Nat)
    <3>1. f_len \in Nat /\ buf \in [1..f_len -> Nat]
      BY DEF LoadTypes, LoadInv
    <3>2. [k \in 1..f_len |-> k] \in [1..f_len -> Nat]  BY <3>1
    <3> QED  BY <3>1, <3>2, SequenceOf
  <2> DEFINE skips == opts.mmap /\ binary /\ ~opts.search_binary_files
  <2>2. searched' = IF skips THEN searched
                    ELSE IF opts.mmap THEN [k \in 1..f_len |-> k] ELSE buf
    BY <1>2 DEF Search
  <2> HIDE DEF skips
  <2> QED  BY <2>1, <2>2
<1>3. CASE SearchLines
  <2> QED  BY <1>3, ConcatProperties DEF SearchLines, StreamTypes
<1>4. CASE SearchDecompressed
  <2>1. made \in Nat  BY DEF DecoderTypes
  <2>2. [k \in 1..made |-> k] \in [1..made -> Nat]  BY <2>1
  <2> QED  BY <1>4, <2>1, <2>2, SequenceOf DEF SearchDecompressed
<1> QED
  BY <1>1, <1>2, <1>3, <1>4
  DEF Next, SearchFile, ReadStream, ZRead

\* A search begins with nothing read, decoded or open.
LEMMA FileInit == Init => FileInv
<1> SUFFICES ASSUME Init PROVE FileInv  OBVIOUS
<1>1. file \in Compressed /\ opts \in Settings
  BY SearchFileAssumption DEF Init
<1>2. /\ Units(file) \in Nat /\ FileLength(file) \in Nat
      /\ FileLength(file) >= 0 /\ BytesOf(file, 0) \in Nat
      /\ TotalBytes(file) \in Nat
  BY <1>1, UnitsAdd
<1>3. disk_size \in Nat /\ (format = "stream" => disk_size = FileLength(file))
  BY <1>2, SearchFileAssumption DEF Init
<1>4. PathTypes  BY DEF Init, Kinds, PathTypes
<1>5. LoadTypes  BY <1>3 DEF Init, LoadTypes
<1>6. DecoderTypes  BY DEF Init, ZInit, DecoderTypes
<1>7. StreamTypes
  <2>1. /\ zstate = "closed" /\ outbuf = NoBytes /\ next_out = 0
        /\ outbuf_start = 0 /\ logic_offset = 0 /\ decode_offset = 0
        /\ eof = FALSE /\ size = 0 /\ total = <<>>
    BY DEF Init, ZInit
  <2>2. 0 \in 0..OutSize /\ 0 \in 0..0 /\ 0 \in 0..ReadSize
    BY ZFileAssumption
  <2>3. NoBytes \in [0..(OutSize - 1) -> Nat]  BY DEF NoBytes
  <2>4. total \in Seq(Nat)  BY <2>1
  <2> QED  BY <2>1, <2>2, <2>3, <2>4 DEF StreamTypes
<1>8. buf = <<>> /\ searched = <<>> /\ Len(searched) = 0  BY DEF Init
<1>9. InputOK  BY <1>1 DEF Init, InputOK, Unread
<1>10. DescriptorInv  BY DEF Init, DescriptorInv
<1>11. LoadInv
  BY <1>3, <1>8 DEF Init, LoadInv, Unread, Loading, Whole, Inflating
<1>12. DecoderInv
  BY <1>2 DEF Init, ZInit, DecoderInv, Unread, Loading, Whole, Inflating
<1>13. StreamInv
  BY DEF Init, ZInit, StreamInv, InRead, Unread, Loading, Whole, Inflating
<1>14. OutcomeInv  BY <1>8 DEF Init, OutcomeInv, Unread, Loading, Whole
<1> QED
  BY <1>4, <1>5, <1>6, <1>7, <1>8, <1>9, <1>10, <1>11, <1>12, <1>13, <1>14,
     TypesOfTheParts
  DEF FileInv

\* Every step of the thread and of everybody else.
LEMMA FileStep == FileInv /\ [Next]_vars => FileInv'
<1> SUFFICES ASSUME FileInv, [Next]_vars PROVE FileInv'  OBVIOUS
<1>1. /\ InputOK /\ DescriptorInv /\ LoadInv /\ DecoderInv /\ StreamInv
      /\ OutcomeInv /\ PathTypes /\ LoadTypes /\ DecoderTypes /\ StreamTypes
      /\ buf \in Seq(Nat) /\ searched \in Seq(Nat)
  BY TypesOfTheParts DEF FileInv
<1>2. InputOK' /\ PathTypes' /\ LoadTypes' /\ DecoderTypes' /\ StreamTypes'
  BY <1>1, InputStep, PathTypesStep, LoadTypesStep, DecoderTypesStep,
     StreamTypesStep
<1>3. DescriptorInv'  BY <1>1, DescriptorStep
<1>4. LoadInv'  BY <1>1, LoadStep
<1>5. DecoderInv'  BY <1>1, DecoderStep
<1>6. StreamInv'  BY <1>1, StreamStep
<1>7. OutcomeInv'  BY <1>1, OutcomeStep
<1>8. searched' \in Seq(Nat)  BY <1>1, SearchedStep
<1>9. buf' \in Seq(Nat)
  <2>1. f_len' \in Nat /\ buf' \in [1..f_len' -> Nat]
    BY <1>2, <1>4 DEF LoadTypes, LoadInv
  <2> QED  BY <2>1, SequenceOf
<1>10. TypeOK'
  BY <1>2, <1>8, <1>9
  DEF TypeOK, ZTypeOK, PathTypes, LoadTypes, DecoderTypes, StreamTypes
<1> QED  BY <1>2, <1>3, <1>4, <1>5, <1>6, <1>7, <1>10 DEF FileInv

-----------------------------------------------------------------------------
(* The theorems                                                             *)

\* What is read, decoded and searched of a file stays together, whatever the
\* other thread and the file do meanwhile (search_file, zfile_read,
\* decompress).
THEOREM FileInvariance == Spec => []FileInv
  BY FileInit, FileStep, PTL DEF Spec

\* The variables keep their types.
THEOREM TypeCorrect == Spec => []TypeOK
<1>1. FileInv => TypeOK  BY DEF FileInv
<1> QED  BY <1>1, FileInvariance, PTL

\* What is searched is the content from its beginning, in order, without a gap
\* or a repetition, for every size of the buffers, pace of the decoder and
\* short read (search_file, search_stream, zfile_read).
THEOREM InOrder == Spec => []ContentInOrder
<1>1. FileInv => ContentInOrder
  <2> SUFFICES ASSUME FileInv PROVE ContentInOrder  OBVIOUS
  <2>1. searched \in Seq(Nat) /\ \A k \in 1..Len(searched) : searched[k] = k
    BY DEF FileInv, TypeOK, OutcomeInv
  <2>2. searched = [k \in 1..Len(searched) |-> searched[k]]
    BY <2>1, SeqDef
  <2>3. [k \in 1..Len(searched) |-> searched[k]] = [k \in 1..Len(searched) |-> k]
    BY <2>1
  <2> QED  BY <2>2, <2>3 DEF ContentInOrder
<1> QED  BY <1>1, FileInvariance, PTL

\* A file that stays as it is is searched to its end, and neither end-of-file
\* nor the end of the program comes without a cause (zfile_read, search_file).
THEOREM SearchedToEnd == Spec => []NothingMissed
<1>1. FileInv => NothingMissed
  <2> SUFFICES ASSUME FileInv PROVE NothingMissed  OBVIOUS
  <2>1. SearchedToItsEnd
    BY DEF FileInv, OutcomeInv, SearchedToItsEnd
  <2> QED  BY <2>1 DEF FileInv, OutcomeInv, StreamInv, NothingMissed
<1> QED  BY <1>1, FileInvariance, PTL

\* No buffer is written past its end, unless the file grows while it is read
\* (search_file, decompress_zlib, decompress_lzma).
THEOREM BuffersLargeEnough == Spec => []BuffersSuffice
<1>1. FileInv => BuffersSuffice
  BY DEF FileInv, LoadInv, DecoderInv, BuffersSuffice
<1> QED  BY <1>1, FileInvariance, PTL

\* Of two threads each has the descriptor it opened until it closes it, unless
\* one of them searches a stream, and no descriptor is left open (search_file).
THEOREM DescriptorsSafe == Spec => []DescriptorsKept
<1>1. FileInv => DescriptorsKept
  BY DEF FileInv, DescriptorInv, DescriptorsKept, Robbed, Stolen, Unsafe
<1> QED  BY <1>1, FileInvariance, PTL
=============================================================================
