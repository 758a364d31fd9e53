----------------------------- MODULE SearchFile -----------------------------
(***************************************************************************)
(* search_file of ag_src/search.c: how one thread opens a file, loads or    *)
(* decompresses it and closes it, while another thread opens and closes     *)
(* files of its own, the file may change, and short reads happen.           *)
(*                                                                         *)
(* The content of a file is the sequence of its bytes 1, 2, 3...: of its    *)
(* units for a compressed one.  "searched" is what search_buf is given, all *)
(* lines of a stream together.  Descriptors are those that are in use by    *)
(* the two threads.                                                        *)
(***************************************************************************)
EXTENDS ZFile, FiniteSetsExt

CONSTANTS
  Descriptor,    \* two numbers or more
  FirstRead,     \* the 512 bytes read for is_binary
  MaxPlain,      \* bound: bytes of a file that is not compressed
  IntMax,        \* INT_MAX
  Compressed,    \* the compressed files considered
  Options        \* the settings considered

Settings == [mmap : BOOLEAN, search_zip_files : BOOLEAN,
             search_binary_files : BOOLEAN, literal : BOOLEAN, dot : BOOLEAN,
             fopencookie : BOOLEAN]

\* A descriptor for each of the two threads, and files whose units only add to
\* what precedes them.
ASSUME SearchFileAssumption ==
  /\ Descriptor \subseteq Nat \ {0}
  /\ \E d, e \in Descriptor : d # e
  /\ FirstRead \in Nat \ {0} /\ MaxPlain \in Nat /\ IntMax \in Nat
  /\ Options \subseteq Settings
  /\ Compressed # {}
  /\ \A f \in Compressed :
       /\ f \in [upto : Seq(Nat), ending : Endings]
       /\ \A i, j \in DOMAIN f.upto : i <= j => f.upto[i] <= f.upto[j]

VARIABLES
  opts,
  kind,            \* what the path leads to
  kind_opened,     \* what open() has opened
  format,          \* what is_zipped says
  binary,          \* what is_binary says
  disk_size,       \* the size of the file now
  changed,         \* it has changed since fstat()
  pc,
  fd, f_len,
  buf, bytes_read,
  overrun,         \* read() has been given more room than buf has
  result_size, avail_out,    \* decompress_zlib, decompress_lzma
  searched,
  owner,           \* the thread that has opened a descriptor
  other_fd, other, other_streams   \* the other thread

input == <<opts, format, binary, other_streams>>
loading == <<f_len, buf, bytes_read, overrun>>
growing == <<result_size, avail_out>>
elsewhere == <<other_fd, other>>
vars == <<zvars, input, kind, kind_opened, disk_size, changed, pc, fd, loading,
          growing, searched, owner, elsewhere>>

Kinds == {"file", "fifo", "directory", "missing"}

\* No longer the descriptor of this thread, which is no more followed.
Stolen == owner[fd] # "me"

LowestFree == Min({d \in Descriptor : owner[d] = "free"})

Close(d) == owner' = [owner EXCEPT ![d] = "free"]

-----------------------------------------------------------------------------
Init ==
  /\ opts \in Options
  /\ kind \in Kinds
  /\ format \in {"none", "stream", "unsupported"}
  /\ binary \in BOOLEAN
  /\ file \in Compressed
  /\ IF format = "stream" THEN disk_size = FileLength(file)
     ELSE disk_size \in 0..MaxPlain /\ file = CHOOSE f \in Compressed : TRUE
  /\ other_streams \in BOOLEAN
  /\ kind_opened = "missing" /\ changed = FALSE
  /\ pc = "stat" /\ fd = 0 /\ f_len = 0
  /\ buf = <<>> /\ bytes_read = 0 /\ overrun = FALSE
  /\ result_size = 0 /\ avail_out = 0
  /\ searched = <<>>
  /\ owner = [d \in Descriptor |-> "free"]
  /\ other_fd = 0 /\ other = "idle"
  /\ position = 0
  /\ ZInit

Goto(to) == pc' = to

\* stat(), before anything is opened.
Stat ==
  /\ pc = "stat"
  /\ Goto(IF kind \in {"file", "fifo"} THEN "open" ELSE "cleanup")
  /\ UNCHANGED <<zvars, input, kind, kind_opened, disk_size, changed, fd, loading,
                 growing, searched, owner, elsewhere>>

\* open() may fail, and does if the path leads nowhere by now.
Open ==
  /\ pc = "open"
  /\ \/ /\ Goto("cleanup")
        /\ UNCHANGED <<kind_opened, fd, owner>>
     \/ /\ kind # "missing"
        /\ fd' = LowestFree
        /\ owner' = [owner EXCEPT ![fd'] = "me"]
        /\ kind_opened' = kind
        /\ Goto("fstat")
  /\ UNCHANGED <<zvars, input, kind, disk_size, changed, loading, growing,
                 searched, elsewhere>>

\* Fault: what is not searched is left as it is.
AfterFstatReturning(n) ==
  IF kind_opened = "fifo" THEN "pipe"
  ELSE IF kind_opened # "file" \/ n = 0 THEN "done"
  ELSE IF opts.mmap THEN "zipped" ELSE "read"

\* What to do with the file: pipes are streams, and some files are not searched.
AfterFstat(n) ==
  IF kind_opened = "fifo" THEN "pipe"
  ELSE IF \/ kind_opened # "file"
          \/ n = 0 /\ ~opts.dot
          \/ ~opts.literal /\ n > IntMax
       THEN "cleanup"
  ELSE IF n = 0 THEN "search"
  ELSE IF opts.mmap THEN "zipped"
  ELSE IF opts.search_binary_files THEN "read" ELSE "first_read"

\* fstat(), on the descriptor this time.  The buffer is allocated, or mapped.
Fstat ==
  /\ pc = "fstat" /\ ~Stolen
  /\ f_len' = disk_size
  /\ Goto(AfterFstat(disk_size))
  /\ buf' = [k \in 1..disk_size |-> 0]
  /\ changed' = FALSE
  /\ UNCHANGED <<zvars, input, kind, kind_opened, disk_size, fd, bytes_read,
                 overrun, growing, searched, owner, elsewhere>>

-----------------------------------------------------------------------------
(* Loading without mmap                                                     *)

Into(k, n) == bytes_read < k /\ k <= bytes_read + n

\* read() of at most that many bytes to buf + bytes_read.
Read(most) ==
  \E n \in 1..Smaller(most, disk_size - position) :
    /\ buf' = [k \in 1..f_len |-> IF Into(k, n) THEN position + k - bytes_read
                                  ELSE buf[k]]
    /\ overrun' = (overrun \/ bytes_read + n > f_len)
    /\ bytes_read' = bytes_read + n
    /\ position' = position + n

\* is_binary looks at the first bytes of the buffer, whatever has been read into
\* them.
Verdicts(n) == IF n < Smaller(f_len, FirstRead) THEN BOOLEAN ELSE {binary}

\* The first bytes, to see whether the file is binary.
ReadFirst ==
  /\ pc = "first_read" /\ ~Stolen
  /\ \/ Read(Smaller(f_len, FirstRead))
     \/ disk_size <= position /\ UNCHANGED <<buf, bytes_read, overrun, position>>
  /\ \E verdict \in Verdicts(bytes_read') :
       Goto(IF verdict THEN "cleanup" ELSE "read")
  /\ UNCHANGED <<file, zstate, decoder, window, eof, call, input, kind, kind_opened,
                 disk_size, changed, fd, f_len, growing, searched, owner,
                 elsewhere>>

\* Each read() asks for f_len bytes, however many are left.  At the end of a
\* file that has become shorter it returns 0, which changes nothing.
ReadMore ==
  /\ pc = "read" /\ ~Stolen
  /\ bytes_read < f_len
  /\ Read(f_len)
  /\ UNCHANGED <<file, zstate, decoder, window, eof, call, input, kind, kind_opened,
                 disk_size, changed, pc, fd, f_len, growing, searched, owner,
                 elsewhere>>

\* Fault: the loop goes on for as long as no byte is left over.
LoadedOver ==
  /\ pc = "read"
  /\ bytes_read > f_len
  /\ Goto("died")
  /\ UNCHANGED <<zvars, input, kind, kind_opened, disk_size, changed, fd, loading,
                 growing, searched, owner, elsewhere>>

\* More than f_len bytes: die().
Loaded ==
  /\ pc = "read"
  /\ bytes_read >= f_len
  /\ Goto(IF bytes_read = f_len THEN "zipped" ELSE "died")
  /\ UNCHANGED <<zvars, input, kind, kind_opened, disk_size, changed, fd, loading,
                 growing, searched, owner, elsewhere>>

-----------------------------------------------------------------------------
(* Searching                                                                *)

\* is_zipped, which looks at the buffer.
IsZipped ==
  /\ pc = "zipped" /\ ~Stolen
  /\ Goto(IF ~opts.search_zip_files \/ format = "none" THEN "search"
          ELSE IF opts.fopencookie THEN "zopen" ELSE "decompress")
  /\ UNCHANGED <<zvars, input, kind, kind_opened, disk_size, changed, fd, loading,
                 growing, searched, owner, elsewhere>>

\* search_buf of the buffer.  It leaves binary files that are mapped, and the
\* pages past the end of a file that has become shorter cannot be read.
Search ==
  /\ pc = "search"
  /\ LET skips == opts.mmap /\ binary /\ ~opts.search_binary_files IN
       /\ searched' = IF skips THEN searched
                      ELSE IF opts.mmap THEN [k \in 1..f_len |-> k] ELSE buf
       /\ Goto(IF opts.mmap /\ disk_size < f_len THEN "died" ELSE "cleanup")
  /\ UNCHANGED <<zvars, input, kind, kind_opened, disk_size, changed, fd, loading,
                 growing, owner, elsewhere>>

\* decompress_open.  A format it does not know makes it close the descriptor
\* and return NULL, which search_stream reads from.
OpenStream ==
  /\ pc = "zopen" /\ ~Stolen
  /\ IF format = "stream" THEN /\ DecompressOpen
                               /\ Goto("stream")
                               /\ UNCHANGED owner
     ELSE /\ Close(fd)
          /\ Goto("died")
          /\ UNCHANGED zvars
  /\ UNCHANGED <<input, kind, kind_opened, disk_size, changed, fd, loading, growing,
                 searched, elsewhere>>

\* search_stream: getline() reads on when what it was given has been searched.
ReadStream ==
  /\ pc = "stream" /\ ~Stolen
  /\ zstate = "idle" => total = <<>> /\ ret # "error"
  /\ ZRead
  /\ Goto(IF zstate' = "exited" THEN "died" ELSE "stream")
  /\ UNCHANGED <<input, kind, kind_opened, disk_size, changed, fd, loading, growing,
                 searched, owner, elsewhere>>

SearchLines ==
  /\ pc = "stream" /\ zstate = "idle"
  /\ total # <<>>
  /\ searched' = searched \o total
  /\ total' = <<>>
  /\ UNCHANGED <<file, position, zstate, decoder, window, eof, size, input, kind,
                 kind_opened, disk_size, changed, pc, fd, loading, growing, owner,
                 elsewhere>>

\* Fault: end-of-file is looked at before what the read has returned.
CloseStreamAtEof ==
  /\ pc = "stream"
  /\ eof \/ ret = "error"
  /\ ZClose
  /\ Close(fd)
  /\ Goto("cleanup")
  /\ UNCHANGED <<input, kind, kind_opened, disk_size, changed, fd, loading, growing,
                 searched, elsewhere>>

\* The end of the stream, or an error: fclose() and with it zfile_close.
CloseStream ==
  /\ pc = "stream"
  /\ total = <<>> /\ (eof \/ ret = "error")
  /\ ZClose
  /\ Close(fd)
  /\ Goto("cleanup")
  /\ UNCHANGED <<input, kind, kind_opened, disk_size, changed, fd, loading, growing,
                 searched, elsewhere>>

\* A pipe, whose lines are its writer's: search_stream and fclose().
SearchPipe ==
  /\ pc = "pipe" /\ ~Stolen
  /\ Close(fd)
  /\ Goto("cleanup")
  /\ UNCHANGED <<zvars, input, kind, kind_opened, disk_size, changed, fd, loading,
                 growing, searched, elsewhere>>

-----------------------------------------------------------------------------
(* decompress(), for systems without fopencookie: all at once, to a buffer  *)
(* that is doubled before each call of the decoder.                         *)

\* The pages of the first size are as long as the file.
Decompress ==
  /\ pc = "decompress"
  /\ IF format = "stream" THEN Goto("grow") ELSE Goto("cleanup")
  /\ avail_in' = f_len
  /\ result_size' = f_len
  /\ UNCHANGED <<file, position, zstate, taken, made, ret, window, eof, call, input,
                 kind, kind_opened, disk_size, changed, fd, loading, avail_out,
                 searched, owner, elsewhere>>

\* Fault: all of the new buffer is offered to the decoder.
RoomOfAll == 2 * result_size

Room == result_size

\* Half of the new buffer is offered, from where the decoder has come to.
Grow ==
  /\ pc = "grow"
  /\ result_size' = 2 * result_size
  /\ avail_out' = Room
  /\ Goto("inflate_all")
  /\ UNCHANGED <<zvars, input, kind, kind_opened, disk_size, changed, fd, loading,
                 searched, owner, elsewhere>>

\* The inner loop goes on while the room is used up, the outer one while the
\* decoder is not at an end; a call that can do nothing is an error.
AfterInflate(t, m) ==
  IF m = avail_out THEN "grow"
  ELSE IF ResultOf(t) = "end" THEN "decompressed"
  ELSE IF t = 0 /\ m = 0 THEN "cleanup" ELSE "grow"

InflateAll ==
  /\ pc = "inflate_all"
  /\ \E t \in 0..avail_in, m \in 0..avail_out :
       /\ Decodes(t, m, avail_out)
       /\ taken' = taken + t
       /\ made' = made + m
       /\ avail_in' = avail_in - t
       /\ ret' = ResultOf(t)
       /\ Goto(AfterInflate(t, m))
  /\ UNCHANGED <<file, position, zstate, window, eof, call, input, kind, kind_opened,
                 disk_size, changed, fd, loading, growing, searched, owner,
                 elsewhere>>

InflateAllFails ==
  /\ pc = "inflate_all"
  /\ MeetsDamage(avail_out)
  /\ ret' = "error"
  /\ Goto("cleanup")
  /\ UNCHANGED <<file, position, zstate, avail_in, taken, made, window, eof, call,
                 input, kind, kind_opened, disk_size, changed, fd, loading, growing,
                 searched, owner, elsewhere>>

SearchDecompressed ==
  /\ pc = "decompressed"
  /\ searched' = [k \in 1..made |-> k]
  /\ Goto("cleanup")
  /\ UNCHANGED <<zvars, input, kind, kind_opened, disk_size, changed, fd, loading,
                 growing, owner, elsewhere>>

-----------------------------------------------------------------------------
\* The descriptor is closed, although a stream has closed it already.
Cleanup ==
  /\ pc = "cleanup"
  /\ IF fd = 0 THEN UNCHANGED owner ELSE Close(fd)
  /\ Goto("done")
  /\ UNCHANGED <<zvars, input, kind, kind_opened, disk_size, changed, fd, loading,
                 growing, searched, elsewhere>>

SearchFile ==
  \/ Stat \/ Open \/ Fstat \/ ReadFirst \/ ReadMore \/ Loaded \/ IsZipped \/ Search
  \/ OpenStream \/ ReadStream \/ SearchLines \/ CloseStream \/ SearchPipe
  \/ Decompress \/ Grow \/ InflateAll \/ InflateAllFails \/ SearchDecompressed
  \/ Cleanup

-----------------------------------------------------------------------------
(* Everybody else                                                           *)

\* The path comes to lead to something else between stat() and open().
ReplacePath ==
  /\ pc = "open"
  /\ kind' \in Kinds
  /\ UNCHANGED <<zvars, input, kind_opened, disk_size, changed, pc, fd, loading,
                 growing, searched, owner, elsewhere>>

\* The file becomes shorter or longer, once since fstat().
ChangeFile ==
  /\ kind_opened = "file" /\ format = "none"
  /\ ~changed
  /\ changed' = TRUE
  /\ disk_size' \in (0..(MaxPlain + 1)) \ {disk_size}
  /\ UNCHANGED <<zvars, input, kind, kind_opened, pc, fd, loading, growing, searched,
                 owner, elsewhere>>

Others(to) ==
  /\ other' = to
  /\ UNCHANGED <<zvars, input, kind, kind_opened, disk_size, changed, pc, fd, loading,
                 growing, searched>>

OtherOpens ==
  /\ other = "idle"
  /\ \E d \in Descriptor : owner[d] = "free"
  /\ other_fd' = LowestFree
  /\ owner' = [owner EXCEPT ![LowestFree] = "other"]
  /\ Others("open")

Robbed == other = "open" /\ owner[other_fd] # "other"

\* The other thread is in search_file as well, and its files may be streams.
OtherCloses ==
  /\ other = "open" /\ ~Robbed
  /\ Close(other_fd)
  /\ Others(IF other_streams THEN "fclosed" ELSE "idle")
  /\ UNCHANGED other_fd

OtherClosesAgain ==
  /\ other = "fclosed"
  /\ Close(other_fd)
  /\ Others("idle")
  /\ UNCHANGED other_fd

Next ==
  \/ SearchFile
  \/ ReplacePath \/ ChangeFile
  \/ OtherOpens \/ OtherCloses \/ OtherClosesAgain

\* The thread runs while it can, and the others run as they like.
Spec == Init /\ [][Next]_vars /\ WF_vars(SearchFile)
-----------------------------------------------------------------------------
(* Properties                                                               *)

\* The types of the variables.
TypeOK ==
  /\ ZTypeOK
  /\ kind \in Kinds /\ kind_opened \in Kinds
  /\ disk_size \in Nat /\ f_len \in Nat /\ bytes_read \in Nat
  /\ buf \in Seq(Nat) /\ searched \in Seq(Nat)
  /\ result_size \in Nat /\ avail_out \in Nat
  /\ fd \in Descriptor \cup {0} /\ other_fd \in Descriptor \cup {0}
  /\ owner \in [Descriptor -> {"free", "me", "other"}]
  /\ other \in {"idle", "open", "fclosed"}
  /\ changed \in BOOLEAN /\ overrun \in BOOLEAN

\* Whatever the sizes of the buffers, the pace of the decoder, short reads and a
\* file that changes: what is searched is the content from its beginning, in
\* order, without a gap, a repetition or a byte never read.
ContentInOrder == searched = [k \in 1..Len(searched) |-> k]

Wanted ==
  /\ kind_opened = "file" /\ f_len > 0
  /\ opts.literal \/ f_len <= IntMax
  /\ ~binary \/ opts.search_binary_files

AsArchive == opts.search_zip_files /\ format # "none"

\* A file that does not change and is not cut short in its first bytes is
\* searched to its end: the file itself or, for a complete compressed file,
\* all that it decompresses to.
SearchedToItsEnd ==
  /\ pc = "done" /\ fd # 0 /\ Wanted /\ ~changed
  /\ opts.mmap \/ bytes_read >= Smaller(f_len, FirstRead)
  =>
  /\ ~AsArchive => Len(searched) = f_len
  /\ AsArchive /\ format = "stream" /\ file.ending \in {"whole", "more"} =>
       Len(searched) = TotalBytes(file)

\* So it is told: the cookie says end-of-file at the end of a complete stream
\* only.  The program stops for a truncated file, a file that changed and,
\* wrongly, for content that takes more than one call of zfile_read, for files
\* that were read before and for formats it does not know.
NothingMissed ==
  /\ SearchedToItsEnd
  /\ eof => file.ending \in {"whole", "more"} /\ logic_offset = TotalBytes(file)
  /\ pc = "died" =>
       \/ file.ending = "cut" \/ changed
       \/ AsArchive /\ (format = "unsupported" \/ ~opts.mmap)
       \/ TotalBytes(file) >= ReadSize

\* Neither buffer is written past its end, but for a file that grows while it is
\* read: the first has room for f_len, the other for what inflate() is offered.
BuffersSuffice ==
  /\ overrun => changed
  /\ pc = "inflate_all" => made + avail_out <= result_size

\* Each thread has the descriptor it opened until it closes it, and leaves none
\* open, unless one of them searches a stream: that is closed twice, and the
\* number may be another thread's by then.
DescriptorsKept ==
  /\ \/ Robbed
     \/ fd # 0 /\ pc \in {"fstat", "first_read", "read", "zipped"} /\ Stolen
     => other_streams \/ kind_opened = "fifo" \/ (AsArchive /\ opts.fopencookie)
  /\ pc = "done" => \A d \in Descriptor : owner[d] # "me"

\* A search of a file ends, unless the file changes or the descriptor is taken
\* away meanwhile.
SearchFileEnds == <>(pc \in {"done", "died"} \/ changed \/ (fd # 0 /\ Stolen))

\* zfile.c:202: "Return number of bytes into buf, 0 on EOF, -1 on error."  So a
\* file that is all there is not taken for a truncated one.
CompleteIsNotTruncated == zstate = "exited" => file.ending = "cut"

-----------------------------------------------------------------------------
(* Why they hold: the invariant their proofs rest on                        *)

Unread == {"stat", "open", "fstat"}
Loading == {"first_read", "read"}
Whole == {"zipped", "search", "zopen", "decompress"}
Inflating == {"grow", "inflate_all", "decompressed"}
Over == {"cleanup", "done", "died"}

InputOK ==
  /\ opts \in Settings /\ file \in Compressed
  /\ format \in {"none", "stream", "unsupported"}
  /\ binary \in BOOLEAN /\ other_streams \in BOOLEAN
  /\ pc \in Unread \cup Loading \cup Whole \cup Inflating \cup Over
            \cup {"pipe", "stream"}

\* Closing twice, or being closed by one who does.
Unsafe == other_streams \/ kind_opened = "fifo" \/ (AsArchive /\ opts.fopencookie)

\* A thread has one descriptor at most, the one it has opened, and loses it to
\* one that closes twice.
DescriptorInv ==
  /\ fd = 0 <=> kind_opened = "missing"
  /\ pc \in {"stat", "open"} => fd = 0
  /\ fd = 0 => pc \in {"stat", "open", "cleanup", "done"}
  /\ pc = "pipe" => kind_opened = "fifo"
  /\ pc \in {"zopen", "stream"} => AsArchive /\ opts.fopencookie
  /\ other # "idle" => other_fd \in Descriptor
  /\ other = "fclosed" => other_streams
  /\ \A d \in Descriptor :
       /\ owner[d] = "me" => d = fd /\ pc # "done"
       /\ owner[d] = "other" => d = other_fd /\ other = "open"
  /\ ~Unsafe => /\ fd # 0 /\ pc # "done" => owner[fd] = "me"
                /\ other = "open" => owner[other_fd] = "other"

\* The buffer holds what has been read of the file, in its place.
LoadInv ==
  /\ pc \in Unread => position = 0 /\ f_len = 0 /\ ~overrun
  /\ pc \in Unread \cup {"first_read"} \/ opts.mmap => bytes_read = 0
  /\ pc \in Unread \cup Loading \cup {"zipped", "zopen"} => position = bytes_read
  /\ pc \in Loading => ~opts.mmap
  /\ pc = "first_read" => ~opts.search_binary_files
  /\ pc \in Loading \cup Whole \cup Inflating \cup {"stream", "died"} =>
       kind_opened = "file"
  /\ pc \in Whole /\ ~opts.mmap => bytes_read = f_len
  /\ buf \in [1..f_len -> Nat]
  /\ \A k \in 1..f_len : k <= bytes_read => buf[k] = k
  /\ overrun => changed
  /\ format # "none" => ~changed
  /\ format = "stream" => disk_size = FileLength(file)
  /\ ~changed => bytes_read <= f_len
  /\ kind_opened = "file" /\ pc \notin Unread /\ ~changed => disk_size = f_len

\* The decoder never makes more than the units it has taken come to, and has
\* made all of it when it is past the last one.
DecoderInv ==
  /\ pc \in Unread \cup Loading \cup Whole =>
       taken = 0 /\ made = 0 /\ avail_in = 0 /\ ret = "ok"
  /\ made <= BytesOf(file, taken)
  /\ taken <= Units(file) + 1
  /\ taken > Units(file) => made = TotalBytes(file) /\ file.ending # "damaged"
  /\ ret = "end" => taken > Units(file)
  /\ ret = "error" => file.ending = "damaged"
  /\ format = "stream" => taken + avail_in <= FileLength(file)
  /\ pc \in Inflating => AsArchive /\ format = "stream"
  /\ pc = "search" => ~AsArchive \/ f_len = 0
  /\ pc = "decompress" => AsArchive
  /\ pc \in {"grow", "inflate_all"} => taken + avail_in = FileLength(file)
  /\ pc = "grow" => made <= result_size
  /\ pc = "inflate_all" => made + avail_out <= result_size
  /\ pc = "decompressed" => taken > Units(file)

\* What the decoder has made is searched, then in total, then in outbuf.
Aligned ==
  /\ logic_offset + (next_out - outbuf_start) = made
  /\ Len(searched) + Len(total) = logic_offset
  /\ \A k \in 0..(next_out - 1) : outbuf[k] = made - next_out + k + 1
  /\ \A i \in 1..Len(total) : total[i] = Len(searched) + i

InRead == {"drain", "input", "inflate"}

\* A call of zfile_read and the state between two of them.
StreamInv ==
  /\ pc \notin {"stream", "died"} => zstate = "closed"
  /\ pc = "stream" => zstate \in InRead \cup {"idle"} /\ format = "stream"
  /\ pc \in Unread \cup Loading \cup Whole \cup Inflating =>
       total = <<>> /\ ~eof
  /\ pc = "stream" =>
       /\ position <= FileLength(file) /\ taken + avail_in <= position
       /\ opts.mmap => taken + avail_in = position
       /\ ret # "error" => Aligned
       /\ taken > Units(file) => ret = "end" \/ TotalBytes(file) >= ReadSize
  /\ zstate \in InRead => ret # "error" /\ ~eof /\ Len(total) + size = ReadSize
  /\ zstate \in {"input", "inflate"} => ret = "ok" /\ outbuf_start = next_out
  /\ zstate = "idle" /\ ret = "end" /\ ~eof => TotalBytes(file) >= ReadSize
  /\ ret = "error" => total = <<>>
  /\ eof => /\ ret = "end" /\ file.ending \in {"whole", "more"}
            /\ logic_offset = TotalBytes(file)

\* What is searched, and how it ends.
OutcomeInv ==
  /\ \A k \in 1..Len(searched) : searched[k] = k
  /\ pc \in Unread \cup Loading \cup Whole => searched = <<>>
  /\ pc \in {"cleanup", "done"} /\ fd # 0 /\ Wanted /\ ~changed
     /\ (opts.mmap \/ bytes_read >= Smaller(f_len, FirstRead))
     =>
     /\ ~AsArchive => Len(searched) = f_len
     /\ AsArchive /\ format = "stream" /\ file.ending \in {"whole", "more"} =>
          Len(searched) = TotalBytes(file)
  /\ pc = "died" =>
       \/ file.ending = "cut" \/ changed
       \/ AsArchive /\ (format = "unsupported" \/ ~opts.mmap)
       \/ TotalBytes(file) >= ReadSize

FileInv ==
  /\ TypeOK /\ InputOK /\ DescriptorInv /\ LoadInv /\ DecoderInv
  /\ StreamInv /\ OutcomeInv
=============================================================================
