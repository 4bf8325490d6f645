-------------------------- MODULE FileDescriptors --------------------------
(***************************************************************************)
(* libsponge/util/file_descriptor.cc and Socket::shutdown of socket.cc, on *)
(* a connected pair of local stream sockets.  The kernel's side of them is *)
(* modelled from its use: one queue of bytes for each direction, which     *)
(* holds PipeCapacity bytes, and whether that direction is shut down.      *)
(***************************************************************************)
EXTENDS ByteStreams

CONSTANT PipeCapacity    \* bound: what the kernel holds in one direction

NewQueue == [bytes |-> <<>>, shut |-> FALSE]

\* What poll reports of a queue: POLLIN to its reader, POLLOUT to its writer.
Readable(q) == q.bytes # <<>> \/ q.shut
Writable(q) == Len(q.bytes) < PipeCapacity

\* FileDescriptor::read: the bytes, the rest, and whether it sets _eof.
Data(q, limit) == SubSeq(q.bytes, 1, min(limit, Len(q.bytes)))
AfterRead(q, limit) == [q EXCEPT !.bytes = SubSeq(@, Len(Data(q, limit)) + 1, Len(@))]
ReadsEof(q, limit) == limit > 0 /\ Data(q, limit) = <<>>

\* FileDescriptor::write without write_all: what the kernel takes of the bytes; a
\* write of no bytes does not get as far as the socket.
Taken(q, data) == min(Len(data), PipeCapacity - Len(q.bytes))
AfterWrite(q, data) == [q EXCEPT !.bytes = @ \o SubSeq(data, 1, Taken(q, data))]

\* The write raises SIGPIPE, which no program of the repository handles.
BreaksPipe(q, data) == data # <<>> /\ q.shut

ShutDown(q) == [q EXCEPT !.shut = TRUE]
=============================================================================
