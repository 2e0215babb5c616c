----------------------------- MODULE DebugInfo -----------------------------
(***************************************************************************)
(* What ties a PDB to the assembly it was built with: the debug directory  *)
(* of a PE file, read from a stream that only goes forward, the id and the *)
(* checksum of a Portable PDB, and the match a symbol push must pass.      *)
(***************************************************************************)
EXTENDS Integers, Sequences, FiniteSets, SequencesExt, FiniteSetsExt, Results

CONSTANTS
    DosBytes, CoffBytes, SectionBytes, EntryBytes,  \* the sizes of the headers and table entries
    CodeViewBytes,                                  \* what is read of a CodeView entry's data
    MaxSections, MaxOptional, MaxDebugEntries,      \* the largest tables and headers walked,
    MaxChecksum, MaxScan,                           \* checksum entry and offset read
    IdBytes, GuidBytes                              \* the size of a PDB's id and of the GUID it starts with

---------------------------------------------------------------------------
(* Reading forward: [pos, len, real, behind, got], len the declared and    *)
(* real the actual size, got whether the last read succeeded.              *)

Forward(image) == [pos |-> 0, len |-> Min({image.len, MaxScan}), real |-> image.real, behind |-> FALSE, got |-> TRUE]
DeadStream == -1

\* Forward::read_at
ReadAt(f, at, n) ==
    CASE at + n > f.len \/ f.pos = DeadStream -> [f EXCEPT !.got = FALSE]
      [] at + n <= f.len /\ f.pos # DeadStream /\ at < f.pos -> [f EXCEPT !.got = FALSE, !.behind = TRUE]
      [] OTHER -> IF at > f.real THEN [f EXCEPT !.got = FALSE, !.pos = Max({f.pos, f.real})]
                  ELSE IF at + n > f.real THEN [f EXCEPT !.got = FALSE, !.pos = DeadStream]
                  ELSE [f EXCEPT !.got = TRUE, !.pos = at + n]

NoDirectory == [codeview |-> {}, checksums |-> {}]
Finished(directory) == [done |-> TRUE, directory |-> directory, records |-> <<>>]

\* The directory's place in the file, from its address and the section table.
DebugAt(image, rva) ==
    LET inside == {i \in DOMAIN image.sections :
                       rva >= image.sections[i].va /\ rva - image.sections[i].va < image.sections[i].size}
    IN IF inside = {} THEN {}
       ELSE {image.sections[Min(inside)].at + rva - image.sections[Min(inside)].va}

\* locate.  image.count and image.debug are {} where the optional header is too
\* short to hold them; image.entries is what lies where the directory should.
Locate(image, file) ==
    LET dos == ReadAt(file, 0, DosBytes)
        coff == ReadAt(dos, image.peAt, CoffBytes)
        optional == ReadAt(coff, image.peAt + CoffBytes, image.optional)
        tableAt == image.peAt + CoffBytes + image.optional
        table == ReadAt(optional, tableAt, Len(image.sections) * SectionBytes)
        debug == The(image.debug)
        at == DebugAt(image, debug.rva)
        n == Min({debug.size \div EntryBytes, MaxDebugEntries})
        directory == ReadAt(table, The(at), n * EntryBytes)
        known == SelectSeq(SubSeq(image.entries, 1, n), LAMBDA e : e.kind \in {"codeview", "checksum"})
    IN IF \/ ~dos.got \/ ~image.mz \/ ~coff.got \/ ~image.pe \/ Len(image.sections) > MaxSections \/ image.optional > MaxOptional
          \/ ~optional.got \/ ~image.magic \/ image.count = {} THEN Finished(Refused)
       ELSE IF The(image.count) <= 6 THEN Finished(Ok(NoDirectory))
       ELSE IF image.debug = {} THEN Finished(Refused)
       ELSE IF debug.rva = 0 \/ debug.size = 0 THEN Finished(Ok(NoDirectory))
       ELSE IF ~table.got \/ at = {} THEN Finished(Refused)
       ELSE IF ~directory.got THEN Finished(Refused)
       ELSE [done |-> FALSE, directory |-> Refused, file |-> directory,
             records |-> SortSeq(known, LAMBDA d, e : d.at < e.at)]

\* What an entry's data says; how much of it is read.
ReadSize(e) == CASE e.kind = "codeview" /\ e.size >= CodeViewBytes -> {CodeViewBytes}
                 [] e.kind = "checksum" /\ e.size \in 2 .. MaxChecksum -> {e.size}
                 [] OTHER -> {}
Gathered(out, e) == CASE ~e.sound -> out
                   [] e.sound /\ e.kind = "codeview" -> [out EXCEPT !.codeview = @ \cup {e.says}]
                   [] e.sound /\ e.kind = "checksum" -> [out EXCEPT !.checksums = @ \cup {e.says}]

\* read_records
ReadRecords(file, records) ==
    FoldLeft(LAMBDA so, e :
                 IF ~so.file.got \/ ReadSize(e) = {} THEN so
                 ELSE LET f == ReadAt(so.file, e.at, The(ReadSize(e)))
                      IN [file |-> f, out |-> IF f.got THEN Gathered(so.out, e) ELSE so.out],
             [file |-> [file EXCEPT !.got = TRUE], out |-> NoDirectory], records)

\* DebugDirectoryScan::pass, first and again
ScanDirectory(image) ==
    LET found == Locate(image, Forward(image))
        first == ReadRecords(found.file, found.records)
        again == ReadRecords(Forward(image), found.records)
    IN IF found.done THEN found.directory
       ELSE IF first.file.got THEN Ok(first.out)
       ELSE IF first.file.behind /\ again.file.got THEN Ok(again.out)
       ELSE Refused

---------------------------------------------------------------------------
(* Portable PDBs, as the bytes they are.  The first byte stands for the   *)
(* headers, which say where the #Pdb stream lies; its first bytes are the  *)
(* id.  An offset outside the file stands for headers that do not parse.   *)

PdbStreamOffset(pdb) == IF pdb = <<>> THEN {} ELSE {pdb[1]}

\* read_pdb_id
PdbId(pdb) == {[bytes |-> SubSeq(pdb, at + 1, at + IdBytes), offset |-> at] :
                   at \in {o \in PdbStreamOffset(pdb) : o + IdBytes <= Len(pdb)}}

\* ssqp_key: the GUID, without the stamp.
SsqpKey(id) == SubSeq(id.bytes, 1, GuidBytes)

\* hash_without_id: chunks are the sizes the reads return; what is hashed stands
\* for its hash.
HashedBytes(pdb, id, chunks) ==
    LET upTo(k) == FoldLeft(+, 0, SubSeq(chunks, 1, k))
        chunk(k) == LET start == upTo(k - 1)
                        end == upTo(k)
                        from == Max({id.offset, start})
                        to == Min({id.offset + IdBytes, end})
                    IN [i \in 1 .. chunks[k] |-> IF start + i > from /\ start + i <= to THEN 0 ELSE pdb[start + i]]
    IN FlattenSeq([k \in 1 .. Len(chunks) |-> chunk(k)])

\* The PDB an assembly belongs to, as verify asks for it: a CodeView entry with
\* the id, every checksum of a known algorithm right, and one at least.
Vouches(directory, pdb) ==
    \E id \in PdbId(pdb) :
        /\ id.bytes \in directory.codeview
        /\ \A c \in directory.checksums : c.known => c.sum = HashedBytes(pdb, id, <<Len(pdb)>>)
        /\ \E c \in directory.checksums : c.known

\* verify: pdbs are [name, folder, bytes], assemblies maps a folder and a name to
\* what its scan found ({} where there is none).  Refused, or what to store.
VerifyPush(pdbs, assemblies) ==
    FoldLeft(LAMBDA so, p :
                 IF so = {} \/ PdbId(p.bytes) = {} THEN so
                 ELSE LET key == <<SsqpKey(The(PdbId(p.bytes))), p.name>>
                          directory == assemblies[<<p.folder, p.name>>]
                          seen == {v \in The(so) : v.key = key}
                      IN IF directory = {} THEN Refused
                         ELSE IF ~Vouches(The(directory), p.bytes) THEN Refused
                         ELSE IF seen = {} THEN Ok(The(so) \cup {[key |-> key, bytes |-> p.bytes]})
                         ELSE IF The(seen).bytes = p.bytes THEN so ELSE Refused,
             Ok({}), pdbs)

---------------------------------------------------------------------------
\* Reading forward finds in at most two passes what reading anywhere would: an
\* assembly whose headers are in file order and whose entries' data do not
\* overlap is read as it is, wherever its linker put the data, and one that
\* is shorter than it claims is refused (DebugDirectoryScan).
ScanIsExact(image) ==
    LET scan == ScanDirectory(image)
        found == Locate(image, Forward(image))
        wanted == {i \in DOMAIN found.records : ReadSize(found.records[i]) # {}}
        end(i) == found.records[i].at + The(ReadSize(found.records[i]))
        readable == \A i \in wanted : end(i) <= Min({image.len, image.real, MaxScan})
        apart == \A i, j \in wanted : i # j => end(i) <= found.records[j].at \/ end(j) <= found.records[i].at
        says(kind) == {found.records[i].says :
                           i \in {j \in wanted : found.records[j].kind = kind /\ found.records[j].sound}}
    IN ~found.done =>
           /\ readable /\ apart => scan # {}
           /\ scan # {} => readable
           /\ \A d \in scan : d.codeview = says("codeview") /\ d.checksums = says("checksum")

\* However the reads of the file fall, the hash is of the bytes with the id
\* zeroed, and it tells two PDBs of one id apart (hash_without_id).
HashTellsApart(p, q, chunks) ==
    \A i \in PdbId(p), j \in PdbId(q) :
        /\ HashedBytes(p, i, chunks) = HashedBytes(p, i, <<Len(p)>>)
        /\ i.bytes = j.bytes /\ HashedBytes(p, i, chunks) = HashedBytes(q, j, <<Len(q)>>) => p = q

\* What a push stores is the one file its assembly vouches for: a debugger that
\* asks with the assembly's GUID gets it, no other file of that id passes for
\* it, and every key stands for one file (verify).
StoredIsVouchedFor(pdbs, assemblies, files) ==
    \A stored \in VerifyPush(pdbs, assemblies) :
        /\ \A v, w \in stored : v.key = w.key => v = w
        /\ \A p \in Range(pdbs), id \in UNION {PdbId(q.bytes) : q \in Range(pdbs)} :
               id \in PdbId(p.bytes) =>
                   /\ [key |-> <<SsqpKey(id), p.name>>, bytes |-> p.bytes] \in stored
                   /\ \E d \in assemblies[<<p.folder, p.name>>] : \E named \in d.codeview :
                          SsqpKey(id) = SsqpKey([bytes |-> named])
                   /\ \A q \in files, d \in assemblies[<<p.folder, p.name>>] :
                          (Vouches(d, q) /\ \E other \in PdbId(q) : other.bytes = id.bytes) => q = p.bytes
=============================================================================
