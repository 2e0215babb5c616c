------------------------------ MODULE Closure ------------------------------
(***************************************************************************)
(* The dependency closure of a package, as Chocolatey picks it: what       *)
(* yanuget-internalize resolves before anything is downloaded.             *)
(***************************************************************************)
EXTENDS Integers, Sequences, FiniteSets, SequencesExt, FiniteSetsExt, Results

CONSTANT MaxPackages   \* MAX_PACKAGES

\* A world is [versions, deps]: versions[id] is a set of [v, pre, listed], and
\* deps[id][v] a sequence of [id, range, pin]: range the set of versions allowed,
\* pin whether its two bounds are one version.  A choice is [id, v].

CliPackage == "chocolatey"

\* Every dependency of what is chosen, in order, but those on the CLI itself.
EdgesOf(chosen, world) ==
    FlattenSeq([i \in DOMAIN chosen |->
        SelectSeq(world.deps[chosen[i].id][chosen[i].v], LAMBDA e : e.id # CliPackage)])

ChosenAs(chosen, id) == {c.v : c \in {x \in ToSet(chosen) : x.id = id}}

\* Mutant: unlisted versions are ranked with the listed ones.
CandidatesHighest(next, edges, world, prerelease) ==
    LET onIt == {e \in ToSet(edges) : e.id = next}
        fits(i) == /\ \A e \in onIt : i.v \in e.range
                   /\ prerelease \/ ~i.pre \/ \E e \in onIt : e.pin /\ e.range = {i.v}
    IN  SetToSortSeq({i \in world.versions[next] : fits(i)}, LAMBDA a, b : a.v > b.v)

\* The versions of next that every range on it allows, listed before unlisted, then
\* highest first; a pre-release only for a pre-release root or when pinned.
Candidates(next, edges, world, prerelease) ==
    LET onIt == {e \in ToSet(edges) : e.id = next}
        fits(i) == /\ \A e \in onIt : i.v \in e.range
                   /\ prerelease \/ ~i.pre \/ \E e \in onIt : e.pin /\ e.range = {i.v}
        better(a, b) == IF a.listed # b.listed THEN a.listed ELSE a.v > b.v
    IN  SetToSortSeq({i \in world.versions[next] : fits(i)}, better)

\* Solver::search: depth first, undoing a choice that leads nowhere; {} when no
\* choice does.
RECURSIVE Search(_, _, _)
Search(chosen, world, prerelease) ==
    LET edges == EdgesOf(chosen, world)
        clash == \E e \in ToSet(edges) : \E v \in ChosenAs(chosen, e.id) : v \notin e.range
        open == SelectSeq(edges, LAMBDA e : ChosenAs(chosen, e.id) = {})
        next == Head(open).id
        results == [i \in DOMAIN Candidates(next, edges, world, prerelease) |->
                      [id |-> next, v |-> Candidates(next, edges, world, prerelease)[i].v]]
        tried == FoldLeft(LAMBDA found, c : IF found # Refused THEN found
                                            ELSE Search(Append(chosen, c), world, prerelease),
                          Refused, results)
    IN  IF clash THEN Refused
        ELSE IF open = <<>> THEN Ok(chosen)
        ELSE IF Len(chosen) >= MaxPackages THEN Refused
        ELSE tried

\* resolve: the search over what the upstream told; asking it lazily finds the same.
Resolve(root, world, prerelease) == Search(<<root>>, world, prerelease)

---------------------------------------------------------------------------
\* The reference: a set of choices, one per id, closed under dependencies, in which
\* every range is met, and no pre-release is taken that nobody asked for.

Solves(chosen, root, world, prerelease) ==
    LET edges == {e \in UNION {ToSet(world.deps[c.id][c.v]) : c \in chosen} : e.id # CliPackage}
    IN  /\ root \in chosen
        /\ \A c, d \in chosen : c.id = d.id => c = d
        /\ \A e \in edges : \E c \in chosen : c.id = e.id /\ c.v \in e.range
        /\ \A c \in chosen : c # root =>
              /\ \E e \in edges : e.id = c.id
              /\ \E i \in world.versions[c.id] :
                    i.v = c.v /\ (i.pre => prerelease \/ \E e \in edges : e.id = c.id /\ e.pin /\ e.range = {c.v})

\* What is resolved is a solution, a solution without pre-releases is never missed,
\* and no choice could have been a better version with what was chosen before it.
ResolvesBest(root, world, prerelease) ==
    LET found == Resolve(root, world, prerelease)
        all == {[id |-> id, v |-> i.v] : id \in DOMAIN world.versions, i \in UNION Range(world.versions)}
        choices == {c \in all : c # root => \E i \in world.versions[c.id] : i.v = c.v} \cup {root}
        info(c) == CHOOSE i \in world.versions[c.id] : i.v = c.v
        stable(s) == \A c \in s \ {root} : ~info(c).pre
        rank(c) == (IF info(c).listed THEN 100 ELSE 0) + c.v
        solutions == {s \in SUBSET choices : Solves(s, root, world, prerelease)}
    IN  /\ found = Refused => ~(\E s \in solutions : stable(s))
        /\ \A chosen \in found :
              /\ ToSet(chosen) \in solutions
              /\ \A n \in 2 .. Len(chosen) : \A s \in solutions :
                    stable(s) /\ ToSet(SubSeq(chosen, 1, n - 1)) \subseteq s =>
                        \A c \in s : c.id = chosen[n].id => rank(c) <= rank(chosen[n])
=============================================================================
