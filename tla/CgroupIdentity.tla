--------------------------- MODULE CgroupIdentity ---------------------------
(***************************************************************************)
(* /proc/<pid>/cgroup -> pod UID and container id (src/src/cgroup.rs).     *)
(*                                                                         *)
(* The file is a sequence of lines, a line the sequence of its ':'         *)
(* separated fields, a field the sequence of its '/' separated non-empty   *)
(* segments. A segment is a record of the parts that the parser tells      *)
(* apart: a known prefix, the name after it and a known suffix. An         *)
(* optional result is a set with at most one member.                       *)
(***************************************************************************)
EXTENDS Integers, Sequences

MAX_POD_UID_LEN == 253
MIN_CONTAINER_ID_LEN == 12

RuntimePrefixes == {"cri-containerd-", "docker-", "crio-"}

\* A name is [id, digits ("hex", "HEX" or "other"), sep ("", "-" or "_"), len], a
\* segment [prefix, name, suffix]; "-pod" stands for every prefix that ends so.

----------------------------------------------------------------------------
is_pod_uid(name) ==
  /\ name.len \in 1..MAX_POD_UID_LEN
  /\ name.digits = "hex" /\ name.sep # "_"

\* The systemd driver writes the UID's dashes as underscores.
Dashed(name) == [name EXCEPT !.sep = IF @ = "_" THEN "-" ELSE @]

extract_pod_uid(seg) ==
  IF seg.suffix # ".scope" /\ seg.prefix \in {"pod", "-pod"}
     /\ is_pod_uid(Dashed(seg.name))
  THEN {Dashed(seg.name)}
  ELSE {}

extract_container_id(seg) ==
  IF /\ seg.suffix # ".slice"
     /\ seg.prefix \in RuntimePrefixes \cup {""}
     /\ seg.name.len >= MIN_CONTAINER_ID_LEN
     /\ seg.name.digits \in {"hex", "HEX"} /\ seg.name.sep = ""
  THEN {seg.name}
  ELSE {}

IsPod(seg) == extract_pod_uid(seg) # {}

\* Plausible bug: the container is taken to be the last segment.
parse_cgroup_path_last(path) ==
  UNION {[pod : extract_pod_uid(path[i]), container : extract_container_id(path[Len(path)])] :
           i \in {i \in 1..Len(path) - 1 : IsPod(path[i]) /\ \A j \in 1..i - 1 : ~IsPod(path[j])}}

\* The first segment that is a pod, and the one directly below it.
parse_cgroup_path(path) ==
  UNION {[pod : extract_pod_uid(path[i]), container : extract_container_id(path[i + 1])] :
           i \in {i \in 1..Len(path) - 1 : IsPod(path[i]) /\ \A j \in 1..i - 1 : ~IsPod(path[j])}}

\* The first line whose last field yields both ids.
parse_cgroup(lines) ==
  LET Identity(i) == parse_cgroup_path(lines[i][Len(lines[i])])
  IN UNION {Identity(i) : i \in {i \in DOMAIN lines : \A j \in 1..i - 1 : Identity(j) = {}}}
----------------------------------------------------------------------------
\* The directories of a container, as the kubelet and the runtimes name them under
\* the cgroupfs driver and under the systemd driver (module comment of cgroup.rs).
DirNames == [id : STRING, digits : {"hex", "HEX", "other"}, sep : {"", "-", "_"}, len : Nat]
Segments == [prefix : {"", "pod", "-pod"} \cup RuntimePrefixes, name : DirNames, suffix : {"", ".slice", ".scope"}]

PodUids      == {n \in DirNames : n.digits = "hex" /\ n.sep # "_" /\ n.len \in 1..MAX_POD_UID_LEN}
ContainerIds == {n \in DirNames : n.digits = "hex" /\ n.sep = "" /\ n.len = 64}

Underscored(name) == [name EXCEPT !.sep = IF @ = "-" THEN "_" ELSE @]

PodDirs(uid) ==
  {[prefix |-> "pod", name |-> uid, suffix |-> ""], [prefix |-> "-pod", name |-> Underscored(uid), suffix |-> ".slice"]}
ContainerDirs(cid) ==
  {[prefix |-> "", name |-> cid, suffix |-> ""]} \cup {[prefix |-> r, name |-> cid, suffix |-> ".scope"] : r \in RuntimePrefixes}

\* What could be taken for such a directory.
LikePod(seg) == seg.prefix \in {"pod", "-pod"} /\ seg.name.digits = "hex" /\ seg.name.len \in 1..MAX_POD_UID_LEN
LikeContainer(seg) == seg.name.digits # "other" /\ seg.name.len >= MIN_CONTAINER_ID_LEN

\* The path of a process in container id, perhaps in a cgroup below the container's
\* own, and a path that leads through no container.
InContainer(path, id) ==
  \E i \in 1..Len(path) - 1 :
    /\ path[i] \in PodDirs(id.pod) /\ path[i + 1] \in ContainerDirs(id.container)
    /\ \A j \in 1..i - 1 : ~LikePod(path[j])

InNone(path) == \A i \in 1..Len(path) - 1 : ~(LikePod(path[i]) /\ LikeContainer(path[i + 1]))

\* The cgroup file of a process whose identity is whose: some hierarchies may know
\* nothing of the container; a ':' in a path leaves only what comes after it.
Placed(lines, whose, colon) ==
  LET Path(i) == lines[i][Len(lines[i])]
  IN /\ DOMAIN lines = 1..Len(lines) /\ Len(lines) \in Nat
     /\ \A i \in DOMAIN lines : Path(i) \in Seq(Segments)
     /\ \/ whose = {} /\ \A i \in DOMAIN lines : InNone(Path(i))
        \/ \E id \in whose :
             /\ whose = {id} /\ id \in [pod : PodUids, container : ContainerIds]
             /\ \A i \in DOMAIN lines : InNone(Path(i)) \/ InContainer(Path(i), id)
             /\ colon \/ \E i \in DOMAIN lines : InContainer(Path(i), id)
=============================================================================
