------------------------------- MODULE MCFat32 -------------------------------
(***************************************************************************)
(* A few clusters, and one FAT entry more.  The disk is freshly formatted; *)
(* or the host has put a directory on it, and it may fail once; or a file  *)
(* of two clusters behind a deleted entry, and it may fail once; or a full *)
(* directory and a file, so that no cluster is free, and it may fail once; *)
(* or an empty file, which has no cluster, and long names, so that the     *)
(* root directory is full; or a directory that holds the root, and it may  *)
(* fail once.                                                              *)
(***************************************************************************)
EXTENDS Fat32Ls

SmallPaths == {<<"a">>, <<"b", "a">>}

NoFat == [c \in Entries |-> IF c = Root THEN EOC ELSE FREE]
NoFiles == [p \in Places |-> EMPTY]
Entry(k, n, c, s) == [kind |-> k, name |-> n, first |-> c, size |-> s]

SmallDisks ==
  { [fat |-> NoFat, dirent |-> NoFiles, faults |-> 0, damage |-> {}],
    [fat |-> [NoFat EXCEPT ![3] = EOC],
     dirent |-> [NoFiles EXCEPT ![<<2, 1>>] = Entry("dir", "b", 3, 0),
                                ![<<3, 1>>] = UNNAMED, ![<<3, 2>>] = UNNAMED],
     faults |-> 1, damage |-> {}],
    [fat |-> [NoFat EXCEPT ![3] = 4, ![4] = EOC],
     dirent |-> [NoFiles EXCEPT ![<<2, 1>>] = DELETED,
                                ![<<2, 2>>] = Entry("file", "a", 3, 2 * B)],
     faults |-> 1, damage |-> {}],
    [fat |-> [NoFat EXCEPT ![3] = EOC, ![4] = EOC],
     dirent |-> [NoFiles EXCEPT ![<<2, 1>>] = Entry("dir", "b", 3, 0),
                                ![<<2, 2>>] = UNNAMED, ![<<2, 3>>] = Entry("file", "a", 4, B),
                                ![<<3, 1>>] = UNNAMED, ![<<3, 2>>] = UNNAMED,
                                ![<<3, 3>>] = UNNAMED],
     faults |-> 1, damage |-> {}],
    [fat |-> NoFat,
     dirent |-> [NoFiles EXCEPT ![<<2, 1>>] = UNNAMED, ![<<2, 2>>] = UNNAMED,
                                ![<<2, 3>>] = Entry("file", "a", FREE, 0)],
     faults |-> 0, damage |-> {}],
    [fat |-> [NoFat EXCEPT ![3] = EOC],
     dirent |-> [NoFiles EXCEPT ![<<2, 1>>] = Entry("dir", "b", 3, 0),
                                ![<<2, 2>>] = Entry("file", "a", FREE, 0),
                                ![<<3, 1>>] = UNNAMED, ![<<3, 2>>] = UNNAMED,
                                ![<<3, 3>>] = Entry("dir", "a", Root, 0)],
     faults |-> 1, damage |-> {"loop"}] }

=============================================================================
