------------------------------- MODULE MCLFS --------------------------------
EXTENDS LFS
MCPaths == {<<"a">>, <<"b">>, <<"c">>, <<"a", "b">>}
MCWrites == {<<0, <<1>>>>, <<1, <<1, 1>>>>, <<2, <<1>>>>}
Option(from_disk, no_force, policy) ==
  [use_disk_cr |-> from_disk, no_force_checkpoints |-> no_force, inode_policy |-> policy]
FromMemory == {Option(FALSE, FALSE, "sequential"), Option(FALSE, TRUE, "random")}
FromDisk == {Option(TRUE, FALSE, "sequential")}
=============================================================================
