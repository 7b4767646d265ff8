-------------------------- MODULE MCDeviceHotplug --------------------------
(***************************************************************************)
(* A virtio-blk disk with a partition and a virtio-scsi disk, one request  *)
(* and one device that is not a block device.                              *)
(***************************************************************************)
EXTENDS DeviceHotplug

CONSTANTS pci, scsi, disk, part, sdisk, memory

MCAddrs == {pci, scsi}
MCScsi == {scsi}
MCPaths == {disk, part, sdisk, memory}
MCBlockPaths == {disk, part, sdisk}
MCUnderRoot == {<<disk, pci>>, <<part, pci>>}
MCDiskOnly == {<<disk, pci>>}
MCContains == MCUnderRoot \cup {<<sdisk, scsi>>}
=============================================================================
