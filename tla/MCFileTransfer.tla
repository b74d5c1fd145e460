--------------------------- MODULE MCFileTransfer ---------------------------
\* FileTransfer for TLC: uploads 1 and 2, download 11, one path.
EXTENDS FileTransfer

CONSTANT p1

MCUploads == 1 .. 2
MCDownloads == {11}
MCPaths == {p1}
MCInodes == 1 .. 2
MCSizes == {2, 3}
=============================================================================
