\* A download is interrupted and tried again; the channel stays as it is.
CONSTANTS
  Spec <- OneRelease
  Key = {k1}
  Trusted = {k1}
  Installation <- Installed
  SizeOf <- Sizes
  Checksums <- Sums
  Ranges = TRUE
  MaxFailures = 2
SPECIFICATION ResumeSpec
PROPERTY DownloadCompletes
CHECK_DEADLOCK FALSE
