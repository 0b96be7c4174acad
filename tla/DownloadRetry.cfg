SPECIFICATION DownloadSpec
CONSTANTS
  Chunks = 2
  MaxDownloads = 3
PROPERTY
  RetryStartsAnew
CHECK_DEADLOCK FALSE
