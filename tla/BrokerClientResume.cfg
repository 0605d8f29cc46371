CONSTANTS
  MaxRequests = 1
  MaxLines = 2
  MaxReports = 1
SPECIFICATION FairSpec
PROPERTY SubmissionResumes
